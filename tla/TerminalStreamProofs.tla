------------------------ MODULE TerminalStreamProofs ------------------------
(***************************************************************************)
(* What a terminal shows is in order, without repetition and without a     *)
(* hole that nobody announced; the last id and the history are kept.       *)
(***************************************************************************)
EXTENDS TerminalStream, TLAPS

IsFrame(i) == wire[i].is = "frame"

(* Entries are numbered from one; a message that ends the stream is the    *)
(* last one that is sent.                                                  *)
WireInv ==
  /\ \A i \in DOMAIN wire : IsFrame(i) => wire[i].id > 0
  /\ \A i \in DOMAIN wire : wire[i].is = "end" => i = Len(wire) /\ conn = NoConn

TypeInv == TypeOK /\ WireInv

-----------------------------------------------------------------------------
(* The actions of the runner and of those who end runs for it.             *)
RunnerStep ==
  \/ Output \/ Append1 \/ AppendFails \/ AppendRepeats \/ Exit \/ Finish \/ Save \/ Throw
  \/ Expire \/ StreamExpires \/ RunnerDies \/ EndElsewhere

(* An append puts the next chunk into the stream once, twice or not at all; *)
(* one that is answered is there.                                           *)
LEMMA Appends ==
  ASSUME Append1 \/ AppendFails \/ AppendRepeats
  PROVE  \E copies \in 0 .. 2, answered \in BOOLEAN :
           (answered => copies > 0) /\ Publish(copies, answered) /\ (UNCHANGED faults \/ Fault)
<1>1. CASE Append1
  <2>1. Publish(1, TRUE) /\ UNCHANGED faults
    BY <1>1 DEF Append1, bounds
  <2>2. 1 \in 0 .. 2 /\ TRUE \in BOOLEAN /\ 1 > 0
    OBVIOUS
  <2> QED
    BY <2>1, <2>2
<1>2. CASE AppendFails
  <2>1. PICK copies \in 0 .. 2 : Publish(copies, FALSE) /\ Fault
    BY <1>2 DEF AppendFails
  <2> QED
    BY <2>1
<1>3. CASE AppendRepeats
  <2>1. Publish(2, TRUE) /\ Fault
    BY <1>3 DEF AppendRepeats
  <2>2. 2 \in 0 .. 2 /\ TRUE \in BOOLEAN /\ 2 > 0
    OBVIOUS
  <2> QED
    BY <2>1, <2>2
<1> QED
  BY <1>1, <1>2, <1>3

(* The runner's actions leave the browser, the gateway and what is between *)
(* them alone; the stream only grows at its end and shrinks at its start.  *)
LEMMA RunnerGrows ==
  ASSUME TypeInv, RunnerStep
  PROVE  /\ UNCHANGED <<view, conn, wire>>
         /\ log' \in Seq(1 .. MaxChunks) /\ first' \in 1 .. Len(log') + 1
         /\ Len(log) <= Len(log') /\ first <= first'
<1> USE CapAssumption, BoundsAssumption DEF TypeInv, TypeOK, view, appends
<1>1. CASE UNCHANGED <<log, first, view, conn, wire>>
  BY <1>1
<1>2. ASSUME NEW copies \in 0 .. 2, NEW answered \in BOOLEAN, Publish(copies, answered) PROVE
           /\ UNCHANGED <<view, conn, wire>>
           /\ log' \in Seq(1 .. MaxChunks) /\ first' \in 1 .. Len(log') + 1
           /\ Len(log) <= Len(log') /\ first <= first'
  <2>1. settled + 1 \in 1 .. MaxChunks
    BY <1>2 DEF Publish
  <2> DEFINE more == [i \in 1 .. copies |-> settled + 1]
  <2>2. more \in Seq(1 .. MaxChunks) /\ Len(more) = copies
    BY <2>1
  <2> HIDE DEF more
  <2>3. log' = log \o more
    BY <1>2 DEF Publish, more
  <2>4. log' \in Seq(1 .. MaxChunks) /\ Len(log') = Len(log) + copies
    BY <2>2, <2>3
  <2>5. first' = first \/ first' \in first .. Len(log') + 1 - Cap
    BY <1>2 DEF Publish
  <2> QED
    BY <1>2, <2>4, <2>5 DEF Publish
<1>3. CASE StreamExpires
  BY <1>3 DEF StreamExpires
<1>4. CASE Append1 \/ AppendFails \/ AppendRepeats
  BY <1>2, <1>4, Appends
<1> QED
  BY <1>1, <1>3, <1>4
  DEF RunnerStep, Output, Exit, Finish, Conclude, Save, Throw, Expire, RunnerDies, EndElsewhere

LEMMA RunnerTypes == TypeInv /\ RunnerStep => TypeInv'
<1> SUFFICES ASSUME TypeInv, RunnerStep PROVE TypeInv'
  OBVIOUS
<1> USE BoundsAssumption DEF appends
<1>1. /\ UNCHANGED <<view, conn, wire>>
      /\ log' \in Seq(1 .. MaxChunks) /\ first' \in 1 .. Len(log') + 1
  BY RunnerGrows
<1>5. latest' \in 0 .. Len(log') /\ unheard' \subseteq 1 .. Len(log')
  <2>1. Len(log) \in Nat /\ Len(log') \in Nat /\ Len(log) <= Len(log')
    BY <1>1, RunnerGrows DEF TypeInv, TypeOK
  <2>2. CASE Append1 \/ AppendFails \/ AppendRepeats
    <3>1. /\ latest' = latest \/ latest' = Len(log')
          /\ unheard' = unheard \/ unheard' = unheard \cup (Len(log) + 1 .. Len(log'))
      BY <2>2, Appends DEF Publish
    <3>2. latest \in 0 .. Len(log) /\ unheard \subseteq 1 .. Len(log)
      BY DEF TypeInv, TypeOK
    <3>3. latest' \in 0 .. Len(log')
      BY <2>1, <3>1, <3>2
    <3>4. unheard' \subseteq 1 .. Len(log')
      <4>1. PICK n \in Nat, m \in Nat : n = Len(log) /\ m = Len(log') /\ n <= m
        BY <2>1
      <4>2. (1 .. n) \subseteq (1 .. m) /\ (n + 1 .. m) \subseteq (1 .. m)
        BY <4>1
      <4>3. CASE unheard' = unheard
        BY <3>2, <4>1, <4>2, <4>3
      <4>4. CASE unheard' = unheard \cup (n + 1 .. m)
        <5>1. unheard \subseteq 1 .. m
          BY <3>2, <4>1, <4>2
        <5> QED
          BY <4>1, <4>2, <4>4, <5>1
      <4> QED
        BY <3>1, <4>1, <4>3, <4>4
    <3> QED
      BY <3>3, <3>4
  <2>3. CASE UNCHANGED <<log, latest, unheard>>
    BY <2>3 DEF TypeInv, TypeOK
  <2> QED
    BY <2>2, <2>3 DEF RunnerStep, Output, Exit, Finish, Conclude, Save, Throw, Expire, StreamExpires,
           RunnerDies, EndElsewhere
<1>2. produced' \in 0 .. MaxChunks /\ settled' \in 0 .. produced'
  <2>1. UNCHANGED <<produced, settled>> \/ Output \/ \E copies \in 0 .. 2, answered \in BOOLEAN : Publish(copies, answered)
    BY Appends DEF RunnerStep, Exit, Finish, Conclude, Save, Throw,
           Expire, StreamExpires, RunnerDies, EndElsewhere
  <2> QED
    BY <2>1 DEF TypeInv, TypeOK, Output, Publish
<1>4. drops' \in 0 .. MaxDrops /\ faults' \in 0 .. MaxFaults
  <2>1. UNCHANGED drops /\ (UNCHANGED faults \/ Fault)
    BY DEF RunnerStep, bounds, Output, Append1, AppendFails, AppendRepeats, Exit, Finish, Conclude,
           Save, Throw, Expire, StreamExpires, RunnerDies, EndElsewhere
  <2> QED
    BY <2>1 DEF TypeInv, TypeOK, Fault
<1>3. /\ runner' \in {"runs", "exited", "concluded", "closing", "done", "dead"}
      /\ row' \in [over : BOOLEAN, lastId : Nat, by : {"nobody", "runner", "other"}]
      /\ saved' \in BOOLEAN /\ overrun' \in BOOLEAN
  <2>1. overrun' \in BOOLEAN /\ saved' \in BOOLEAN
    BY DEF TypeInv, TypeOK, RunnerStep, Output, Append1, AppendFails, AppendRepeats, Publish, Exit, Finish,
         Conclude, Save, Throw, Expire, StreamExpires, RunnerDies, EndElsewhere
  <2>2. runner' \in {"runs", "exited", "concluded", "closing", "done", "dead"}
    BY DEF TypeInv, TypeOK, RunnerStep, Output, Append1, AppendFails, AppendRepeats, Publish, Exit, Finish,
         Conclude, Save, Throw, Expire, StreamExpires, RunnerDies, EndElsewhere
  <2>3. row' \in [over : BOOLEAN, lastId : Nat, by : {"nobody", "runner", "other"}]
    <3>1. UNCHANGED row \/ Conclude \/ EndElsewhere
      BY DEF RunnerStep, Output, Append1, AppendFails, AppendRepeats, Publish, Exit, Finish, Save,
             Throw, Expire, StreamExpires, RunnerDies
    <3> DEFINE Rows == [over : BOOLEAN, lastId : Nat, by : {"nobody", "runner", "other"}]
    <3>2. row \in Rows /\ latest \in Nat
      BY DEF TypeInv, TypeOK
    <3>3. \A id \in Nat, who \in {"runner", "other"} : [over |-> TRUE, lastId |-> id, by |-> who] \in Rows
      OBVIOUS
    <3> HIDE DEF Rows
    <3>4. \/ row' = row
          \/ row' = [over |-> TRUE, lastId |-> latest, by |-> "runner"]
          \/ row' = [over |-> TRUE, lastId |-> 0, by |-> "other"]
      BY <3>1 DEF Conclude, EndElsewhere
    <3>5. row' \in Rows
      BY <3>2, <3>3, <3>4
    <3> QED
      BY <3>5 DEF Rows
  <2> QED
    BY <2>1, <2>2, <2>3
<1> QED
  BY <1>1, <1>2, <1>3, <1>4, <1>5 DEF TypeInv, TypeOK, WireInv, IsFrame, view

(* Messages that the gateway sends, at the end of what is under way.       *)
LEMMA SendTypes ==
  ASSUME TypeInv, conn.at # "none", NEW messages \in Seq(Message), Send(messages),
         \A i \in DOMAIN messages : messages[i].is = "frame" => messages[i].id > 0,
         \A i \in DOMAIN messages : messages[i].is = "end" => i = Len(messages) /\ conn' = NoConn
  PROVE  /\ wire' \in Seq(Message) /\ WireInv'
         /\ Len(wire') = Len(wire) + Len(messages)
         /\ \A i \in 1 .. Len(wire) : wire'[i] = wire[i]
         /\ \A i \in 1 .. Len(messages) : wire'[Len(wire) + i] = messages[i]
<1>1. wire' = wire \o messages /\ wire \in Seq(Message)
  BY DEF Send, TypeInv, TypeOK
<1>2. /\ wire' \in Seq(Message)
      /\ Len(wire') = Len(wire) + Len(messages)
      /\ \A i \in 1 .. Len(wire) : wire'[i] = wire[i]
      /\ \A i \in 1 .. Len(messages) : wire'[Len(wire) + i] = messages[i]
  BY <1>1
<1>3. ASSUME NEW i \in DOMAIN wire'
      PROVE  /\ wire'[i].is = "frame" => wire'[i].id > 0
             /\ wire'[i].is = "end" => i = Len(wire') /\ conn' = NoConn
  <2>1. CASE i \in 1 .. Len(wire)
    <3>1. wire'[i] = wire[i] /\ i \in DOMAIN wire
      BY <1>1, <1>2, <2>1
    <3> QED
      BY <3>1 DEF TypeInv, WireInv, IsFrame, NoConn
  <2>2. CASE i \notin 1 .. Len(wire)
    <3>1. PICK k \in DOMAIN messages : i = Len(wire) + k
      <4>1. i \in Len(wire) + 1 .. Len(wire) + Len(messages)
        BY <1>1, <1>2, <2>2
      <4>2. i - Len(wire) \in 1 .. Len(messages)
        BY <1>1, <4>1
      <4> QED
        BY <1>1, <4>1, <4>2
    <3>2. wire'[i] = messages[k]
      BY <1>2, <3>1
    <3> QED
      BY <1>1, <1>2, <3>1, <3>2
  <2> QED
    BY <2>1, <2>2
<1> QED
  BY <1>2, <1>3 DEF WireInv, IsFrame

LEMMA MessageTypes ==
  /\ \A gap \in BOOLEAN : Ready(gap) \in Message /\ Ready(gap).is = "ready" /\ Ready(gap).gap = gap
  /\ End \in Message /\ End.is = "end"
  /\ \A id \in Nat : Frame(id) \in Message /\ Frame(id).is = "frame" /\ Frame(id).id = id
BY DEF Ready, End, Frame, Message

(* The frames of one XREAD: every entry from the oldest that is new.       *)
Oldest == IF conn.cursor < first THEN first ELSE conn.cursor + 1
Batch  == [i \in 1 .. Len(log) + 1 - Oldest |-> Frame(Oldest + i - 1)]

LEMMA BatchTypes ==
  ASSUME TypeInv, ReadEntries
  PROVE  /\ conn.at = "read" /\ Send(Batch) /\ conn' = [at |-> "read", cursor |-> Len(log)]
         /\ Oldest \in Nat \ {0} /\ Oldest <= Len(log) /\ Oldest > conn.cursor /\ Oldest >= first
         /\ Batch \in Seq(Message) /\ Len(Batch) = Len(log) + 1 - Oldest
         /\ \A i \in DOMAIN Batch : Batch[i] = Frame(Oldest + i - 1) /\ Oldest + i - 1 \in Nat \ {0}
<1>1. conn.at = "read" /\ Send(Batch) /\ Oldest <= Len(log) /\ conn' = [conn EXCEPT !.cursor = Len(log)]
  BY DEF ReadEntries, Batch, Oldest
<1>2. conn \in Conn /\ Len(log) \in Nat /\ first \in Nat \ {0}
  BY DEF TypeInv, TypeOK
<1>3. conn' = [at |-> "read", cursor |-> Len(log)]
  BY <1>1, <1>2 DEF Conn
<1>4. Oldest \in Nat \ {0} /\ Oldest > conn.cursor /\ Oldest >= first
  BY <1>2 DEF Oldest, Conn
<1> DEFINE n == Len(log) + 1 - Oldest
<1>5. n \in Nat /\ \A i \in 1 .. n : Oldest + i - 1 \in Nat \ {0}
  BY <1>1, <1>2, <1>4
<1>6. \A i \in 1 .. n : Frame(Oldest + i - 1) \in Message
  BY <1>5, MessageTypes
<1>7. Batch \in Seq(Message) /\ Len(Batch) = n
  BY <1>5, <1>6 DEF Batch
<1>8. \A i \in 1 .. n : Batch[i] = Frame(Oldest + i - 1)
  BY <1>5 DEF Batch
<1>9. \A i \in DOMAIN Batch : Batch[i] = Frame(Oldest + i - 1) /\ Oldest + i - 1 \in Nat \ {0}
  <2>1. DOMAIN Batch = 1 .. n
    BY DEF Batch
  <2> QED
    BY <1>5, <1>8, <2>1
<1> QED
  BY <1>1, <1>3, <1>4, <1>7, <1>9

LEMMA GatewayTypes == TypeInv /\ (Gateway \/ GatewayFails) => TypeInv'
<1> SUFFICES ASSUME TypeInv, Gateway \/ GatewayFails PROVE TypeInv'
  OBVIOUS
<1>0. conn.at # "none" /\ conn \in Conn /\ client.is = "open" /\ wire \in Seq(Message) /\ Len(log) \in Nat
  BY DEF TypeInv, TypeOK, Gateway, GatewayFails, Serve, CheckOldest, ReadEntries, ReadNothing, ReadStatus, NoConn
<1>1. ASSUME NEW m \in Message, conn.at # "none", Send(<<m>>), m.is # "frame", m.is = "end" => conn' = NoConn
      PROVE  wire' \in Seq(Message) /\ WireInv'
  <2> DEFINE ms == <<m>>
  <2>1. ms \in Seq(Message) /\ Len(ms) = 1 /\ \A i \in DOMAIN ms : i = 1 /\ ms[i] = m
    OBVIOUS
  <2>2. Send(ms)
    BY <1>1
  <2> HIDE DEF ms
  <2> QED
    BY <1>1, <2>1, <2>2, SendTypes
<1>2. ASSUME UNCHANGED wire
      PROVE  wire' \in Seq(Message) /\ (conn.at # "none" => WireInv')
  BY <1>0, <1>2 DEF TypeInv, WireInv, IsFrame, NoConn
<1>3. wire' \in Seq(Message) /\ WireInv'
  <2>1. CASE Serve
    BY <1>0, <1>1, <1>2, <2>1, MessageTypes DEF Serve
  <2>2. CASE CheckOldest
    BY <1>0, <1>1, <2>2, MessageTypes DEF CheckOldest
  <2>3. CASE ReadEntries
    <3>1. \A i \in DOMAIN Batch : Batch[i].is = "frame" /\ Batch[i].id > 0
      BY <2>3, BatchTypes, MessageTypes
    <3> QED
      BY <2>3, <3>1, BatchTypes, SendTypes
  <2>4. CASE ReadNothing
    BY <1>0, <1>2, <2>4 DEF ReadNothing
  <2>5. CASE ReadStatus
    BY <1>0, <1>1, <1>2, <2>5, MessageTypes DEF ReadStatus
  <2>6. CASE GatewayFails
    BY <1>0, <1>1, <2>6, MessageTypes DEF GatewayFails
  <2> QED
    BY <2>1, <2>2, <2>3, <2>4, <2>5, <2>6 DEF Gateway
<1>4. conn' \in Conn
  <2>1. CASE ReadEntries
    BY <1>0, <2>1, BatchTypes DEF Conn
  <2>2. CASE ~ReadEntries
    BY <1>0, <2>2 DEF Gateway, GatewayFails, Serve, CheckOldest, ReadNothing, ReadStatus, Conn, NoConn
  <2> QED
    BY <2>1, <2>2
<1>5. /\ UNCHANGED <<output, view, overrun, drops>>
      /\ UNCHANGED faults \/ Fault
  BY DEF Gateway, GatewayFails, Serve, CheckOldest, ReadEntries, ReadNothing, ReadStatus, bounds
<1>6. faults' \in 0 .. MaxFaults
  BY <1>5, BoundsAssumption DEF Fault, TypeInv, TypeOK
<1> QED
  BY <1>0, <1>3, <1>4, <1>5, <1>6 DEF TypeInv, TypeOK, output, appends, view

(* The actions of the page, its socket and the network but for what the    *)
(* client receives.                                                        *)
BrowserStep == Open \/ Poll \/ Reload \/ Connect \/ ConnectFails \/ Break

LEMMA BrowserTypes == TypeInv /\ BrowserStep => TypeInv'
<1> SUFFICES ASSUME TypeInv, BrowserStep PROVE TypeInv'
  OBVIOUS
<1>1. /\ client \in Socket /\ screen \in Seq(Nat \ {0}) /\ conn \in Conn /\ wire \in Seq(Message)
      /\ client.is # "open" => conn = NoConn /\ wire = <<>>
  BY DEF TypeInv, TypeOK
<1>2. client' \in Socket
  <2>1. client.attempts + 1 \in Nat /\ client.last \in Nat
    BY <1>1 DEF Socket
  <2>2. Attempt \in Socket
    BY <1>1, <2>1 DEF Attempt, Socket
  <2>3. [is |-> "closed", last |-> 0, attempts |-> 0] \in Socket
    BY DEF Socket
  <2>4. [client EXCEPT !.is = "stopped"] \in Socket
    BY <1>1 DEF Socket
  <2>5. [client EXCEPT !.is = "open", !.attempts = 0] \in Socket
    BY <1>1 DEF Socket
  <2>6. \/ client' = client \/ client' = Attempt
        \/ client' = [is |-> "closed", last |-> 0, attempts |-> 0]
        \/ client' = [client EXCEPT !.is = "stopped"]
        \/ client' = [client EXCEPT !.is = "open", !.attempts = 0]
    BY DEF BrowserStep, Open, Poll, Reload, Connect, ConnectFails, Break, HangUp
  <2> QED
    BY <1>1, <2>2, <2>3, <2>4, <2>5, <2>6
<1>3. conn' \in Conn /\ wire' \in Seq(Message) /\ screen' \in Seq(Nat \ {0})
  <2>1. NoConn \in Conn /\ <<>> \in Seq(Message) /\ <<>> \in Seq(Nat \ {0})
    BY DEF NoConn, Conn
  <2>2. [at |-> "serve", cursor |-> client.last] \in Conn
    BY <1>1 DEF Conn, Socket
  <2>3. /\ conn' = conn \/ conn' = NoConn \/ conn' = [at |-> "serve", cursor |-> client.last]
        /\ wire' = wire \/ wire' = <<>>
        /\ screen' = screen \/ screen' = <<>>
    BY DEF BrowserStep, Open, Poll, Reload, Connect, ConnectFails, Break, HangUp
  <2> QED
    BY <1>1, <2>1, <2>2, <2>3
<1>4. client'.is # "open" => conn' = NoConn /\ wire' = <<>>
  BY <1>1 DEF BrowserStep, Open, Poll, Reload, Connect, ConnectFails, Break, HangUp, Attempt, Socket
<1>5. wire' = <<>> \/ UNCHANGED <<wire, conn>>
  BY <1>1 DEF BrowserStep, Open, Poll, Reload, Connect, ConnectFails, Break, HangUp
<1>6. WireInv'
  BY <1>5 DEF TypeInv, WireInv, IsFrame
<1>7. page' \in {"opening", "live", "history", "watched"}
  BY DEF TypeInv, TypeOK, BrowserStep, Open, Poll, Reload, Connect, ConnectFails, Break
<1>8. drops' \in 0 .. MaxDrops
  <2>1. UNCHANGED drops \/ Drop
    BY DEF BrowserStep, bounds, Open, Poll, Reload, Connect, ConnectFails, Break
  <2> QED
    BY <2>1, BoundsAssumption DEF Drop, TypeInv, TypeOK
<1>9. UNCHANGED <<output, overrun, faults>>
  BY DEF BrowserStep, bounds, Open, Poll, Reload, Connect, ConnectFails, Break
<1> QED
  BY <1>2, <1>3, <1>4, <1>6, <1>7, <1>8, <1>9 DEF TypeInv, TypeOK, output, appends

LEMMA ReceiveTypes ==
  ASSUME TypeInv, Receive
  PROVE  /\ TypeInv'
         /\ wire \in Seq(Message) /\ wire # <<>> /\ Len(wire') = Len(wire) - 1
         /\ \A i \in DOMAIN wire' : wire'[i] = wire[i + 1] /\ i + 1 \in DOMAIN wire
<1>1. /\ client \in Socket /\ screen \in Seq(Nat \ {0}) /\ wire \in Seq(Message) /\ wire # <<>>
      /\ wire' = Tail(wire) /\ Head(wire) = wire[1] /\ wire[1] \in Message /\ client.is = "open"
  BY DEF TypeInv, TypeOK, Receive
<1>2. /\ wire' \in Seq(Message) /\ Len(wire') = Len(wire) - 1
      /\ \A i \in DOMAIN wire' : wire'[i] = wire[i + 1] /\ i + 1 \in DOMAIN wire
  BY <1>1
<1>3. WireInv'
  BY <1>1, <1>2 DEF TypeInv, WireInv, IsFrame, Receive
<1>4. client' \in Socket /\ screen' \in Seq(Nat \ {0})
  <2>1. ASSUME wire[1].is = "frame"
        PROVE  [client EXCEPT !.last = wire[1].id] \in Socket /\ Append(screen, wire[1].id) \in Seq(Nat \ {0})
    <3>1. wire[1].id \in Nat \ {0}
      BY <1>1, <2>1 DEF TypeInv, WireInv, IsFrame, Message
    <3> QED
      BY <1>1, <3>1 DEF Socket
  <2>2. [client EXCEPT !.is = "stopped"] \in Socket /\ <<>> \in Seq(Nat \ {0})
    <3>1. [client EXCEPT !.is = "stopped"] \in Socket
      BY <1>1 DEF Socket
    <3> QED
      BY <3>1
  <2>3. \/ /\ wire[1].is = "frame"
           /\ client' = [client EXCEPT !.last = wire[1].id] /\ screen' = Append(screen, wire[1].id)
        \/ client' = client /\ (screen' = screen \/ screen' = <<>>)
        \/ client' = [client EXCEPT !.is = "stopped"] /\ screen' = screen
    BY <1>1 DEF Receive
  <2> QED
    BY <1>1, <2>1, <2>2, <2>3
<1>5. client'.is # "open" => conn' = NoConn /\ wire' = <<>>
  <2> SUFFICES ASSUME client'.is # "open" PROVE conn' = NoConn /\ wire' = <<>>
    OBVIOUS
  <2>1. wire[1].is = "end"
    BY <1>1 DEF Receive, Socket
  <2>2. 1 \in DOMAIN wire
    BY <1>1
  <2>3. Len(wire) = 1 /\ conn = NoConn
    BY <2>1, <2>2 DEF TypeInv, WireInv
  <2> QED
    BY <1>1, <1>2, <2>3 DEF Receive
<1>6. UNCHANGED <<output, page, conn, overrun, bounds>>
  BY DEF Receive
<1> QED
  BY <1>1, <1>2, <1>3, <1>4, <1>5, <1>6 DEF TypeInv, TypeOK, output, appends, bounds

LEMMA StepsBy ==
  Next => RunnerStep \/ Gateway \/ GatewayFails \/ BrowserStep \/ Receive
BY DEF Next, Runner, Trouble, RunnerStep, BrowserStep

LEMMA InitTypes == Init => TypeInv
<1> SUFFICES ASSUME Init PROVE TypeInv
  OBVIOUS
<1>1. client \in Socket /\ conn \in Conn /\ conn = NoConn
  BY DEF Init, Socket, Conn, NoConn
<1>2. row \in [over : BOOLEAN, lastId : Nat, by : {"nobody", "runner", "other"}]
  BY DEF Init
<1>3. /\ log \in Seq(1 .. MaxChunks) /\ first \in 1 .. Len(log) + 1 /\ screen \in Seq(Nat \ {0})
      /\ wire \in Seq(Message) /\ latest \in 0 .. Len(log) /\ unheard \subseteq 1 .. Len(log)
  BY DEF Init
<1>4. wire = <<>> /\ WireInv
  BY DEF Init, WireInv, IsFrame
<1>5. /\ produced \in 0 .. MaxChunks /\ settled \in 0 .. produced
      /\ drops \in 0 .. MaxDrops /\ faults \in 0 .. MaxFaults
  BY BoundsAssumption DEF Init
<1>6. /\ runner \in {"runs", "exited", "concluded", "closing", "done", "dead"}
      /\ page \in {"opening", "live", "history", "watched"}
      /\ saved \in BOOLEAN /\ overrun \in BOOLEAN
  BY DEF Init
<1> QED
  BY <1>1, <1>2, <1>3, <1>4, <1>5, <1>6 DEF TypeInv, TypeOK

LEMMA NextTypes == TypeInv /\ [Next]_vars => TypeInv'
<1> SUFFICES ASSUME TypeInv, [Next]_vars PROVE TypeInv'
  OBVIOUS
<1>1. CASE UNCHANGED vars
  BY <1>1 DEF TypeInv, TypeOK, WireInv, IsFrame, vars, output, appends, view, bounds
<1>2. CASE Next
  BY <1>2, StepsBy, RunnerTypes, GatewayTypes, BrowserTypes, ReceiveTypes
<1> QED
  BY <1>1, <1>2

(* Every variable keeps its type: in particular nothing is under way to a  *)
(* client that is not connected (useTerminalStream.ts, onclose).           *)
THEOREM TypeCorrect == Spec => []TypeOK
<1>1. TypeInv => TypeOK
  BY DEF TypeInv
<1> QED
  BY <1>1, InitTypes, NextTypes, PTL DEF Spec

-----------------------------------------------------------------------------
(* Whatever is in the stream after the last entry the publisher was told   *)
(* of, it was not told of.                                                 *)
Told ==
  /\ latest \in (0 .. Len(log)) \ unheard
  /\ latest + 1 .. Len(log) \subseteq unheard

(* The runner writes the last id when all its output is settled, and comes *)
(* to the end only with its transcript saved or a failure behind it.       *)
LastInv ==
  row.by = "runner" =>
    row.over /\ row.lastId = latest /\ settled = produced /\ runner \notin {"runs", "exited"}

HistoryInv ==
  /\ log # <<>> /\ first > Len(log) => runner = "done"
  /\ runner \in {"closing", "done"} => saved \/ faults > 0

(* An append that is answered is the last one told of; one that is not     *)
(* adds only entries that nobody was told of.                              *)
LEMMA PublishTells ==
  ASSUME TypeInv, Told, NEW copies \in 0 .. 2, NEW answered \in BOOLEAN, answered => copies > 0,
         Publish(copies, answered)
  PROVE  Told'
<1>1. /\ Len(log) \in Nat /\ latest \in 0 .. Len(log) /\ unheard \subseteq 1 .. Len(log)
  BY DEF TypeInv, TypeOK
<1>2. Len(log') = Len(log) + copies
  <2>1. log \in Seq(1 .. MaxChunks) /\ settled + 1 \in 1 .. MaxChunks
    BY BoundsAssumption DEF TypeInv, TypeOK, Publish
  <2> DEFINE more == [i \in 1 .. copies |-> settled + 1]
  <2>2. more \in Seq(1 .. MaxChunks) /\ Len(more) = copies
    BY <2>1
  <2>3. log' = log \o more
    BY DEF Publish
  <2> HIDE DEF more
  <2> QED
    BY <2>1, <2>2, <2>3
<1>3. CASE answered
  <2>1. latest' = Len(log') /\ unheard' = unheard
    BY <1>3 DEF Publish
  <2> QED
    BY <1>1, <1>2, <1>3, <2>1 DEF Told
<1>4. CASE ~answered
  <2>1. latest' = latest /\ unheard' = unheard \cup (Len(log) + 1 .. Len(log'))
    BY <1>4 DEF Publish
  <2> QED
    BY <1>1, <1>2, <2>1 DEF Told
<1> QED
  BY <1>3, <1>4

LEMMA RunnerTells == TypeInv /\ Told /\ RunnerStep => Told'
<1> SUFFICES ASSUME TypeInv, Told, RunnerStep PROVE Told'
  OBVIOUS
<1>1. CASE Append1 \/ AppendFails \/ AppendRepeats
  BY <1>1, Appends, PublishTells
<1>2. CASE UNCHANGED <<log, latest, unheard>>
  BY <1>2 DEF Told
<1> QED
  BY <1>1, <1>2 DEF RunnerStep, appends, Output, Exit, Finish, Conclude, Save, Throw, Expire,
                    StreamExpires, RunnerDies, EndElsewhere

LEMMA RunnerKeeps == TypeInv /\ LastInv /\ HistoryInv /\ RunnerStep => LastInv' /\ HistoryInv'
<1> SUFFICES ASSUME TypeInv, LastInv, HistoryInv, RunnerStep PROVE LastInv' /\ HistoryInv'
  OBVIOUS
<1>1. /\ log \in Seq(1 .. MaxChunks) /\ Len(log) \in Nat /\ first \in 1 .. Len(log) + 1
      /\ produced \in Nat /\ settled \in Nat /\ settled <= produced /\ faults \in Nat
      /\ row \in [over : BOOLEAN, lastId : Nat, by : {"nobody", "runner", "other"}]
  BY BoundsAssumption DEF TypeInv, TypeOK
<1> USE DEF LastInv, HistoryInv, appends
<1>2. ASSUME NEW copies \in 0 .. 2, NEW answered \in BOOLEAN, Publish(copies, answered),
             UNCHANGED faults \/ Fault
      PROVE  LastInv' /\ HistoryInv'
  <2>1. log' = log \o [i \in 1 .. copies |-> settled + 1]
    BY <1>2 DEF Publish
  <2>2. Len(log') = Len(log) + copies /\ (copies = 0 => log' = log)
    BY <1>1, <2>1
  <2>3. first' = first \/ (copies > 0 /\ first' \in first .. Len(log') + 1 - Cap)
    BY <1>2 DEF Publish
  <2>4. copies > 0 => first' <= Len(log')
    BY <1>1, <2>2, <2>3, CapAssumption
  <2>5. HistoryInv'
    BY <1>1, <1>2, <2>2, <2>3, <2>4 DEF Publish, Fault
  <2>6. LastInv'
    BY <1>1, <1>2 DEF Publish
  <2> QED
    BY <2>5, <2>6
<1>3. CASE Output
  BY <1>1, <1>3 DEF Output, bounds
<1>4. CASE Exit
  BY <1>1, <1>4 DEF Exit, bounds
<1>5. CASE Finish
  <2>1. settled = produced /\ runner' = "concluded" /\ UNCHANGED <<produced, appends, first, saved, bounds>>
    BY <1>5 DEF Finish, Conclude
  <2>2. row' = row \/ row' = [over |-> TRUE, lastId |-> latest, by |-> "runner"]
    BY <1>5 DEF Finish, Conclude
  <2>3. runner = "exited"
    BY <1>5 DEF Finish
  <2> QED
    BY <1>1, <2>1, <2>2, <2>3 DEF bounds
<1>6. CASE Save
  BY <1>1, <1>6 DEF Save, bounds
<1>7. CASE Throw
  BY <1>1, <1>7 DEF Throw, Fault
<1>8. CASE Expire
  BY <1>1, <1>8 DEF Expire, bounds
<1>9. CASE StreamExpires
  BY <1>1, <1>9 DEF StreamExpires, bounds
<1>10. CASE RunnerDies
  <2>1. first > Len(log) => log = <<>>
    BY <1>1, <1>10 DEF RunnerDies
  <2> QED
    BY <1>1, <1>10, <2>1 DEF RunnerDies, Fault
<1>11. CASE EndElsewhere
  BY <1>1, <1>11 DEF EndElsewhere, Fault
<1>12. CASE Append1 \/ AppendFails \/ AppendRepeats
  BY <1>2, <1>12, Appends
<1> QED
  BY <1>3, <1>4, <1>5, <1>6, <1>7, <1>8, <1>9, <1>10, <1>11, <1>12 DEF RunnerStep

(* What the others do leaves the runner, the row and the stream alone.     *)
LEMMA OthersLeaveOutput ==
  TypeInv /\ (Gateway \/ GatewayFails \/ BrowserStep \/ Receive \/ UNCHANGED vars)
    => UNCHANGED output /\ (faults' = faults \/ faults' = faults + 1)
BY DEF Gateway, GatewayFails, BrowserStep, Serve, CheckOldest, ReadEntries, ReadNothing, ReadStatus,
       Open, Poll, Reload, Connect, ConnectFails, Break, Receive, vars, bounds, Fault

LEMMA OthersKeep ==
  /\ TypeInv /\ Told /\ LastInv /\ HistoryInv
  /\ Gateway \/ GatewayFails \/ BrowserStep \/ Receive \/ UNCHANGED vars
  => Told' /\ LastInv' /\ HistoryInv'
<1> SUFFICES ASSUME TypeInv, Told, LastInv, HistoryInv, UNCHANGED output, faults' = faults \/ faults' = faults + 1
             PROVE  Told' /\ LastInv' /\ HistoryInv'
  BY OthersLeaveOutput
<1>1. faults \in Nat
  BY BoundsAssumption DEF TypeInv, TypeOK
<1> QED
  BY <1>1 DEF Told, LastInv, HistoryInv, output, appends

(* Types together with what the runner keeps are inductive.                *)
OutputInv == TypeInv /\ Told /\ LastInv /\ HistoryInv

LEMMA OutputHolds == Spec => []OutputInv
<1>1. Init => OutputInv
  <2>1. Init => TypeInv
    BY InitTypes
  <2> QED
    BY <2>1 DEF OutputInv, LastInv, Told, HistoryInv, Init
<1>2. OutputInv /\ [Next]_vars => OutputInv'
  BY NextTypes, StepsBy, RunnerTells, RunnerKeeps, OthersKeep DEF OutputInv
<1> QED
  BY <1>1, <1>2, PTL DEF Spec

(* The last id that the runner writes to the row stays the last one it was *)
(* told of: the flush before the transition waits for every append         *)
(* (execute.ts 246), and what comes after that id in the stream are        *)
(* entries whose answer was lost (publisher.ts 51).                        *)
THEOREM LastIdStays == Spec => []LastIdIsLast
<1>1. OutputInv => LastIdIsLast
  BY DEF OutputInv, LastInv, Told, LastIdIsLast
<1> QED
  BY <1>1, OutputHolds, PTL

(* The stream expires only once its transcript is stored, or after a       *)
(* failure (execute.ts 288).                                               *)
THEOREM HistoryIsKept == Spec => []HistoryOutlivesTheStream
<1>1. OutputInv => HistoryOutlivesTheStream
  <2> SUFFICES ASSUME OutputInv, log # <<>>, Stream = {} PROVE saved \/ faults > 0
    BY DEF HistoryOutlivesTheStream
  <2>1. Len(log) \in Nat /\ first \in Nat
    BY DEF OutputInv, TypeInv, TypeOK
  <2>2. first > Len(log)
    BY <2>1 DEF Stream
  <2> QED
    BY <2>2 DEF OutputInv, HistoryInv
<1> QED
  BY <1>1, OutputHolds, PTL

-----------------------------------------------------------------------------
(* What is under way and what is shown.                                    *)
Reading  == conn.at \in {"read", "status"}
NoFrames == \A i \in DOMAIN wire : ~IsFrame(i)
Coming   == {wire[i].id : i \in {k \in DOMAIN wire : IsFrame(k)}}

(* A pump that has not read yet starts where the client is; each frame is  *)
(* past what the client saw and up to the cursor, in order.  A replay from *)
(* the start begins past it as well, because it was trimmed that far.      *)
OrderInv ==
  /\ conn.at \in {"serve", "range"} => wire = <<>> /\ conn.cursor = client.last
  /\ InOrderOnce
  /\ \A i \in DOMAIN screen : screen[i] <= client.last
  /\ client.last <= Len(log) /\ conn.cursor <= Len(log)
  /\ \A i \in DOMAIN wire :
       IsFrame(i) => client.last < wire[i].id /\ wire[i].id <= Len(log) /\ (Reading => wire[i].id <= conn.cursor)
  /\ \A i, j \in DOMAIN wire : i < j /\ IsFrame(i) /\ IsFrame(j) => wire[i].id < wire[j].id
  /\ Reading => client.last <= conn.cursor \/ (conn.cursor = 0 /\ client.last < first /\ NoFrames)

(* A ready message comes first; one with a gap says that Redis has nothing *)
(* any more of what the client saw.                                        *)
ReadyInv ==
  \A i \in DOMAIN wire : wire[i].is = "ready" => i = 1 /\ (wire[i].gap => client.last < first)

(* Each entry up to where the client is, is shown or gone; each one up to  *)
(* a frame or the cursor is on its way or gone.                            *)
SkipInv ==
  /\ \A id \in 1 .. client.last : id \in Shown \/ id < first
  /\ \A i \in DOMAIN wire : IsFrame(i) => \A id \in client.last + 1 .. wire[i].id : id \in Coming \/ id < first
  /\ Reading => \A id \in client.last + 1 .. conn.cursor : id \in Coming \/ id < first

(* Each frame continues the one before it, or a cleared terminal; and the  *)
(* pump goes on where the last one ended, as long as no trim overtook it.  *)
Fresh     == NoFrames /\ (screen = <<>> \/ \E i \in DOMAIN wire : wire[i].is = "ready" /\ wire[i].gap)
Continues ==
  /\ first <= conn.cursor + 1
  /\ conn.cursor = IF NoFrames THEN client.last ELSE wire[Len(wire)].id
  /\ NoFrames \/ IsFrame(Len(wire))

HoleInv ==
  /\ HolesAreAnnounced
  /\ screen # <<>> => screen[Len(screen)] = client.last
  /\ \A i \in DOMAIN wire : IsFrame(i) =>
       \/ overrun
       \/ i = 1 /\ (screen = <<>> \/ wire[i].id = client.last + 1)
       \/ i > 1 /\ IsFrame(i - 1) /\ wire[i].id = wire[i - 1].id + 1
       \/ /\ i = 2 /\ wire[1].is = "ready"
          /\ screen = <<>> \/ wire[1].gap \/ wire[i].id = client.last + 1
  /\ Reading => overrun \/ Fresh \/ Continues \/ (runner = "done" /\ first > Len(log))

ViewInv == OrderInv /\ ReadyInv /\ SkipInv /\ HoleInv

(* What the browser does empties the wire, or has nothing to do with it.   *)
LEMMA BrowserResets ==
  ASSUME TypeInv, BrowserStep
  PROVE  /\ UNCHANGED <<output, overrun>>
         /\ \/ UNCHANGED <<screen, conn, wire>> /\ client'.last = client.last
            \/ /\ wire' = <<>> /\ conn' = NoConn
               /\ \/ screen' = screen /\ client'.last = client.last
                  \/ screen' = <<>> /\ client'.last = 0
            \/ /\ wire' = <<>> /\ conn' = [at |-> "serve", cursor |-> client.last]
               /\ screen' = screen /\ client'.last = client.last
<1>1. client \in Socket /\ (client.is # "open" => conn = NoConn /\ wire = <<>>)
  BY DEF TypeInv, TypeOK
<1>2. CASE Open
  BY <1>2 DEF Open
<1>3. CASE Poll
  BY <1>1, <1>3 DEF Poll, HangUp, Socket
<1>4. CASE Reload
  BY <1>4 DEF Reload
<1>5. CASE Connect
  BY <1>1, <1>5 DEF Connect, Socket
<1>6. CASE ConnectFails
  BY <1>1, <1>6 DEF ConnectFails, Attempt, Socket
<1>7. CASE Break
  BY <1>1, <1>7 DEF Break, Attempt, Socket
<1> QED
  BY <1>2, <1>3, <1>4, <1>5, <1>6, <1>7 DEF BrowserStep

LEMMA BrowserKeepsView == TypeInv /\ ViewInv /\ BrowserStep => ViewInv'
<1> SUFFICES ASSUME TypeInv, ViewInv, BrowserStep PROVE ViewInv'
  OBVIOUS
<1>1. UNCHANGED <<output, overrun>> /\ Len(log) \in Nat /\ client.last \in Nat /\ first \in Nat /\ screen \in Seq(Nat \ {0})
  BY BrowserResets DEF TypeInv, TypeOK, Socket
<1>2. CASE UNCHANGED <<screen, conn, wire>> /\ client'.last = client.last
  BY <1>1, <1>2 DEF ViewInv, OrderInv, ReadyInv, SkipInv, HoleInv, InOrderOnce, HolesAreAnnounced, Shown,
       Reading, NoFrames, Coming, Fresh, Continues, IsFrame, output, appends
<1>3. CASE wire' = <<>> /\ ~Reading' /\ conn'.cursor \in {0, client'.last}
           /\ (conn'.at \in {"serve", "range"} => conn'.cursor = client'.last)
           /\ ((screen' = screen /\ client'.last = client.last) \/ (screen' = <<>> /\ client'.last = 0))
  <2>1. OrderInv'
    BY <1>1, <1>3 DEF ViewInv, OrderInv, InOrderOnce, IsFrame, output, appends
  <2>2. ReadyInv' /\ SkipInv' /\ HoleInv'
    BY <1>1, <1>3 DEF ViewInv, ReadyInv, SkipInv, HoleInv, HolesAreAnnounced, Shown, IsFrame, output, appends
  <2> QED
    BY <2>1, <2>2 DEF ViewInv
<1>4. CASE /\ wire' = <<>> /\ conn' = NoConn
           /\ ((screen' = screen /\ client'.last = client.last) \/ (screen' = <<>> /\ client'.last = 0))
  <2>1. ~Reading' /\ conn'.cursor = 0 /\ conn'.at = "none"
    BY <1>4 DEF NoConn, Reading
  <2> QED
    BY <1>3, <1>4, <2>1
<1>5. CASE /\ wire' = <<>> /\ conn' = [at |-> "serve", cursor |-> client.last]
           /\ screen' = screen /\ client'.last = client.last
  <2>1. ~Reading' /\ conn'.cursor = client'.last
    BY <1>5 DEF Reading
  <2> QED
    BY <1>3, <1>5, <2>1
<1> QED
  BY <1>2, <1>4, <1>5, BrowserResets

(* A trim that overtakes a reader is noted; after the end nothing comes.   *)
LEMMA RunnerOverruns ==
  ASSUME TypeInv, RunnerStep
  PROVE  /\ overrun => overrun'
         /\ Reading /\ first' > conn.cursor + 1 => overrun' \/ first' = first \/ (runner' = "done" /\ first' > Len(log'))
         /\ runner = "done" /\ first > Len(log) => runner' = "done" /\ first' > Len(log')
<1>1. /\ Len(log) \in Nat /\ Len(log') \in Nat /\ first \in Nat /\ first' \in Nat /\ overrun \in BOOLEAN
  BY RunnerGrows DEF TypeInv, TypeOK
<1>2. ASSUME NEW copies \in 0 .. 2, NEW answered \in BOOLEAN, Publish(copies, answered)
      PROVE  runner # "done" /\ overrun' = (overrun \/ (Reading /\ first' > conn.cursor + 1))
  BY <1>2 DEF Publish, Lagging, Reading
<1>3. CASE StreamExpires
  <2>1. first' = Len(log') + 1 /\ runner = "done" /\ runner' = "done" /\ overrun' = overrun
    BY <1>3 DEF StreamExpires, appends
  <2>2. first' > Len(log')
    BY <1>1, <2>1
  <2> QED
    BY <2>1, <2>2
<1>4. CASE UNCHANGED <<log, first, overrun>> /\ (runner = "done" => runner' = "done")
  BY <1>1, <1>4
<1>5. CASE Append1 \/ AppendFails \/ AppendRepeats
  <2>1. runner # "done" /\ overrun' = (overrun \/ (Reading /\ first' > conn.cursor + 1))
    BY <1>2, <1>5, Appends
  <2> QED
    BY <1>1, <2>1
<1> QED
  BY <1>3, <1>4, <1>5
  DEF appends, RunnerStep, Output, Exit, Finish, Conclude, Save, Throw,
      Expire, RunnerDies, EndElsewhere

LEMMA RunnerKeepsView == TypeInv /\ ViewInv /\ RunnerStep => ViewInv'
<1> SUFFICES ASSUME TypeInv, ViewInv, RunnerStep PROVE ViewInv'
  OBVIOUS
<1>1. /\ UNCHANGED <<client, screen, conn, wire>>
      /\ Len(log) <= Len(log') /\ first <= first'
  BY RunnerGrows DEF view
<1>2. /\ Len(log) \in Nat /\ Len(log') \in Nat /\ first \in Nat /\ first' \in Nat
      /\ client \in Socket /\ conn \in Conn /\ wire \in Seq(Message) /\ screen \in Seq(Nat \ {0})
  BY RunnerGrows DEF TypeInv, TypeOK
<1>7. Reading' = Reading /\ NoFrames' = NoFrames /\ Shown' = Shown /\ Coming' = Coming
  BY <1>1 DEF Reading, NoFrames, Shown, Coming, IsFrame
<1>8. client.last \in Nat /\ conn.cursor \in Nat /\ \A i \in DOMAIN wire : wire[i].id \in Nat
  <2>1. client.last \in Nat /\ conn.cursor \in Nat
    BY <1>2 DEF Socket, Conn
  <2>2. \A i \in DOMAIN wire : wire[i] \in Message
    BY <1>2
  <2> QED
    BY <2>1, <2>2 DEF Message
<1>3. OrderInv'
  <2>1. InOrderOnce'
    BY <1>1 DEF ViewInv, OrderInv, InOrderOnce
  <2>2. client'.last <= Len(log') /\ conn'.cursor <= Len(log')
    BY <1>1, <1>2, <1>8 DEF ViewInv, OrderInv
  <2>3. \A i \in DOMAIN wire' : IsFrame(i)' =>
          /\ client'.last < wire'[i].id /\ wire'[i].id <= Len(log')
          /\ Reading' => wire'[i].id <= conn'.cursor
    BY <1>1, <1>2, <1>7, <1>8 DEF ViewInv, OrderInv, IsFrame
  <2>4. Reading' => client'.last <= conn'.cursor \/ (conn'.cursor = 0 /\ client'.last < first' /\ NoFrames')
    BY <1>1, <1>2, <1>7, <1>8 DEF ViewInv, OrderInv
  <2> QED
    BY <1>1, <2>1, <2>2, <2>3, <2>4 DEF ViewInv, OrderInv, IsFrame
<1>4. ReadyInv'
  BY <1>1, <1>2 DEF ViewInv, ReadyInv, Socket
<1>5. SkipInv'
  <2>1. \A id \in Nat : id < first => id < first'
    BY <1>1, <1>2
  <2>2. /\ \A id \in 1 .. client.last : id \in Nat
        /\ \A id \in client.last + 1 .. conn.cursor : id \in Nat
        /\ \A i \in DOMAIN wire : \A id \in client.last + 1 .. wire[i].id : id \in Nat
    BY <1>8
  <2> QED
    BY <1>1, <1>7, <2>1, <2>2 DEF ViewInv, SkipInv, IsFrame
<1>6. HoleInv'
  <2>1. /\ HolesAreAnnounced' /\ (screen' # <<>> => screen'[Len(screen')] = client'.last)
        /\ \A i \in DOMAIN wire' : IsFrame(i)' =>
             \/ overrun'
             \/ i = 1 /\ (screen' = <<>> \/ wire'[i].id = client'.last + 1)
             \/ i > 1 /\ IsFrame(i - 1)' /\ wire'[i].id = wire'[i - 1].id + 1
             \/ /\ i = 2 /\ wire'[1].is = "ready"
                /\ screen' = <<>> \/ wire'[1].gap \/ wire'[i].id = client'.last + 1
    BY <1>1, <1>2, RunnerOverruns DEF ViewInv, HoleInv, HolesAreAnnounced, IsFrame
  <2>2. Reading' => overrun' \/ Fresh' \/ Continues' \/ (runner' = "done" /\ first' > Len(log'))
    <3>1. Fresh => Fresh'
      BY <1>1 DEF Fresh, NoFrames, IsFrame
    <3>2. Continues /\ Reading => overrun' \/ Continues' \/ (runner' = "done" /\ first' > Len(log'))
      <4>1. conn.cursor \in Nat
        BY <1>2 DEF Conn
      <4> QED
        BY <1>1, <1>2, <4>1, RunnerOverruns DEF Continues, NoFrames, IsFrame
    <3> QED
      BY <1>1, <3>1, <3>2, RunnerOverruns DEF ViewInv, HoleInv, Reading
  <2> QED
    BY <2>1, <2>2 DEF HoleInv
<1> QED
  BY <1>3, <1>4, <1>5, <1>6 DEF ViewInv

(* A pump that turns from reading to the row and back changes nothing.     *)
LEMMA TurningKeepsView ==
  ASSUME ViewInv, Reading, Reading', UNCHANGED <<output, view, wire, overrun>>, conn'.cursor = conn.cursor
  PROVE  ViewInv'
<1>1. UNCHANGED <<log, first, runner, client, screen, wire, overrun>>
  BY DEF output, appends, view
<1>2. NoFrames' = NoFrames /\ Coming' = Coming /\ Shown' = Shown /\ Fresh' = Fresh /\ Continues' = Continues
  BY <1>1 DEF NoFrames, Coming, Shown, Fresh, Continues, IsFrame
<1>3. OrderInv'
  BY <1>1, <1>2 DEF ViewInv, OrderInv, InOrderOnce, IsFrame, Reading
<1>4. ReadyInv' /\ SkipInv'
  BY <1>1, <1>2 DEF ViewInv, ReadyInv, SkipInv, IsFrame
<1>5. HoleInv'
  BY <1>1, <1>2 DEF ViewInv, HoleInv, HolesAreAnnounced, IsFrame
<1> QED
  BY <1>3, <1>4, <1>5 DEF ViewInv

(* A pump that starts sends one ready message; it starts where the client  *)
(* is, or anew if the client is new or its entries are gone.               *)
LEMMA StartingKeepsView ==
  ASSUME TypeInv, HistoryInv, ViewInv, Serve \/ CheckOldest
  PROVE  ViewInv'
<1>1. /\ UNCHANGED <<log, first, runner, client, screen, overrun>>
      /\ Len(log) \in Nat /\ first \in Nat \ {0} /\ first <= Len(log) + 1
      /\ client.last \in Nat /\ conn.cursor \in Nat
      /\ conn \in Conn /\ screen \in Seq(Nat \ {0})
  BY DEF Serve, CheckOldest, output, appends, view, TypeInv, TypeOK, Socket, Conn
<1>2. wire = <<>> /\ conn.cursor = client.last
  BY DEF ViewInv, OrderInv, Serve, CheckOldest
<1>3. client.last = 0 => screen = <<>>
  <2>1. screen # <<>> => 1 \in DOMAIN screen /\ screen[1] > 0
    BY <1>1
  <2> QED
    BY <1>1, <2>1 DEF ViewInv, OrderInv
<1>4. CASE UNCHANGED wire
  <2>1. conn' = [conn EXCEPT !.at = "range"]
    BY <1>1, <1>2, <1>4, MessageTypes DEF Serve, CheckOldest, Send
  <2>2. conn'.at = "range" /\ conn'.cursor = conn.cursor
    BY <1>1, <2>1 DEF Conn
  <2> QED
    BY <1>1, <1>2, <1>4, <2>2 DEF ViewInv, OrderInv, ReadyInv, SkipInv, HoleInv, InOrderOnce, HolesAreAnnounced,
         Shown, Reading, IsFrame
<1>5. ASSUME NEW gap \in BOOLEAN, wire' = <<Ready(gap)>>, conn'.at = "read",
             conn'.cursor = IF gap THEN 0 ELSE client.last,
             gap => client.last < first,
             ~gap => screen = <<>> \/ first <= client.last \/ first > Len(log)
      PROVE  ViewInv'
  <2>1. /\ DOMAIN wire' = {1} /\ wire'[1].is = "ready" /\ wire'[1].gap = gap
        /\ NoFrames' /\ Reading' /\ \A i \in DOMAIN wire' : ~IsFrame(i)'
    BY <1>5, MessageTypes DEF NoFrames, IsFrame, Reading
  <2>2. OrderInv'
    <3>1. InOrderOnce'
      BY <1>1 DEF ViewInv, OrderInv, InOrderOnce
    <3> QED
      BY <1>1, <1>5, <2>1, <3>1 DEF ViewInv, OrderInv
  <2>3. ReadyInv'
    BY <1>1, <1>5, <2>1 DEF ReadyInv
  <2>4. SkipInv'
    BY <1>1, <1>5, <2>1 DEF ViewInv, SkipInv, Shown
  <2>5. Fresh' \/ Continues' \/ (runner' = "done" /\ first' > Len(log'))
    <3>1. CASE gap \/ screen = <<>>
      BY <1>1, <2>1, <3>1 DEF Fresh
    <3>2. CASE ~gap /\ first <= client.last
      BY <1>1, <1>5, <2>1, <3>2 DEF Continues
    <3>3. CASE ~gap /\ first > Len(log) /\ screen # <<>>
      <4>1. log # <<>>
        BY <1>1, <3>3, <1>3 DEF ViewInv, OrderInv
      <4> QED
        BY <1>1, <3>3, <4>1 DEF HistoryInv
    <3> QED
      BY <1>5, <3>1, <3>2, <3>3
  <2>6. HoleInv'
    BY <1>1, <2>1, <2>5 DEF ViewInv, HoleInv, HolesAreAnnounced
  <2> QED
    BY <2>2, <2>3, <2>4, <2>6 DEF ViewInv
<1>6. CASE Serve /\ wire' # wire
  <2>1. conn.cursor = 0 /\ conn' = [conn EXCEPT !.at = "read"] /\ wire' = <<Ready(FALSE)>>
    <3>1. conn.cursor = 0 /\ conn' = [conn EXCEPT !.at = "read"] /\ Send(<<Ready(FALSE)>>)
      BY <1>6 DEF Serve
    <3>2. wire' = <<>> \o <<Ready(FALSE)>>
      BY <1>2, <3>1 DEF Send
    <3> QED
      BY <3>1, <3>2
  <2>2. conn'.at = "read" /\ conn'.cursor = client.last
    BY <1>1, <1>2, <2>1 DEF Conn
  <2> QED
    BY <1>2, <1>3, <1>5, <2>1, <2>2
<1>7. CASE CheckOldest
  <2> DEFINE gap == Stream # {} /\ first > conn.cursor
  <2>1. gap \in BOOLEAN /\ wire' = <<Ready(gap)>> /\ conn' = [at |-> "read", cursor |-> IF gap THEN 0 ELSE conn.cursor]
    BY <1>2, <1>7 DEF CheckOldest, Send
  <2>2. first <= Len(log) => first \in Stream
    BY <1>1 DEF Stream
  <2>3. conn'.at = "read" /\ conn'.cursor = IF gap THEN 0 ELSE client.last
    BY <1>2, <2>1
  <2>4. /\ gap => client.last < first
        /\ ~gap => first <= client.last \/ first > Len(log)
    BY <1>1, <1>2, <2>2
  <2> HIDE DEF gap
  <2> QED
    BY <1>5, <2>1, <2>3, <2>4
<1> QED
  BY <1>4, <1>6, <1>7

(* A pump that ends sends one last message.                                *)
LEMMA EndingKeepsView ==
  ASSUME TypeInv, ViewInv, conn.at # "none", conn' = NoConn, Send(<<End>>), UNCHANGED <<output, view, overrun>>
  PROVE  ViewInv'
<1>1. /\ UNCHANGED <<log, first, runner, client, screen, overrun>>
      /\ wire \in Seq(Message) /\ ~Reading' /\ conn'.at = "none" /\ conn'.cursor = 0 /\ Len(log) \in Nat
  BY DEF output, appends, view, NoConn, Reading, TypeInv, TypeOK
<1>2. wire' = wire \o <<End>> /\ End \in Message /\ End.is = "end"
  BY MessageTypes DEF Send
<1>3. /\ wire' \in Seq(Message) /\ Len(wire') = Len(wire) + 1
      /\ \A i \in DOMAIN wire : i \in DOMAIN wire' /\ wire'[i] = wire[i]
      /\ \A i \in DOMAIN wire' : i \in DOMAIN wire \/ wire'[i].is = "end"
  BY <1>1, <1>2
<1>4. \A i \in DOMAIN wire' : IsFrame(i)' => i \in DOMAIN wire /\ IsFrame(i) /\ wire'[i] = wire[i]
  BY <1>3 DEF IsFrame
<1>5. Coming' = Coming /\ Shown' = Shown
  BY <1>1, <1>3, <1>4 DEF Coming, Shown, IsFrame
<1>6. OrderInv'
  <2>1. InOrderOnce'
    BY <1>1 DEF ViewInv, OrderInv, InOrderOnce
  <2> QED
    BY <1>1, <1>4, <2>1 DEF ViewInv, OrderInv
<1>7. ReadyInv'
  BY <1>1, <1>3 DEF ViewInv, ReadyInv
<1>8. SkipInv'
  BY <1>1, <1>4, <1>5 DEF ViewInv, SkipInv
<1>9. HoleInv'
  <2>1. \A i \in DOMAIN wire : i > 1 => i - 1 \in DOMAIN wire
    BY <1>1
  <2>2. \A i \in DOMAIN wire' : IsFrame(i)' =>
          \/ overrun'
          \/ i = 1 /\ (screen' = <<>> \/ wire'[i].id = client'.last + 1)
          \/ i > 1 /\ IsFrame(i - 1)' /\ wire'[i].id = wire'[i - 1].id + 1
          \/ /\ i = 2 /\ wire'[1].is = "ready"
             /\ screen' = <<>> \/ wire'[1].gap \/ wire'[i].id = client'.last + 1
    <3> SUFFICES ASSUME NEW i \in DOMAIN wire', IsFrame(i)'
                 PROVE  \/ overrun'
                        \/ i = 1 /\ (screen' = <<>> \/ wire'[i].id = client'.last + 1)
                        \/ i > 1 /\ IsFrame(i - 1)' /\ wire'[i].id = wire'[i - 1].id + 1
                        \/ /\ i = 2 /\ wire'[1].is = "ready"
                           /\ screen' = <<>> \/ wire'[1].gap \/ wire'[i].id = client'.last + 1
      OBVIOUS
    <3>1. i \in DOMAIN wire /\ IsFrame(i) /\ wire'[i] = wire[i]
      BY <1>4
    <3>2. i > 1 => i - 1 \in DOMAIN wire /\ wire'[i - 1] = wire[i - 1]
      BY <1>3, <2>1, <3>1
    <3>3. i = 2 => wire'[1] = wire[1]
      BY <3>2
    <3> QED
      BY <1>1, <3>1, <3>2, <3>3 DEF ViewInv, HoleInv, IsFrame
  <2> QED
    BY <1>1, <2>2 DEF ViewInv, HoleInv, HolesAreAnnounced
<1> QED
  BY <1>6, <1>7, <1>8, <1>9 DEF ViewInv

(* What XREAD returns goes on where the cursor was, or from the start.     *)
LEMMA ReadingKeepsView ==
  ASSUME TypeInv, ViewInv, ReadEntries
  PROVE  ViewInv'
<1>1. /\ UNCHANGED <<log, first, runner, client, screen, overrun>>
      /\ wire \in Seq(Message) /\ Reading /\ Reading' /\ conn'.cursor = Len(log) /\ conn'.at = "read"
      /\ Len(log) \in Nat /\ first \in Nat /\ first <= Len(log) + 1 /\ client.last \in Nat /\ conn.cursor \in Nat
      /\ conn.at # "none"
  BY BatchTypes DEF ReadEntries, output, appends, view, Reading, TypeInv, TypeOK, Socket, Conn
<1> DEFINE n == Len(wire)
           k == Len(log) + 1 - Oldest
<1>2. /\ n \in Nat /\ k \in Nat \ {0} /\ Oldest \in Nat \ {0} /\ Oldest > conn.cursor /\ Oldest >= first
      /\ Oldest <= Len(log)
      /\ (Oldest = first \/ Oldest = conn.cursor + 1)
  BY <1>1, BatchTypes DEF Oldest
<1>3. /\ wire' \in Seq(Message) /\ Len(wire') = n + k
      /\ \A i \in 1 .. n : wire'[i] = wire[i]
      /\ \A i \in 1 .. k : wire'[n + i] = Frame(Oldest + i - 1)
  <2>1. Send(Batch) /\ Batch \in Seq(Message) /\ Len(Batch) = k /\ DOMAIN Batch = 1 .. k
    BY BatchTypes DEF Batch
  <2>2. \A i \in 1 .. k : Batch[i] = Frame(Oldest + i - 1)
    BY <2>1, BatchTypes
  <2>3. \A i \in DOMAIN Batch : Batch[i].is = "frame" /\ Batch[i].id > 0
    BY BatchTypes, MessageTypes
  <2>4. /\ wire' \in Seq(Message) /\ Len(wire') = Len(wire) + Len(Batch)
        /\ \A i \in 1 .. Len(wire) : wire'[i] = wire[i]
        /\ \A i \in 1 .. Len(Batch) : wire'[Len(wire) + i] = Batch[i]
    BY <1>1, <2>1, <2>3, SendTypes
  <2> HIDE DEF n, k
  <2> QED
    BY <2>1, <2>2, <2>4 DEF n
<1>4. DOMAIN wire = 1 .. n /\ DOMAIN wire' = 1 .. n + k
  BY <1>1, <1>3
<1> HIDE DEF n, k
<1>5. \A i \in 1 .. n : IsFrame(i)' = IsFrame(i) /\ wire'[i] = wire[i]
  BY <1>3 DEF IsFrame
<1>6. \A i \in n + 1 .. n + k : IsFrame(i)' /\ wire'[i].id = Oldest + (i - n) - 1 /\ wire'[i].id \in Nat
  <2> SUFFICES ASSUME NEW i \in n + 1 .. n + k
               PROVE  IsFrame(i)' /\ wire'[i].id = Oldest + (i - n) - 1 /\ wire'[i].id \in Nat
    OBVIOUS
  <2>1. i - n \in 1 .. k /\ Oldest + (i - n) - 1 \in Nat /\ n + (i - n) = i
    BY <1>2
  <2>2. wire'[i] = Frame(Oldest + (i - n) - 1)
    BY <1>3, <2>1
  <2> QED
    BY <2>1, <2>2, MessageTypes DEF IsFrame
<1>7. n + k \in DOMAIN wire' /\ wire'[n + k].id = Len(log)
  BY <1>1, <1>2, <1>4, <1>6 DEF k
<1>8. \A i \in 1 .. n + k : i \in 1 .. n \/ i \in n + 1 .. n + k
  BY <1>2
<1>9. client.last < Oldest
  BY <1>1, <1>2 DEF ViewInv, OrderInv, Oldest
<1>10. OrderInv'
  <2>1. InOrderOnce'
    BY <1>1 DEF ViewInv, OrderInv, InOrderOnce
  <2>2. \A i \in n + 1 .. n + k : wire'[i].id >= Oldest /\ wire'[i].id <= Len(log)
    BY <1>1, <1>2, <1>6 DEF k
  <2>3. \A i \in 1 .. n : IsFrame(i) => client.last < wire[i].id /\ wire[i].id <= conn.cursor /\ wire[i].id <= Len(log)
    BY <1>1, <1>4 DEF ViewInv, OrderInv
  <2>4. \A i \in 1 .. n : wire[i].id \in Nat
    <3>1. \A i \in DOMAIN wire : wire[i] \in Message
      BY <1>1
    <3> QED
      BY <1>4, <3>1 DEF Message
  <2>5. \A i \in DOMAIN wire' : IsFrame(i)' =>
          client'.last < wire'[i].id /\ wire'[i].id <= Len(log') /\ (Reading' => wire'[i].id <= conn'.cursor)
    BY <1>1, <1>2, <1>4, <1>5, <1>6, <1>8, <1>9, <2>2, <2>3
  <2>6. \A i, j \in DOMAIN wire' : i < j /\ IsFrame(i)' /\ IsFrame(j)' => wire'[i].id < wire'[j].id
    <3> SUFFICES ASSUME NEW i \in DOMAIN wire', NEW j \in DOMAIN wire', i < j, IsFrame(i)', IsFrame(j)'
                 PROVE  wire'[i].id < wire'[j].id
      OBVIOUS
    <3>1. CASE j \in 1 .. n
      <4>1. i \in 1 .. n
        BY <1>2, <1>4, <3>1
      <4> QED
        BY <1>4, <1>5, <3>1, <4>1 DEF ViewInv, OrderInv
    <3>2. CASE i \in 1 .. n /\ j \in n + 1 .. n + k
      <4>1. IsFrame(i) /\ wire'[i].id = wire[i].id /\ wire[i].id <= conn.cursor /\ wire[i].id \in Nat
        BY <1>5, <2>3, <2>4, <3>2
      <4>2. wire'[j].id >= Oldest /\ wire'[j].id \in Nat
        BY <1>6, <2>2, <3>2
      <4> QED
        BY <1>1, <1>2, <4>1, <4>2
    <3>3. CASE i \in n + 1 .. n + k /\ j \in n + 1 .. n + k
      BY <1>2, <1>6, <3>3
    <3>4. CASE i \in n + 1 .. n + k /\ j \in 1 .. n
      BY <1>2, <3>4
    <3> QED
      BY <1>4, <1>8, <3>1, <3>2, <3>3, <3>4
  <2>7. client'.last <= Len(log') /\ conn'.cursor <= Len(log') /\ client'.last <= conn'.cursor
    BY <1>1 DEF ViewInv, OrderInv
  <2>8. \A i \in DOMAIN screen' : screen'[i] <= client'.last
    BY <1>1 DEF ViewInv, OrderInv
  <2> QED
    BY <1>1, <2>1, <2>5, <2>6, <2>7, <2>8 DEF OrderInv
<1>11. ReadyInv'
  <2>1. \A i \in n + 1 .. n + k : wire'[i].is = "frame"
    BY <1>6 DEF IsFrame
  <2> QED
    BY <1>1, <1>4, <1>5, <1>8, <2>1 DEF ViewInv, ReadyInv
<1>12. \A id \in Nat : id \in Coming \/ id \in Oldest .. Len(log) => id \in Coming'
  <2>1. ASSUME NEW id \in Coming PROVE id \in Coming'
    <3>1. PICK i \in 1 .. n : IsFrame(i) /\ wire[i].id = id
      BY <1>4 DEF Coming
    <3>2. i \in DOMAIN wire' /\ IsFrame(i)' /\ wire'[i].id = id
      BY <1>2, <1>4, <1>5, <3>1
    <3> QED
      BY <3>2 DEF Coming
  <2>2. ASSUME NEW id \in Oldest .. Len(log) PROVE id \in Coming'
    <3>1. PICK i \in n + 1 .. n + k : i = n + (id - Oldest) + 1
      BY <1>1, <1>2 DEF k
    <3>2. IsFrame(i)' /\ wire'[i].id = id
      BY <1>1, <1>2, <1>6, <3>1
    <3>3. i \in DOMAIN wire'
      BY <1>2, <1>4
    <3> QED
      BY <3>2, <3>3 DEF Coming
  <2> QED
    BY <2>1, <2>2
<1>13. SkipInv'
  <2>1. \A id \in client.last + 1 .. Len(log) : id \in Coming' \/ id < first
    <3> SUFFICES ASSUME NEW id \in client.last + 1 .. Len(log) PROVE id \in Coming' \/ id < first
      OBVIOUS
    <3>1. id \in Nat /\ (id >= Oldest => id \in Coming')
      BY <1>1, <1>2, <1>12
    <3>2. CASE id <= conn.cursor
      BY <1>1, <1>12, <3>1, <3>2 DEF ViewInv, SkipInv
    <3>3. CASE id > conn.cursor
      BY <1>1, <1>2, <3>1, <3>3
    <3> QED
      BY <1>1, <3>1, <3>2, <3>3
  <2>2. \A i \in DOMAIN wire' : IsFrame(i)' => wire'[i].id \in Nat /\ wire'[i].id <= Len(log)
    <3>1. \A i \in DOMAIN wire' : wire'[i] \in Message
      BY <1>3
    <3> QED
      BY <1>1, <1>10, <3>1 DEF OrderInv, Message
  <2>3. Shown' = Shown
    BY <1>1 DEF Shown
  <2> QED
    BY <1>1, <2>1, <2>2, <2>3 DEF ViewInv, SkipInv
<1>14. NoFrames => n = 0 \/ (n = 1 /\ wire[1].is = "ready")
  <2> SUFFICES ASSUME NoFrames, n # 0 PROVE n = 1 /\ wire[1].is = "ready"
    OBVIOUS
  <2>1. \A i \in 1 .. n : wire[i] \in Message
    <3>1. \A i \in DOMAIN wire : wire[i] \in Message
      BY <1>1
    <3> QED
      BY <1>4, <3>1
  <2>2. \A i \in 1 .. n : wire[i].is # "end"
    BY <1>1, <1>4 DEF TypeInv, WireInv, NoConn
  <2>3. \A i \in 1 .. n : wire[i].is # "frame"
    BY <1>4 DEF NoFrames, IsFrame
  <2>4. \A i \in 1 .. n : wire[i].is = "ready"
    BY <2>1, <2>2, <2>3 DEF Message
  <2>5. \A i \in 1 .. n : i = 1
    BY <1>4, <2>4 DEF ViewInv, ReadyInv
  <2>6. n \in 1 .. n /\ 1 \in 1 .. n
    BY <1>2
  <2> QED
    BY <2>4, <2>5, <2>6
<1>15. ASSUME ~overrun
       PROVE  \/ n = 0 /\ (screen = <<>> \/ Oldest = client.last + 1)
              \/ n > 0 /\ IsFrame(n) /\ Oldest = wire[n].id + 1
              \/ /\ n = 1 /\ wire[1].is = "ready"
                 /\ screen = <<>> \/ wire[1].gap \/ Oldest = client.last + 1
  <2>1. Fresh \/ Continues
    BY <1>1, <1>2, <1>15 DEF ViewInv, HoleInv
  <2>2. CASE Fresh
    BY <1>2, <1>4, <1>14, <2>2 DEF Fresh
  <2>3. CASE Continues /\ NoFrames
    <3>1. conn.cursor = client.last /\ first <= conn.cursor + 1
      BY <2>3 DEF Continues
    <3>2. Oldest = client.last + 1
      BY <1>1, <3>1 DEF Oldest
    <3> QED
      BY <1>14, <2>3, <3>2
  <2>4. CASE Continues /\ ~NoFrames
    <3>1. n > 0
      <4>1. 1 .. n # {}
        BY <1>4, <2>4 DEF NoFrames
      <4>2. n \in Nat
        BY <1>2
      <4> QED
        BY <4>1, <4>2
    <3>2. IsFrame(n) /\ conn.cursor = wire[n].id /\ first <= conn.cursor + 1
      BY <2>4 DEF Continues, n
    <3> QED
      BY <1>1, <3>1, <3>2 DEF Oldest
  <2> QED
    BY <2>1, <2>2, <2>3, <2>4
<1>16. ASSUME NEW i \in DOMAIN wire', IsFrame(i)'
       PROVE  \/ overrun'
              \/ i = 1 /\ (screen' = <<>> \/ wire'[i].id = client'.last + 1)
              \/ i > 1 /\ IsFrame(i - 1)' /\ wire'[i].id = wire'[i - 1].id + 1
              \/ /\ i = 2 /\ wire'[1].is = "ready"
                 /\ screen' = <<>> \/ wire'[1].gap \/ wire'[i].id = client'.last + 1
  <2>1. CASE i \in 1 .. n
    <3>1. IsFrame(i) /\ wire'[i] = wire[i] /\ (i = 2 => wire'[1] = wire[1])
      BY <1>2, <1>5, <1>16, <2>1
    <3>2. i > 1 => i - 1 \in 1 .. n /\ IsFrame(i - 1)' = IsFrame(i - 1) /\ wire'[i - 1] = wire[i - 1]
      <4>1. i > 1 => i - 1 \in 1 .. n
        BY <1>2, <2>1
      <4> QED
        BY <1>5, <4>1 DEF IsFrame
    <3> QED
      BY <1>1, <1>4, <2>1, <3>1, <3>2 DEF ViewInv, HoleInv
  <2>2. CASE i = n + 1
    <3>1. wire'[i].id = Oldest
      <4>1. i \in n + 1 .. n + k /\ Oldest + (i - n) - 1 = Oldest
        BY <1>2, <2>2
      <4> QED
        BY <1>6, <4>1
    <3>2. n > 0 => i - 1 \in 1 .. n /\ i - 1 = n /\ i > 1 /\ IsFrame(i - 1)' = IsFrame(i - 1) /\ wire'[i - 1] = wire[i - 1]
      <4>1. n > 0 => n \in 1 .. n /\ i - 1 \in 1 .. n /\ i - 1 = n /\ i > 1
        BY <1>2, <2>2
      <4>2. i - 1 \in 1 .. n => IsFrame(i - 1)' = IsFrame(i - 1) /\ wire'[i - 1] = wire[i - 1]
        BY <1>5
      <4> QED
        BY <4>1, <4>2
    <3>3. n = 1 => i = 2
      BY <2>2
    <3>4. n = 0 => i = 1
      BY <2>2
    <3> QED
      BY <1>1, <1>15, <3>1, <3>2, <3>3, <3>4
  <2>3. CASE i \in n + 2 .. n + k
    <3>1. i \in n + 1 .. n + k /\ i - 1 \in n + 1 .. n + k /\ i > 1
      BY <1>2, <2>3
    <3> QED
      BY <1>2, <1>6, <3>1 DEF IsFrame
  <2>4. i \in 1 .. n \/ i = n + 1 \/ i \in n + 2 .. n + k
    BY <1>2, <1>4
  <2> QED
    BY <2>1, <2>2, <2>3, <2>4
<1>17. Continues'
  <2>1. PICK i \in DOMAIN wire' : i = Len(wire') /\ wire'[i].is = "frame" /\ wire'[i].id = Len(log)
    <3>1. n + k \in n + 1 .. n + k /\ n + k = Len(wire')
      BY <1>2, <1>3
    <3>2. wire'[n + k].is = "frame"
      BY <1>6, <3>1 DEF IsFrame
    <3> QED
      BY <1>7, <3>1, <3>2
  <2>2. ~NoFrames'
    BY <2>1 DEF NoFrames, IsFrame
  <2>3. first' <= conn'.cursor + 1
    BY <1>1
  <2> QED
    BY <1>1, <2>1, <2>2, <2>3 DEF Continues, IsFrame
<1>18. HoleInv'
  BY <1>1, <1>16, <1>17 DEF ViewInv, HoleInv, HolesAreAnnounced
<1> QED
  BY <1>10, <1>11, <1>13, <1>18 DEF ViewInv

(* What the client receives moves from the wire to the terminal.           *)
LEMMA ReceivingKeepsView ==
  ASSUME TypeInv, ViewInv, Receive
  PROVE  ViewInv'
<1>1. /\ UNCHANGED <<log, first, runner, conn, overrun>>
      /\ client \in Socket /\ wire \in Seq(Message) /\ screen \in Seq(Nat \ {0}) /\ conn \in Conn
      /\ Len(log) \in Nat /\ first \in Nat /\ client.last \in Nat /\ conn.cursor \in Nat
      /\ wire # <<>> /\ wire' = Tail(wire) /\ wire' \in Seq(Message)
  <2>1. UNCHANGED <<log, first, runner, conn, overrun>> /\ wire # <<>> /\ wire' = Tail(wire)
    BY DEF Receive, output, appends
  <2>2. /\ client \in Socket /\ wire \in Seq(Message) /\ screen \in Seq(Nat \ {0}) /\ conn \in Conn
        /\ log \in Seq(1 .. MaxChunks) /\ first \in 1 .. Len(log) + 1
    BY DEF TypeInv, TypeOK
  <2>3. client.last \in Nat /\ conn.cursor \in Nat
    BY <2>2 DEF Socket, Conn
  <2> QED
    BY <2>1, <2>2, <2>3
<1> DEFINE n == Len(wire)
<1>2. /\ n \in Nat \ {0} /\ DOMAIN wire = 1 .. n /\ DOMAIN wire' = 1 .. n - 1 /\ Len(wire') = n - 1
      /\ \A i \in 1 .. n - 1 : wire'[i] = wire[i + 1] /\ i + 1 \in 1 .. n
      /\ Head(wire) = wire[1] /\ 1 \in 1 .. n
  BY <1>1, ReceiveTypes
<1>3. \A i \in 1 .. n : wire[i] \in Message /\ wire[i].id \in Nat
  <2>1. \A i \in DOMAIN wire : wire[i] \in Message
    BY <1>1
  <2> QED
    BY <1>2, <2>1 DEF Message
<1> HIDE DEF n
<1>4. \A i \in 1 .. n - 1 : IsFrame(i)' = IsFrame(i + 1)
  BY <1>2 DEF IsFrame
<1>5. ~(conn.at \in {"serve", "range"})
  BY <1>1 DEF ViewInv, OrderInv
<1>6. /\ \/ /\ IsFrame(1) /\ client'.last = wire[1].id /\ screen' = Append(screen, wire[1].id)
         \/ ~IsFrame(1) /\ client'.last = client.last /\ screen' = screen
         \/ /\ wire[1].is = "ready" /\ wire[1].gap /\ client'.last = client.last /\ screen' = <<>>
      /\ wire[1].is = "ready" /\ wire[1].gap => screen' = <<>>
  BY <1>1, <1>2 DEF Receive, IsFrame, Socket
<1>7. IsFrame(1) => client.last < wire[1].id /\ wire[1].id <= Len(log) /\ (Reading => wire[1].id <= conn.cursor)
  BY <1>2 DEF ViewInv, OrderInv
<1>8. client'.last \in Nat /\ client.last <= client'.last
  BY <1>1, <1>2, <1>3, <1>6, <1>7
<1>9. Reading' = Reading
  BY <1>1 DEF Reading
<1>10. NoFrames => NoFrames' /\ client'.last = client.last /\ ~IsFrame(1)
  <2> SUFFICES ASSUME NoFrames PROVE NoFrames' /\ client'.last = client.last /\ ~IsFrame(1)
    OBVIOUS
  <2>1. \A i \in 1 .. n : ~IsFrame(i)
    BY <1>2 DEF NoFrames
  <2>2. ~IsFrame(1) /\ client'.last = client.last
    BY <1>2, <1>6, <2>1
  <2>3. \A i \in 1 .. n - 1 : ~IsFrame(i)'
    BY <1>2, <1>4, <2>1
  <2> QED
    BY <1>2, <2>2, <2>3 DEF NoFrames, IsFrame
<1>11. OrderInv'
  <2>1. InOrderOnce' /\ \A i \in DOMAIN screen' : screen'[i] <= client'.last
    <3>1. /\ \A i, j \in DOMAIN screen : i < j => screen[i] < screen[j]
          /\ \A i \in DOMAIN screen : screen[i] <= client.last /\ screen[i] \in Nat
      <4>1. \A i \in DOMAIN screen : screen[i] \in Nat
        BY <1>1
      <4> QED
        BY <4>1 DEF ViewInv, OrderInv, InOrderOnce
    <3>2. CASE screen' = screen
      BY <1>1, <1>8, <3>1, <3>2 DEF InOrderOnce
    <3>3. CASE screen' = <<>>
      BY <3>3 DEF InOrderOnce
    <3>4. CASE IsFrame(1) /\ client'.last = wire[1].id /\ screen' = Append(screen, wire[1].id)
      <4> DEFINE m == Len(screen)
      <4>1. /\ m \in Nat /\ DOMAIN screen = 1 .. m /\ DOMAIN screen' = 1 .. m + 1
            /\ \A i \in 1 .. m : screen'[i] = screen[i]
            /\ screen'[m + 1] = wire[1].id
        BY <1>1, <1>2, <1>3, <3>4
      <4> HIDE DEF m
      <4>2. \A i \in 1 .. m : screen'[i] < wire[1].id
        <5>1. client.last < wire[1].id /\ wire[1].id \in Nat /\ client.last \in Nat
          BY <1>1, <1>2, <1>3, <1>7, <3>4
        <5>2. \A i \in 1 .. m : screen[i] <= client.last /\ screen[i] \in Nat
          BY <3>1, <4>1
        <5> QED
          BY <4>1, <5>1, <5>2
      <4>3. \A i \in 1 .. m + 1 : i \in 1 .. m \/ i = m + 1
        BY <4>1
      <4>4. \A i, j \in 1 .. m + 1 : i < j => i \in 1 .. m
        BY <4>1
      <4>5. InOrderOnce'
        <5>1. ASSUME NEW i \in 1 .. m + 1, NEW j \in 1 .. m + 1, i < j PROVE screen'[i] < screen'[j]
          <6>1. i \in 1 .. m
            BY <4>4, <5>1
          <6>2. CASE j \in 1 .. m
            BY <3>1, <4>1, <5>1, <6>1, <6>2
          <6>3. CASE j = m + 1
            BY <4>1, <4>2, <6>1, <6>3
          <6> QED
            BY <4>3, <6>2, <6>3
        <5>2. \A i, j \in DOMAIN screen' : i < j => screen'[i] < screen'[j]
          BY <4>1, <5>1
        <5> QED
          BY <5>2 DEF InOrderOnce
      <4>6. \A i \in 1 .. m : screen'[i] \in Nat /\ screen'[i] <= wire[1].id
        <5> DEFINE id == wire[1].id
        <5>1. id \in Nat
          BY <1>1, <1>2, <1>3, <1>7, <3>4
        <5>2. ASSUME NEW i \in 1 .. m PROVE screen'[i] \in Nat /\ screen'[i] < id
          <6>1. screen'[i] = screen[i] /\ i \in DOMAIN screen
            BY <4>1
          <6>2. screen'[i] \in Nat
            BY <3>1, <6>1
          <6> QED
            BY <4>2, <6>2
        <5> HIDE DEF id
        <5>3. \A i \in 1 .. m : screen'[i] \in Nat /\ screen'[i] <= id
          BY <5>1, <5>2
        <5> QED
          BY <5>3 DEF id
      <4>7. wire[1].id <= wire[1].id
        BY <1>2, <1>3
      <4>8. \A i \in DOMAIN screen' : screen'[i] <= client'.last
        BY <3>4, <4>1, <4>3, <4>6, <4>7
      <4> QED
        BY <4>5, <4>8
    <3> QED
      BY <1>6, <3>2, <3>3, <3>4
  <2>2. client'.last <= Len(log') /\ conn'.cursor <= Len(log')
    BY <1>1, <1>6, <1>7 DEF ViewInv, OrderInv
  <2>3. ASSUME NEW i \in 1 .. n - 1, IsFrame(i)'
        PROVE  /\ client'.last < wire'[i].id /\ wire'[i].id <= Len(log')
               /\ Reading' => wire'[i].id <= conn'.cursor
    <3>1. i + 1 \in 1 .. n /\ IsFrame(i + 1) /\ wire'[i] = wire[i + 1] /\ 1 < i + 1
      BY <1>2, <1>4, <2>3
    <3>2. /\ client.last < wire[i + 1].id /\ wire[i + 1].id <= Len(log)
          /\ Reading => wire[i + 1].id <= conn.cursor
          /\ IsFrame(1) => wire[1].id < wire[i + 1].id
      BY <1>2, <3>1 DEF ViewInv, OrderInv
    <3> QED
      BY <1>1, <1>6, <1>9, <3>1, <3>2
  <2>4. ASSUME NEW i \in 1 .. n - 1, NEW j \in 1 .. n - 1, i < j, IsFrame(i)', IsFrame(j)'
        PROVE  wire'[i].id < wire'[j].id
    <3>1. /\ i + 1 \in 1 .. n /\ IsFrame(i + 1) /\ wire'[i] = wire[i + 1]
          /\ j + 1 \in 1 .. n /\ IsFrame(j + 1) /\ wire'[j] = wire[j + 1] /\ i + 1 < j + 1
      BY <1>2, <1>4, <2>4
    <3> QED
      BY <1>2, <3>1 DEF ViewInv, OrderInv
  <2>5. Reading' => client'.last <= conn'.cursor \/ (conn'.cursor = 0 /\ client'.last < first' /\ NoFrames')
    BY <1>1, <1>6, <1>7, <1>9, <1>10 DEF ViewInv, OrderInv
  <2> QED
    BY <1>1, <1>2, <1>5, <2>1, <2>2, <2>3, <2>4, <2>5 DEF OrderInv
<1>12. ReadyInv'
  <2> SUFFICES ASSUME NEW i \in 1 .. n - 1, wire'[i].is = "ready" PROVE FALSE
    BY <1>2 DEF ReadyInv
  <2>1. i + 1 \in 1 .. n /\ wire[i + 1].is = "ready"
    BY <1>2
  <2>2. i + 1 = 1
    BY <1>2, <2>1 DEF ViewInv, ReadyInv
  <2> QED
    BY <1>2, <2>2
<1>13. \A id \in Nat : id < first => id < first'
  BY <1>1
<1>14. \A id \in Coming : id \in Coming' \/ (IsFrame(1) /\ id = wire[1].id)
  <2> SUFFICES ASSUME NEW id \in Coming PROVE id \in Coming' \/ (IsFrame(1) /\ id = wire[1].id)
    OBVIOUS
  <2>1. PICK i \in 1 .. n : IsFrame(i) /\ wire[i].id = id
    BY <1>2 DEF Coming
  <2>2. CASE i = 1
    BY <2>1, <2>2
  <2>3. CASE i # 1
    <3>1. PICK j \in 1 .. n - 1 : i = j + 1
      <4>1. i - 1 \in 1 .. n - 1 /\ i = (i - 1) + 1
        BY <1>2, <2>3
      <4> QED
        BY <4>1
    <3>2. j \in DOMAIN wire' /\ IsFrame(j)' /\ wire'[j].id = id
      BY <1>2, <1>4, <2>1, <3>1
    <3> QED
      BY <3>2 DEF Coming
  <2> QED
    BY <2>2, <2>3
<1>15. SkipInv'
  <2>1. \A id \in 1 .. client'.last : (id \in Shown \/ id < first)'
    <3>1. CASE IsFrame(1) /\ client'.last = wire[1].id /\ screen' = Append(screen, wire[1].id)
      <4>1. Shown \subseteq Shown' /\ wire[1].id \in Shown'
        <5> DEFINE m == Len(screen)
        <5>1. /\ m \in Nat /\ DOMAIN screen = 1 .. m /\ DOMAIN screen' = 1 .. m + 1
              /\ \A i \in 1 .. m : screen'[i] = screen[i]
              /\ screen'[m + 1] = wire[1].id
          BY <1>1, <1>2, <1>3, <3>1
        <5> HIDE DEF m
        <5>2. \A i \in 1 .. m : i \in 1 .. m + 1
          BY <5>1
        <5>3. m + 1 \in 1 .. m + 1
          BY <5>1
        <5> QED
          BY <5>1, <5>2, <5>3 DEF Shown
      <4> SUFFICES ASSUME NEW id \in 1 .. client'.last PROVE id \in Shown' \/ id < first'
        OBVIOUS
      <4>2. CASE id <= client.last
        BY <1>1, <4>1, <4>2 DEF ViewInv, SkipInv
      <4>3. CASE id > client.last
        <5>1. id \in Coming \/ id < first
          <6>1. id \in client.last + 1 .. wire[1].id
            BY <1>1, <1>2, <1>3, <3>1, <4>3
          <6> QED
            BY <1>2, <3>1, <6>1 DEF ViewInv, SkipInv
        <5>2. ASSUME id \in Coming PROVE id = wire[1].id
          <6>1. PICK i \in 1 .. n : IsFrame(i) /\ wire[i].id = id
            BY <1>2, <5>2 DEF Coming
          <6>2. i > 1 => wire[1].id < wire[i].id
            BY <1>2, <3>1, <6>1 DEF ViewInv, OrderInv
          <6>3. id <= wire[1].id /\ wire[1].id \in Nat /\ i \in Nat
            BY <1>2, <1>3, <3>1
          <6>4. i = 1
            BY <6>1, <6>2, <6>3
          <6> QED
            BY <6>1, <6>4
        <5> QED
          BY <1>1, <4>1, <5>1, <5>2
      <4> QED
        BY <1>1, <1>8, <4>2, <4>3
    <3>2. CASE ~IsFrame(1) /\ client'.last = client.last /\ screen' = screen
      BY <1>1, <3>2 DEF ViewInv, SkipInv, Shown
    <3>3. CASE wire[1].is = "ready" /\ wire[1].gap /\ client'.last = client.last /\ screen' = <<>>
      <4>1. client.last < first
        BY <1>2, <3>3 DEF ViewInv, ReadyInv
      <4> QED
        BY <1>1, <3>3, <4>1
    <3> QED
      BY <1>6, <3>1, <3>2, <3>3
  <2>2. ASSUME NEW top \in Nat, \A id \in client.last + 1 .. top : id \in Coming \/ id < first
        PROVE  \A id \in client'.last + 1 .. top : (id \in Coming \/ id < first)'
    <3> SUFFICES ASSUME NEW id \in client'.last + 1 .. top PROVE id \in Coming' \/ id < first'
      OBVIOUS
    <3>1. id \in client.last + 1 .. top /\ id > client'.last
      BY <1>1, <1>8
    <3>2. IsFrame(1) => client'.last = wire[1].id
      BY <1>6 DEF IsFrame
    <3> QED
      BY <1>1, <1>3, <1>2, <1>14, <2>2, <3>1, <3>2
  <2>3. ASSUME NEW i \in 1 .. n - 1, IsFrame(i)'
        PROVE  \A id \in client'.last + 1 .. wire'[i].id : (id \in Coming \/ id < first)'
    <3>1. i + 1 \in 1 .. n /\ IsFrame(i + 1) /\ wire'[i] = wire[i + 1]
      BY <1>2, <1>4, <2>3
    <3>2. \A id \in client.last + 1 .. wire[i + 1].id : id \in Coming \/ id < first
      BY <1>2, <3>1 DEF ViewInv, SkipInv
    <3>3. \A id \in client'.last + 1 .. wire[i + 1].id : (id \in Coming \/ id < first)'
      BY <1>3, <2>2, <3>1, <3>2
    <3> QED
      BY <3>1, <3>3
  <2>4. Reading' => \A id \in client'.last + 1 .. conn'.cursor : (id \in Coming \/ id < first)'
    BY <1>1, <1>9, <2>2 DEF ViewInv, SkipInv
  <2> QED
    BY <1>2, <2>1, <2>3, <2>4 DEF SkipInv
<1>16. screen # <<>> => screen[Len(screen)] = client.last
  BY DEF ViewInv, HoleInv
<1>17. IsFrame(1) => overrun \/ screen = <<>> \/ wire[1].id = client.last + 1
  <2> SUFFICES ASSUME IsFrame(1) PROVE overrun \/ screen = <<>> \/ wire[1].id = client.last + 1
    OBVIOUS
  <2>1. HoleInv /\ 1 \in DOMAIN wire
    BY <1>2 DEF ViewInv
  <2>2. \/ overrun
        \/ 1 = 1 /\ (screen = <<>> \/ wire[1].id = client.last + 1)
        \/ 1 > 1 /\ IsFrame(1 - 1) /\ wire[1].id = wire[1 - 1].id + 1
        \/ 1 = 2
    BY <2>1 DEF HoleInv
  <2> QED
    BY <2>2
<1>18. HolesAreAnnounced' /\ (screen' # <<>> => screen'[Len(screen')] = client'.last)
  <2>1. CASE IsFrame(1) /\ client'.last = wire[1].id /\ screen' = Append(screen, wire[1].id)
    <3> DEFINE m == Len(screen)
    <3>1. /\ m \in Nat /\ DOMAIN screen = 1 .. m /\ DOMAIN screen' = 1 .. m + 1 /\ Len(screen') = m + 1
          /\ \A i \in 1 .. m : screen'[i] = screen[i]
          /\ screen'[m + 1] = wire[1].id
          /\ (screen = <<>> <=> m = 0)
      BY <1>1, <1>2, <1>3, <2>1
    <3>2. screen # <<>> => screen[m] = client.last
      BY <1>16
    <3> HIDE DEF m
    <3>3. ASSUME NEW i \in 1 .. m + 1, i > 1, screen'[i] # screen'[i - 1] + 1 PROVE overrun
      <4>1. CASE i \in 1 .. m
        <5>1. i - 1 \in 1 .. m
          BY <3>1, <3>3, <4>1
        <5>2. screen[i] # screen[i - 1] + 1
          BY <3>1, <3>3, <4>1, <5>1
        <5> QED
          BY <3>1, <3>3, <4>1, <5>2 DEF ViewInv, HoleInv, HolesAreAnnounced
      <4>2. CASE i = m + 1
        <5>1. i - 1 = m /\ m \in 1 .. m /\ m # 0
          BY <3>1, <3>3, <4>2
        <5>2. screen'[i] = wire[1].id /\ screen'[i - 1] = client.last
          BY <3>1, <3>2, <4>2, <5>1
        <5> QED
          BY <1>17, <2>1, <3>1, <3>3, <5>1, <5>2
      <4> QED
        BY <3>1, <4>1, <4>2
    <3>4. HolesAreAnnounced'
      BY <1>1, <3>1, <3>3 DEF HolesAreAnnounced
    <3> QED
      BY <2>1, <3>1, <3>4
  <2>2. CASE ~IsFrame(1) /\ client'.last = client.last /\ screen' = screen
    BY <1>1, <1>16, <2>2 DEF ViewInv, HoleInv, HolesAreAnnounced
  <2>3. CASE screen' = <<>>
    BY <2>3 DEF HolesAreAnnounced
  <2> QED
    BY <1>6, <2>1, <2>2, <2>3
<1>19. ASSUME NEW i \in 1 .. n - 1, IsFrame(i)'
       PROVE  \/ overrun'
              \/ i = 1 /\ (screen' = <<>> \/ wire'[i].id = client'.last + 1)
              \/ i > 1 /\ IsFrame(i - 1)' /\ wire'[i].id = wire'[i - 1].id + 1
              \/ /\ i = 2 /\ wire'[1].is = "ready"
                 /\ screen' = <<>> \/ wire'[1].gap \/ wire'[i].id = client'.last + 1
  <2>1. PICK j \in DOMAIN wire : j = i + 1 /\ IsFrame(j) /\ wire'[i] = wire[j] /\ j > 1
    BY <1>2, <1>4, <1>19
  <2>2. \/ overrun
        \/ IsFrame(j - 1) /\ wire[j].id = wire[j - 1].id + 1
        \/ j = 2 /\ wire[1].is = "ready" /\ (screen = <<>> \/ wire[1].gap \/ wire[j].id = client.last + 1)
    <3>1. HoleInv /\ j # 1
      BY <1>19, <2>1 DEF ViewInv
    <3>2. \/ overrun
          \/ j = 1
          \/ IsFrame(j - 1) /\ wire[j].id = wire[j - 1].id + 1
          \/ j = 2 /\ wire[1].is = "ready" /\ (screen = <<>> \/ wire[1].gap \/ wire[j].id = client.last + 1)
      BY <2>1, <3>1 DEF HoleInv
    <3> QED
      BY <3>1, <3>2
  <2>3. CASE j = 2 /\ wire[1].is = "ready" /\ (screen = <<>> \/ wire[1].gap \/ wire[j].id = client.last + 1)
    <3>1. i = 1 /\ ~IsFrame(1)
      BY <1>2, <2>1, <2>3 DEF IsFrame
    <3>2. client'.last = client.last /\ (screen' = screen \/ screen' = <<>>)
      BY <1>6, <3>1
    <3> QED
      BY <1>6, <2>1, <2>3, <3>1, <3>2
  <2>4. CASE IsFrame(j - 1) /\ wire[j].id = wire[j - 1].id + 1 /\ i = 1
    <3>1. j - 1 = 1
      BY <2>1, <2>4
    <3>2. client'.last = wire[1].id
      BY <1>6, <2>4, <3>1 DEF IsFrame
    <3> QED
      BY <2>1, <2>4, <3>1, <3>2
  <2>5. CASE IsFrame(j - 1) /\ wire[j].id = wire[j - 1].id + 1 /\ i # 1
    <3>1. i - 1 \in 1 .. n - 1 /\ i > 1 /\ j - 1 = (i - 1) + 1
      BY <1>2, <2>1, <2>5
    <3>2. wire'[i - 1] = wire[j - 1]
      BY <1>2, <3>1
    <3>3. IsFrame(i - 1)'
      BY <2>5, <3>2 DEF IsFrame
    <3> QED
      BY <2>1, <2>5, <3>1, <3>2, <3>3
  <2> QED
    BY <1>1, <2>2, <2>3, <2>4, <2>5
<1>20. Fresh => Fresh'
  <2> SUFFICES ASSUME Fresh PROVE Fresh'
    OBVIOUS
  <2>1. NoFrames' /\ ~IsFrame(1)
    BY <1>10 DEF Fresh
  <2>2. CASE screen = <<>>
    BY <1>6, <2>1, <2>2 DEF Fresh
  <2>3. CASE \E i \in DOMAIN wire : wire[i].is = "ready" /\ wire[i].gap
    <3>1. wire[1].is = "ready" /\ wire[1].gap
      BY <2>3 DEF ViewInv, ReadyInv
    <3> QED
      BY <1>6, <2>1, <3>1 DEF Fresh
  <2> QED
    BY <2>2, <2>3 DEF Fresh
<1>21. Continues => Continues'
  <2> SUFFICES ASSUME Continues PROVE Continues'
    OBVIOUS
  <2>1. CASE NoFrames
    BY <1>1, <1>10, <2>1 DEF Continues
  <2>2. CASE ~NoFrames /\ n = 1
    <3>1. NoFrames'
      BY <1>2, <2>2 DEF NoFrames
    <3>2. IsFrame(1) /\ conn.cursor = wire[1].id
      BY <2>2 DEF Continues, n
    <3> QED
      BY <1>1, <1>6, <3>1, <3>2 DEF Continues, IsFrame
  <2>3. CASE ~NoFrames /\ n # 1
    <3>1. PICK k \in 1 .. n - 1 : k = n - 1
      BY <1>2, <2>3
    <3>2. IsFrame(n) /\ conn.cursor = wire[n].id
      BY <2>3 DEF Continues, n
    <3>3. wire'[k] = wire[n] /\ k = Len(wire')
      BY <1>2, <3>1
    <3>4. wire'[k].is = "frame"
      BY <3>2, <3>3 DEF IsFrame
    <3>5. ~NoFrames'
      BY <1>2, <3>4 DEF NoFrames, IsFrame
    <3> QED
      BY <1>1, <2>3, <3>2, <3>3, <3>4, <3>5 DEF Continues, IsFrame
  <2> QED
    BY <2>1, <2>2, <2>3
<1>22. Reading' => overrun' \/ Fresh' \/ Continues' \/ (runner' = "done" /\ first' > Len(log'))
  BY <1>1, <1>9, <1>20, <1>21 DEF ViewInv, HoleInv
<1>23. HoleInv'
  BY <1>2, <1>18, <1>19, <1>22 DEF HoleInv
<1> QED
  BY <1>11, <1>12, <1>15, <1>23 DEF ViewInv

-----------------------------------------------------------------------------
LEMMA GatewayKeepsView ==
  ASSUME TypeInv, HistoryInv, ViewInv, Gateway \/ GatewayFails
  PROVE  ViewInv'
<1>1. conn \in Conn /\ conn.cursor \in Nat
  BY DEF TypeInv, TypeOK, Conn
<1>2. CASE Serve \/ CheckOldest
  BY <1>2, StartingKeepsView
<1>3. CASE ReadEntries
  BY <1>3, ReadingKeepsView
<1>4. CASE ReadNothing
  <2>1. Reading /\ Reading' /\ conn'.cursor = conn.cursor
    BY <1>1, <1>4 DEF ReadNothing, Reading, Conn
  <2>2. UNCHANGED <<output, view, wire, overrun>>
    BY <1>4 DEF ReadNothing
  <2> QED
    BY <2>1, <2>2, TurningKeepsView
<1>5. CASE ReadStatus /\ ~row.over
  <2>1. Reading /\ Reading' /\ conn'.cursor = conn.cursor
    BY <1>1, <1>5 DEF ReadStatus, Reading, Conn
  <2>2. UNCHANGED <<output, view, wire, overrun>>
    BY <1>5 DEF ReadStatus
  <2> QED
    BY <2>1, <2>2, TurningKeepsView
<1>6. CASE (ReadStatus /\ row.over) \/ GatewayFails
  <2>1. conn.at # "none" /\ conn' = NoConn /\ Send(<<End>>) /\ UNCHANGED <<output, view, overrun>>
    BY <1>6 DEF ReadStatus, GatewayFails
  <2> QED
    BY <2>1, EndingKeepsView
<1> QED
  BY <1>2, <1>3, <1>4, <1>5, <1>6 DEF Gateway

LEMMA ViewHolds == Spec => []ViewInv
<1>1. Init => ViewInv
  <2> SUFFICES ASSUME Init PROVE ViewInv
    OBVIOUS
  <2>1. /\ log = <<>> /\ wire = <<>> /\ screen = <<>> /\ client.last = 0
        /\ conn.at = "none" /\ conn.cursor = 0 /\ ~Reading
    BY DEF Init, NoConn, Reading
  <2> QED
    BY <2>1 DEF ViewInv, OrderInv, ReadyInv, SkipInv, HoleInv, InOrderOnce, HolesAreAnnounced, IsFrame
<1>2. OutputInv /\ ViewInv /\ [Next]_vars => ViewInv'
  <2> SUFFICES ASSUME TypeInv, HistoryInv, ViewInv, [Next]_vars PROVE ViewInv'
    BY DEF OutputInv
  <2>1. CASE UNCHANGED vars
    BY <2>1 DEF vars, output, appends, view, ViewInv, OrderInv, ReadyInv, SkipInv, HoleInv, InOrderOnce, HolesAreAnnounced,
         Shown, Reading, NoFrames, Coming, Fresh, Continues, IsFrame
  <2>2. CASE Next
    BY <2>2, StepsBy, RunnerKeepsView, GatewayKeepsView, BrowserKeepsView, ReceivingKeepsView
  <2> QED
    BY <2>1, <2>2
<1> QED
  BY <1>1, <1>2, OutputHolds, PTL DEF Spec

(* The terminal shows entries in order and none twice, across any number   *)
(* of reconnects, replays and reloads (ADR-006; useTerminalStream.ts).     *)
THEOREM ShownInOrder == Spec => []InOrderOnce
<1>1. ViewInv => InOrderOnce
  BY DEF ViewInv, OrderInv
<1> QED
  BY <1>1, ViewHolds, PTL

(* What is missing before an entry on the terminal is gone from Redis too  *)
(* (gateway.ts 119-131, 244-266).                                          *)
THEOREM NothingIsLeftOut == Spec => []NothingIsSkipped
<1>1. OutputInv /\ ViewInv => NothingIsSkipped
  <2> SUFFICES ASSUME OutputInv, ViewInv, NEW i \in DOMAIN screen, NEW id \in 1 .. screen[i]
               PROVE  id \in Shown \/ id < first
    BY DEF NothingIsSkipped
  <2>1. screen[i] \in Nat /\ screen[i] <= client.last /\ client.last \in Nat
    <3>1. screen \in Seq(Nat \ {0}) /\ client.last \in Nat
      BY DEF OutputInv, TypeInv, TypeOK, Socket
    <3> QED
      BY <3>1 DEF ViewInv, OrderInv
  <2>2. id \in 1 .. client.last
    BY <2>1
  <2> QED
    BY <2>2 DEF ViewInv, SkipInv
<1> QED
  BY <1>1, OutputHolds, ViewHolds, PTL

(* Two entries on the terminal that do not join up do so because a trim    *)
(* overtook a connected reader: whoever resumes behind the oldest entry is *)
(* told, and clears the terminal (gateway.ts 119-131).                     *)
THEOREM HolesAnnounced == Spec => []HolesAreAnnounced
<1>1. ViewInv => HolesAreAnnounced
  BY DEF ViewInv, HoleInv
<1> QED
  BY <1>1, ViewHolds, PTL

=============================================================================
