---------------------------- MODULE TerminalStream ----------------------------
(***************************************************************************)
(* The output of a run on its way from the PTY to a browser (ADR-006): the *)
(* runner appends chunks to a capped Redis stream, the gateway of the      *)
(* control plane reads it forward from where the client left off, and the  *)
(* console's page decides whether it watches the stream or reads the       *)
(* transcript.  Chunks are numbers; the id of an entry is its place in     *)
(* everything that was ever appended.                                      *)
(***************************************************************************)
EXTENDS Naturals, Sequences

CONSTANTS
  Cap,            \* STREAM_MAXLEN: entries that a trim leaves at least
  MaxReconnects,  \* attempts in a row until the client gives up
  MaxChunks,      \* chunks the script writes
  MaxDrops,       \* connections lost or refused, and reloads of the page
  MaxFaults       \* statements and processes that fail

ASSUME CapAssumption    == Cap \in Nat \ {0} /\ MaxReconnects \in Nat
ASSUME BoundsAssumption == MaxChunks \in Nat /\ MaxDrops \in Nat /\ MaxFaults \in Nat

VARIABLES
  produced,   \* chunks that came off the PTY
  settled,    \* chunks whose append was answered, or given up
  log, first, \* all entries ever appended; the oldest that is still there
  latest,     \* the id of the last append that was answered; 0: none yet
  unheard,    \* history: entries whose append was not answered
  runner,     \* the statement of drive that comes next
  row,        \* whether the run is live, and its last_stream_id
  saved,      \* whether the transcript is stored
  page,       \* what the console's page is doing
  client,     \* its socket, the last id it saw, the attempts in a row
  screen,     \* the entries on the terminal
  conn,       \* the gateway's end of the socket
  wire,       \* what the gateway sent and the client has not received
  overrun,    \* history: a trim overtook a reader that was connected
  drops, faults  \* how much of each bound is used up

appends == <<settled, log, latest, unheard>>
output  == <<produced, appends, first, runner, row, saved>>
view    == <<page, client, screen>>
bounds  == <<drops, faults>>
vars    == <<output, view, conn, wire, overrun, bounds>>

Message == [is : {"frame", "ready", "end"}, id : Nat, gap : BOOLEAN]
Frame(id)  == [is |-> "frame", id |-> id, gap |-> FALSE]
Ready(gap) == [is |-> "ready", id |-> 0, gap |-> gap]
End        == [is |-> "end", id |-> 0, gap |-> FALSE]

Socket == [is : {"closed", "open", "stopped"}, last : Nat, attempts : Nat]
Conn   == [at : {"none", "serve", "range", "read", "status"}, cursor : Nat]
NoConn == [at |-> "none", cursor |-> 0]

Stream  == first .. Len(log)                 \* the ids Redis still has
Shown   == {screen[i] : i \in DOMAIN screen}

Fault == faults < MaxFaults /\ faults' = faults + 1
Drop  == drops < MaxDrops /\ drops' = drops + 1

-----------------------------------------------------------------------------
\* The runner: publisher, transcript and the end of drive

Output ==          \* onData: queued for the stream, kept for the transcript
  /\ runner = "runs" /\ produced < MaxChunks
  /\ produced' = produced + 1
  /\ UNCHANGED <<appends, first, runner, row, saved, view, conn, wire, overrun, bounds>>

Lagging(oldest) == conn.at \in {"read", "status"} /\ oldest > conn.cursor + 1

(* XADD with MAXLEN ~: the next chunk in order; old entries may go, as     *)
(* long as the cap stays.  The publisher knows of the last id it was told. *)
Publish(copies, answered) ==
  /\ runner \notin {"done", "dead"} /\ settled < produced
  /\ settled' = settled + 1
  /\ log' = log \o [i \in 1 .. copies |-> settled + 1]
  /\ latest' = IF answered THEN Len(log') ELSE latest
  /\ unheard' = IF answered THEN unheard ELSE unheard \cup (Len(log) + 1 .. Len(log'))
  /\ first' \in {first} \cup {f \in first .. Len(log') + 1 - Cap : copies > 0}
  /\ overrun' = (overrun \/ Lagging(first'))
  /\ UNCHANGED <<produced, runner, row, saved, view, conn, wire>>

Append1       == Publish(1, TRUE) /\ UNCHANGED bounds
AppendRepeats == Publish(2, TRUE) /\ Fault /\ UNCHANGED drops  \* an answer is lost and ioredis sends it again

(* ioredis gives up: logged once, and the next chunk is sent.  Redis has   *)
(* the chunk, even twice, if what was lost were the answers.               *)
AppendFails == \E copies \in 0 .. 2 : Publish(copies, FALSE) /\ Fault /\ UNCHANGED drops

Exit ==
  /\ runner = "runs"
  /\ runner' = "exited"
  /\ UNCHANGED <<produced, appends, first, row, saved, view, conn, wire, overrun, bounds>>

Conclude ==        \* transition, with lastStreamId; not if somebody ended the row before
  /\ runner' = "concluded"
  /\ row' = IF row.over THEN row ELSE [over |-> TRUE, lastId |-> latest, by |-> "runner"]
  /\ UNCHANGED <<produced, appends, first, saved, view, conn, wire, overrun, bounds>>

Finish       == runner = "exited" /\ settled = produced /\ Conclude  \* after flush

Save ==            \* saveTranscript
  /\ runner = "concluded"
  /\ runner' = "closing" /\ saved' = TRUE
  /\ UNCHANGED <<produced, appends, first, row, view, conn, wire, overrun, bounds>>

Throw ==           \* any statement since the exit, the saving included
  /\ runner \in {"exited", "concluded"} /\ Fault
  /\ runner' = "closing"
  /\ UNCHANGED <<produced, appends, first, row, saved, view, conn, wire, overrun, drops>>

ExpireSooner ==    \* a slip: the stream is given up with the row
  /\ runner \in {"concluded", "closing"} /\ settled = produced
  /\ runner' = "done"
  /\ UNCHANGED <<produced, appends, first, row, saved, view, conn, wire, overrun, bounds>>

Expire ==          \* in the finally: flush, then a TTL
  /\ runner = "closing" /\ settled = produced
  /\ runner' = "done"
  /\ UNCHANGED <<produced, appends, first, row, saved, view, conn, wire, overrun, bounds>>

StreamExpires ==
  /\ runner = "done"
  /\ first' = Len(log) + 1 /\ first' # first
  /\ UNCHANGED <<produced, appends, runner, row, saved, view, conn, wire, overrun, bounds>>

RunnerDies ==
  /\ runner \notin {"done", "dead"} /\ Fault
  /\ runner' = "dead"
  /\ UNCHANGED <<produced, appends, first, row, saved, view, conn, wire, overrun, drops>>

EndElsewhere ==    \* reapIfOrphaned, or fail() of the executor
  /\ ~row.over /\ Fault
  /\ row' = [over |-> TRUE, lastId |-> 0, by |-> "other"]
  /\ UNCHANGED <<produced, appends, first, runner, saved, view, conn, wire, overrun, drops>>

-----------------------------------------------------------------------------
\* The gateway: one pump per socket

Send(messages) == wire' = wire \o messages

Serve ==           \* the run is looked up; a first connection starts at the oldest entry
  /\ conn.at = "serve"
  /\ IF conn.cursor = 0
     THEN conn' = [conn EXCEPT !.at = "read"] /\ Send(<<Ready(FALSE)>>)
     ELSE conn' = [conn EXCEPT !.at = "range"] /\ UNCHANGED wire
  /\ UNCHANGED <<output, view, overrun, bounds>>

ResumeAnyway ==    \* a slip: the oldest entry is not looked at
  /\ conn.at = "range"
  /\ conn' = [conn EXCEPT !.at = "read"] /\ Send(<<Ready(FALSE)>>)
  /\ UNCHANGED <<output, view, overrun, bounds>>

CheckOldest ==     \* XRANGE: a gap if the oldest entry is past what the client saw
  LET gap == Stream # {} /\ first > conn.cursor IN
  /\ conn.at = "range"
  /\ conn' = [at |-> "read", cursor |-> IF gap THEN 0 ELSE conn.cursor]
  /\ Send(<<Ready(gap)>>)
  /\ UNCHANGED <<output, view, overrun, bounds>>

ReadAgain ==       \* a slip: the cursor stays behind by one
  LET oldest == IF conn.cursor < first THEN first ELSE conn.cursor + 1 IN
  /\ conn.at = "read" /\ oldest <= Len(log)
  /\ Send([i \in 1 .. Len(log) + 1 - oldest |-> Frame(oldest + i - 1)])
  /\ conn' = [conn EXCEPT !.cursor = Len(log) - 1]
  /\ UNCHANGED <<output, view, overrun, bounds>>

ReadEntries ==     \* XREAD: whatever came after the cursor
  LET oldest == IF conn.cursor < first THEN first ELSE conn.cursor + 1 IN
  /\ conn.at = "read" /\ oldest <= Len(log)
  /\ Send([i \in 1 .. Len(log) + 1 - oldest |-> Frame(oldest + i - 1)])
  /\ conn' = [conn EXCEPT !.cursor = Len(log)]
  /\ UNCHANGED <<output, view, overrun, bounds>>

ReadNothing ==     \* BLOCK runs out
  /\ conn.at = "read" /\ \A id \in Stream : id <= conn.cursor
  /\ conn' = [conn EXCEPT !.at = "status"]
  /\ UNCHANGED <<output, view, wire, overrun, bounds>>

ReadStatus ==
  /\ conn.at = "status"
  /\ IF row.over
     THEN conn' = NoConn /\ Send(<<End>>)
     ELSE conn' = [conn EXCEPT !.at = "read"] /\ UNCHANGED wire
  /\ UNCHANGED <<output, view, overrun, bounds>>

GatewayFails ==    \* a statement throws: the client is told the stream ended
  /\ conn.at # "none" /\ Fault
  /\ conn' = NoConn /\ Send(<<End>>)
  /\ UNCHANGED <<output, view, overrun, drops>>

-----------------------------------------------------------------------------
\* The browser: the page, its socket and its terminal

HangUp(socket) == client' = [client EXCEPT !.is = socket] /\ conn' = NoConn /\ wire' = <<>>

Open ==            \* decided once: the stream of a live run, or the transcript
  /\ page = "opening"
  /\ page' = IF row.over THEN "history" ELSE "live"
  /\ UNCHANGED <<output, client, screen, conn, wire, overrun, bounds>>

Poll ==            \* the record says the run is over: the effect is torn down
  /\ page = "live" /\ row.over
  /\ page' = "watched"
  /\ HangUp("stopped")
  /\ UNCHANGED <<output, screen, overrun, bounds>>

Reload ==          \* everything the page knew is gone
  /\ page # "opening" /\ Drop
  /\ page' = "opening" /\ screen' = <<>>
  /\ client' = [is |-> "closed", last |-> 0, attempts |-> 0]
  /\ conn' = NoConn /\ wire' = <<>>
  /\ UNCHANGED <<output, overrun, faults>>

Connect ==         \* with the hello, which carries the last id
  /\ page = "live" /\ client.is = "closed"
  /\ client' = [client EXCEPT !.is = "open", !.attempts = 0]
  /\ conn' = [at |-> "serve", cursor |-> client.last]
  /\ UNCHANGED <<output, page, screen, wire, overrun, bounds>>

Attempt ==         \* onclose: once more, or not
  IF client.attempts >= MaxReconnects THEN [client EXCEPT !.is = "stopped"]
  ELSE [client EXCEPT !.is = "closed", !.attempts = @ + 1]

ConnectFails ==
  /\ page = "live" /\ client.is = "closed" /\ Drop
  /\ client' = Attempt
  /\ UNCHANGED <<output, page, screen, conn, wire, overrun, faults>>

LeaveBroken ==     \* a slip: onclose does not connect again
  /\ client.is = "open" /\ Drop
  /\ HangUp("stopped")
  /\ UNCHANGED <<output, page, screen, overrun, faults>>

Break ==           \* network, proxy or a redeploy: what is under way is lost
  /\ client.is = "open" /\ Drop
  /\ client' = Attempt /\ conn' = NoConn /\ wire' = <<>>
  /\ UNCHANGED <<output, page, screen, overrun, faults>>

Receive ==
  LET message == Head(wire) IN
  /\ client.is = "open" /\ wire # <<>>
  /\ wire' = Tail(wire)
  /\ \/ /\ message.is = "frame"
        /\ client' = [client EXCEPT !.last = message.id]
        /\ screen' = Append(screen, message.id)
     \/ /\ message.is = "ready"
        /\ screen' = IF message.gap THEN <<>> ELSE screen
        /\ UNCHANGED client
     \/ /\ message.is = "end"
        /\ client' = [client EXCEPT !.is = "stopped"]
        /\ UNCHANGED screen
  /\ UNCHANGED <<output, page, conn, overrun, bounds>>

-----------------------------------------------------------------------------

Init ==
  /\ produced = 0 /\ settled = 0 /\ log = <<>> /\ latest = 0 /\ unheard = {} /\ first = 1
  /\ runner = "runs" /\ row = [over |-> FALSE, lastId |-> 0, by |-> "nobody"] /\ saved = FALSE
  /\ page = "opening" /\ client = [is |-> "closed", last |-> 0, attempts |-> 0] /\ screen = <<>>
  /\ conn = NoConn /\ wire = <<>> /\ overrun = FALSE
  /\ drops = 0 /\ faults = 0

Runner  == Append1 \/ Finish \/ Save \/ Expire
Gateway == Serve \/ CheckOldest \/ ReadEntries \/ ReadNothing \/ ReadStatus
Trouble == AppendFails \/ AppendRepeats \/ Throw \/ RunnerDies \/ EndElsewhere
           \/ GatewayFails \/ Reload \/ ConnectFails \/ Break

Next ==
  \/ Output \/ Exit \/ StreamExpires \/ Open \/ Poll
  \/ Runner \/ Gateway \/ Connect \/ Receive \/ Trouble

Spec == Init /\ [][Next]_vars

(* Whoever holds a promise or a socket goes on; the script need not end and *)
(* a page in the background need not poll.                                  *)
FairSpec ==
  Spec /\ WF_vars(Runner) /\ WF_vars(Gateway) /\ WF_vars(Connect) /\ WF_vars(Receive)

-----------------------------------------------------------------------------
\* Properties

TypeOK ==
  /\ produced \in 0 .. MaxChunks /\ settled \in 0 .. produced
  /\ log \in Seq(1 .. MaxChunks) /\ first \in 1 .. Len(log) + 1
  /\ latest \in 0 .. Len(log) /\ unheard \subseteq 1 .. Len(log)
  /\ runner \in {"runs", "exited", "concluded", "closing", "done", "dead"}
  /\ row \in [over : BOOLEAN, lastId : Nat, by : {"nobody", "runner", "other"}] /\ saved \in BOOLEAN
  /\ page \in {"opening", "live", "history", "watched"}
  /\ client \in Socket /\ screen \in Seq(Nat \ {0})
  /\ conn \in Conn /\ wire \in Seq(Message) /\ overrun \in BOOLEAN
  /\ client.is # "open" => conn = NoConn /\ wire = <<>>
  /\ drops \in 0 .. MaxDrops /\ faults \in 0 .. MaxFaults

(* The terminal shows entries in the order they were written, and none     *)
(* twice, across any number of reconnects and replays (ADR-006).           *)
InOrderOnce == \A i, j \in DOMAIN screen : i < j => screen[i] < screen[j]

(* Two entries on the terminal that do not join up do so because a trim    *)
(* overtook a reader in mid-stream; a client that resumes is told, and its *)
(* terminal is cleared (gateway.ts 119-131).                               *)
HolesAreAnnounced ==
  \A i \in DOMAIN screen : i > 1 /\ screen[i] # screen[i - 1] + 1 => overrun

(* Whatever the client did not see up to where it is, Redis has no more.   *)
NothingIsSkipped == \A i \in DOMAIN screen : \A id \in 1 .. screen[i] : id \in Shown \/ id < first

(* The last id that the runner writes to the row stays the last one it was *)
(* told of: whatever is in the stream after it, then or later, are entries *)
(* whose answer was lost (publisher.ts 51, execute.ts 246 and 270).        *)
LastIdIsLast ==
  row.by = "runner" =>
    /\ row.lastId \in (0 .. Len(log)) \ unheard
    /\ row.lastId + 1 .. Len(log) \subseteq unheard

(* The stream may expire because the history is in the transcript by then  *)
(* (execute.ts 288, publisher.ts expire).                                  *)
HistoryOutlivesTheStream == log # <<>> /\ Stream = {} => saved \/ faults > 0

(* While the run goes on, a page that watches it gets to see each entry,   *)
(* if Redis keeps it and the client has not given up or been sent away by  *)
(* a failure.                                                              *)
WatcherCatchesUp ==
  \A id \in 1 .. MaxChunks + MaxFaults :
    page = "live" /\ id \in Stream ~>
      \/ id \in Shown \/ id < first
      \/ page # "live" \/ row.over
      \/ client.is = "stopped" /\ (faults > 0 \/ client.attempts >= MaxReconnects)

=============================================================================
