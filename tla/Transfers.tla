------------------------------- MODULE Transfers -------------------------------
(***************************************************************************)
(* Result files on their way from a script VM to a browser (FA-09): the    *)
(* control plane puts a request on the queue, a slot of the runner pushes  *)
(* the file into a reply list frame by frame, and whoever asked drains it: *)
(* a download, a preview, or an archive of several files, one after the    *)
(* other.                                                                  *)
(*                                                                         *)
(* Nothing holds the runner back while a browser is slow.  A reply is gone *)
(* 120 s after its last frame, a request nobody answers is given up after  *)
(* 30 s and a body that stops after 60 s; the runner may die at any push.  *)
(***************************************************************************)
EXTENDS Naturals, Sequences

CONSTANTS
  Client,       \* browsers, each of which asks for one thing
  Slot,         \* RPC_SLOTS
  File,         \* files that the collector recorded
  Initial,      \* how many chunks each file has at first
  MaxLength,    \* chunks a file may have
  DownloadCap,  \* MAX_DOWNLOAD_BYTES, in chunks
  PreviewCap,   \* maxBytes of a preview, in chunks
  MaxRequests,  \* bound: requests put on the queue
  MaxEvents     \* bound: failures, changes of a file, cancellations

ASSUME FileAssumption  == /\ Initial \in [File -> 0..MaxLength]
                          /\ {MaxLength, DownloadCap, PreviewCap} \subseteq Nat
ASSUME BoundAssumption == {MaxRequests, MaxEvents} \subseteq Nat

VARIABLES
  disk,       \* whether each file is there, its length and its version
  queue,      \* requests no slot has taken
  asked,      \* the file and the ceiling of each request so far
  slot,       \* what each slot is doing
  reply,      \* the list of frames of each request, and whether it will expire
  client,     \* what each browser asked for and has got
  lapsed, stirred, struck,  \* history: replies that expired; requests whose
                            \* file changed under the slot, or whose slot died
                            \* between a frame and its expiry
  events      \* how much of the bound is used up

ghosts == <<lapsed, stirred, struck>>
vars   == <<disk, queue, asked, slot, reply, client, ghosts, events>>

Id      == 1..MaxRequests
Kind    == {"download", "preview", "archive"}
Version == [there : BOOLEAN, length : 0..MaxLength, number : Nat]
Frame   == [is : {"header", "chunk", "end", "error"}, file : File,
            n : Nat, number : Nat, cut : BOOLEAN]
Busy     == {"connect", "header", "read", "end"}
IdleSlot == [at |-> "idle"]
NoReply  == [frames |-> <<>>, expires |-> FALSE]

(* What is known of the file being read, and of those an archive holds.    *)
Part    == [id : Id, file : File, n : Nat, number : Nat, cut : BOOLEAN, got : Seq(Frame)]
Ready   == [at |-> "idle"]

Event       == events < MaxEvents /\ events' = events + 1
Smaller(a, b) == IF a < b THEN a ELSE b
Frames(id)  == reply[id].frames
Is(c, where) == client[c].at = where
Become(c, r) == client' = [client EXCEPT ![c] = r]
Go(c, where) == client' = [client EXCEPT ![c].at = where]
Failed(c)    == Go(c, "failed")

-----------------------------------------------------------------------------
\* The runner: serve, readFile, Reply

PutOnce(id, frame) ==    \* a slip: the expiry is set with the first frame only
  [frames |-> Append(Frames(id), frame), expires |-> reply[id].expires \/ frame.is = "header"]

Put(id, frame) == [frames |-> Append(Frames(id), frame), expires |-> TRUE]

Stripped(id, frame) == [frames |-> Append(Frames(id), frame), expires |-> reply[id].expires]

Push(s, frame) == reply' = [reply EXCEPT ![slot[s].id] = Put(slot[s].id, frame)]
Turn(s, doing) == slot' = [slot EXCEPT ![s] = doing]
Of(s)          == asked[slot[s].id]

CutAtTheCeiling(s) ==    \* a slip: a file that ends at the ceiling is cut
  slot[s].seen.length >= Of(s).cap

Cut(s)  == slot[s].seen.length > Of(s).cap
Left(s) == slot[s].next <= Smaller(disk[Of(s).file].length, Of(s).cap)

(* The frame that comes next.                                              *)
Plain(s, is) == [is |-> is, file |-> Of(s).file, n |-> 0, number |-> 0, cut |-> FALSE]
Following(s) ==
  CASE slot[s].at = "header" -> [Plain(s, "header") EXCEPT !.n = slot[s].seen.length,
                                   !.number = slot[s].seen.number, !.cut = Cut(s)]
    [] slot[s].at = "read" /\ Left(s) -> [Plain(s, "chunk") EXCEPT !.n = slot[s].next,
                                            !.number = disk[Of(s).file].number]
    [] OTHER -> Plain(s, "end")

Take(s) ==
  /\ slot[s].at = "idle" /\ queue # <<>>
  /\ Turn(s, [at |-> "connect", id |-> Head(queue)])
  /\ queue' = Tail(queue)
  /\ UNCHANGED <<disk, asked, reply, client, ghosts, events>>

(* The stat decides; a file that is not there is said to be missing, and   *)
(* the reply ended as any other.  An empty file is a header and an end.    *)
Look(s) ==
  /\ slot[s].at = "connect"
  /\ IF ~disk[Of(s).file].there
     THEN Push(s, Plain(s, "error")) /\ Turn(s, [slot[s] EXCEPT !.at = "end"])
     ELSE /\ Turn(s, [at |-> "header", id |-> slot[s].id, seen |-> disk[Of(s).file], next |-> 1])
          /\ UNCHANGED reply
  /\ UNCHANGED <<disk, queue, asked, client, ghosts, events>>

Send(s) ==
  /\ slot[s].at \in {"header", "read", "end"}
  /\ Push(s, Following(s))
  /\ CASE Following(s).is = "header" -> Turn(s, [slot[s] EXCEPT !.at = "read"])
       [] Following(s).is = "chunk"  -> Turn(s, [slot[s] EXCEPT !.next = @ + 1])
       [] Following(s).is = "end"    -> Turn(s, IdleSlot)
  /\ UNCHANGED <<disk, queue, asked, client, ghosts, events>>

(* No connection, or one that broke.                                       *)
ServeThrows(s) ==
  /\ slot[s].at \in Busy /\ Event
  /\ Push(s, Plain(s, "error"))
  /\ Turn(s, IdleSlot)
  /\ UNCHANGED <<disk, queue, asked, client, ghosts>>

(* The process dies, and with it what every slot was doing; perhaps with a *)
(* frame pushed whose expiry was not set.                                  *)
Crash ==
  /\ Event
  /\ \/ UNCHANGED <<reply, struck>>
     \/ \E s \in Slot :
          /\ slot[s].at \in {"header", "read", "end"}
          /\ reply' = [reply EXCEPT ![slot[s].id] = Stripped(slot[s].id, Following(s))]
          /\ struck' = struck \cup {slot[s].id}
  /\ slot' = [s \in Slot |-> IdleSlot]
  /\ UNCHANGED <<disk, queue, asked, client, lapsed, stirred>>

(* Redis: a list nobody pushed to for 120 s.  The first frame is taken as  *)
(* it comes, and so is a preview; any other body is drained as fast as the *)
(* browser is.                                                             *)
Lapse(id) ==
  /\ Frames(id) # <<>> /\ reply[id].expires
  /\ \A c \in Client :
       Is(c, "first") \/ (Is(c, "body") /\ client[c].kind = "preview") => client[c].id # id
  /\ reply' = [reply EXCEPT ![id] = NoReply]
  /\ lapsed' = lapsed \cup {id}
  /\ UNCHANGED <<disk, queue, asked, slot, client, stirred, struck, events>>

-----------------------------------------------------------------------------
\* The control plane: resultService and readFile of the runner's client

Ask(c) ==
  /\ Is(c, "idle")
  /\ \E kind \in Kind, wanted \in (SUBSET File) \ {{}} :
       /\ kind # "archive" => \A f, g \in wanted : f = g
       /\ Become(c, [at |-> "next", kind |-> kind, wanted |-> wanted, parts |-> {}])
  /\ UNCHANGED <<disk, queue, asked, slot, reply, ghosts, events>>

Missing(c) == client[c].wanted \ {p.file : p \in client[c].parts}

(* The next request: its reply list has a name of its own.                 *)
Request(c) ==
  LET cap == IF client[c].kind = "preview" THEN PreviewCap ELSE DownloadCap IN
  /\ Is(c, "next") /\ Len(asked) < MaxRequests
  /\ \E f \in Missing(c) :
       /\ asked' = Append(asked, [file |-> f, cap |-> cap])
       /\ queue' = Append(queue, Len(asked'))
       /\ Become(c, [at |-> "first", kind |-> client[c].kind, wanted |-> client[c].wanted,
                     parts |-> client[c].parts, id |-> Len(asked'), file |-> f])
  /\ UNCHANGED <<disk, slot, reply, ghosts, events>>

RequestFails(c) ==       \* Redis does not take it
  /\ Is(c, "next") /\ Missing(c) # {} /\ Event
  /\ Failed(c)
  /\ UNCHANGED <<disk, queue, asked, slot, reply, ghosts>>

(* A list that was emptied is gone, and its expiry with it.                *)
Popped(id) ==
  reply' = [reply EXCEPT ![id] = [frames  |-> Tail(Frames(id)),
                                  expires |-> Len(Frames(id)) > 1 /\ reply[id].expires]]

FirstFrame(c) ==
  LET r == client[c]
      frame == Head(Frames(r.id)) IN
  /\ Is(c, "first") /\ Frames(r.id) # <<>>
  /\ Popped(r.id)
  /\ IF frame.is = "header"
     THEN Become(c, [at |-> IF r.kind = "download" THEN "audit" ELSE "body",
                     kind |-> r.kind, wanted |-> r.wanted, parts |-> r.parts, id |-> r.id,
                     file |-> r.file, n |-> frame.n, number |-> frame.number,
                     cut |-> frame.cut, got |-> <<>>])
     ELSE Failed(c)
  /\ UNCHANGED <<disk, queue, asked, slot, ghosts, events>>

(* A download is recorded when it is handed over, or it is not handed over.*)
RecordDownload(c) ==
  /\ Is(c, "audit")
  /\ \/ Go(c, "body") /\ UNCHANGED events
     \/ Failed(c) /\ Event
  /\ UNCHANGED <<disk, queue, asked, slot, reply, ghosts>>

(* A browser that was told the length notices that bytes are missing.      *)
Accepts(r) == r.kind = "download" /\ ~r.cut => Len(r.got) = r.n

AsPart(r) == [id |-> r.id, file |-> r.file, n |-> r.n, number |-> r.number,
              cut |-> r.cut, got |-> r.got]

Pull(c) ==
  LET r == client[c]
      frame == Head(Frames(r.id)) IN
  /\ Is(c, "body") /\ Frames(r.id) # <<>>
  /\ Popped(r.id)
  /\ CASE frame.is = "error" -> Failed(c)
       [] frame.is = "end" ->
            Become(c, [at |-> IF ~Accepts(r) THEN "failed"
                              ELSE IF r.kind = "archive" THEN "next" ELSE "complete",
                       kind |-> r.kind, wanted |-> r.wanted,
                       parts |-> r.parts \cup {AsPart(r)}])
       [] OTHER -> Become(c, [r EXCEPT !.got = Append(@, frame)])
  /\ UNCHANGED <<disk, queue, asked, slot, ghosts, events>>

GiveUpAtFirst(c) ==      \* a slip: no timeout once the body has begun
  /\ Is(c, "first") /\ Frames(client[c].id) = <<>>
  /\ Failed(c)
  /\ UNCHANGED <<disk, queue, asked, slot, reply, ghosts, events>>

(* 30 s without a first frame, 60 s without another one.                   *)
GiveUp(c) ==
  /\ client[c].at \in {"first", "body"} /\ Frames(client[c].id) = <<>>
  /\ Failed(c)
  /\ UNCHANGED <<disk, queue, asked, slot, reply, ghosts, events>>

Finalize(c) ==
  /\ Is(c, "next") /\ Missing(c) = {}
  /\ Go(c, "complete")
  /\ UNCHANGED <<disk, queue, asked, slot, reply, ghosts, events>>

Cancel(c) ==             \* the browser goes elsewhere; the runner is not told
  /\ Is(c, "body") /\ client[c].kind # "preview" /\ Event
  /\ Go(c, "cancelled")
  /\ UNCHANGED <<disk, queue, asked, slot, reply, ghosts>>

-----------------------------------------------------------------------------
\* A later run, or a person, at the output directory

Change(f, length) ==
  /\ Event
  /\ \E there \in BOOLEAN :
       /\ there \/ length = 0
       /\ disk' = [disk EXCEPT ![f] = [there |-> there, length |-> length,
                                      number |-> disk[f].number + 1]]
  /\ stirred' = stirred \cup {slot[s].id : s \in {t \in Slot : /\ slot[t].at \in {"header", "read"}
                                                               /\ asked[slot[t].id].file = f}}
  /\ UNCHANGED <<queue, asked, slot, reply, client, lapsed, struck>>

Init ==
  /\ disk = [f \in File |-> [there |-> TRUE, length |-> Initial[f], number |-> 0]]
  /\ queue = <<>> /\ asked = <<>>
  /\ slot = [s \in Slot |-> IdleSlot]
  /\ reply = [id \in Id |-> NoReply]
  /\ client = [c \in Client |-> Ready]
  /\ lapsed = {} /\ stirred = {} /\ struck = {}
  /\ events = 0

Serve(s) == Take(s) \/ Look(s) \/ Send(s)
Carry(c) == Request(c) \/ FirstFrame(c) \/ RecordDownload(c) \/ Pull(c) \/ GiveUp(c) \/ Finalize(c)

Next ==
  \/ \E s \in Slot : Serve(s) \/ ServeThrows(s)
  \/ Crash
  \/ \E id \in Id : Lapse(id)
  \/ \E c \in Client : Ask(c) \/ Carry(c) \/ RequestFails(c) \/ Cancel(c)
  \/ \E f \in File, length \in 0..MaxLength : Change(f, length)

Spec == Init /\ [][Next]_vars

(* A slot and a request handler go on, a timeout comes, a list expires.    *)
FairSpec == /\ Spec
            /\ \A s \in Slot : WF_vars(Serve(s))
            /\ \A c \in Client : WF_vars(Carry(c))
            /\ \A id \in Id : WF_vars(Lapse(id))

-----------------------------------------------------------------------------
(* What a browser that was told of no error has is what it asked for: each *)
(* file, all of it from the first chunk to the last as it was when it was  *)
(* looked at, or up to the ceiling, and then its header says that it was   *)
(* cut.  A file may change while it is read, and where no length was       *)
(* promised nobody can tell that a part of the reply expired (readFile;    *)
(* "a ZIP that silently omits a file is worse than one that visibly        *)
(* fails").                                                                *)
CompleteIsWhole ==
  \A c \in Client : Is(c, "complete") =>
    /\ {p.file : p \in client[c].parts} = client[c].wanted
    /\ \A p \in client[c].parts :
         LET r == asked[p.id] IN
         /\ p.cut = (p.n > r.cap)
         /\ \/ p.id \in stirred
            \/ p.id \in lapsed /\ (p.cut \/ client[c].kind = "archive")
            \/ p.got = [i \in 1..Smaller(p.n, r.cap) |->
                          [is |-> "chunk", file |-> p.file, n |-> i,
                           number |-> p.number, cut |-> FALSE]]

(* "Refreshed on every frame rather than set once: a slow download must    *)
(* not have its own reply expire underneath it": what the runner has       *)
(* pushed to the end is there until the browser has drained it.            *)
SlowIsServed ==
  \A c \in Client :
    Is(c, "body") /\ (\A s \in Slot : slot[s].at = "idle") => client[c].id \notin lapsed

(* Every transfer ends, one way or another, whatever becomes of the runner *)
(* (nextFrame, and the loop over the entries of an archive).               *)
TransferEnds ==
  \A c \in Client :
    ~Is(c, "idle") ~> \/ client[c].at \in {"complete", "failed", "cancelled"}
                      \/ Is(c, "next") /\ Len(asked) = MaxRequests   \* the bound

(* "The reply list expires on its own": what nobody drains does not stay,  *)
(* whenever the reader left and whatever the runner still pushed (Reply,   *)
(* cancel); unless the runner died between a frame and its expiry.         *)
RepliesGoAway ==
  \A id \in Id : Frames(id) # <<>> /\ id \notin struck ~> Frames(id) = <<>> \/ id \in struck
================================================================================
