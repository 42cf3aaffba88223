---------------------------- MODULE TransfersProofs ----------------------------
(***************************************************************************)
(* What a transfer delivers, for any number of browsers, slots, files and  *)
(* requests: what a browser holds as complete is what it asked for.        *)
(*                                                                         *)
(* The invariant looks at the stream of a browser: the header and the      *)
(* chunks it has taken, and behind them the frames that still wait in the  *)
(* reply list.  The stream only grows at its end, by what the slot pushes, *)
(* and loses its tail when the list expires; the browser's own steps move  *)
(* the border between what is taken and what waits.                        *)
(***************************************************************************)
EXTENDS Transfers, SequenceTheorems, TLAPS

-----------------------------------------------------------------------------
\* Types, and what the operators of the model return

(* What a request, a slot, a reply and a browser may be.                   *)
Asking   == [file : File, cap : {PreviewCap, DownloadCap}]
Doing    == [at : {"idle"}]
            \cup [at : {"connect", "end"}, id : Id]
            \cup [at : {"header", "read"}, id : Id, seen : Version, next : Nat \ {0}]
Answer   == [frames : Seq(Frame), expires : BOOLEAN]
Choosing == [at : {"next", "complete", "failed"}, kind : Kind, wanted : SUBSET File,
             parts : SUBSET Part]
Waiting  == [at : {"first", "failed"}, kind : Kind, wanted : SUBSET File,
             parts : SUBSET Part, id : Id, file : File]
Reading  == [at : {"audit", "body", "failed", "cancelled"}, kind : Kind, wanted : SUBSET File,
             parts : SUBSET Part, id : Id, file : File, n : Nat, number : Nat, cut : BOOLEAN,
             got : Seq(Frame)]
Browsing == {Ready} \cup Choosing \cup Waiting \cup Reading

(* A slot that serves somebody, and a browser whose request is on its way. *)
Works(s)  == slot[s].at \in Busy
Active(c) == client[c].at \in {"first", "audit", "body"}

DiskOK    == disk \in [File -> Version]
LineOK    == /\ queue \in Seq(Id) /\ asked \in Seq(Asking) /\ Len(asked) <= MaxRequests
             /\ \A s \in Slot : Works(s) => slot[s].id \in 1..Len(asked)
             /\ \A i \in 1..Len(queue) : queue[i] \in 1..Len(asked)
SlotOK    == slot \in [Slot -> Doing]
ReplyOK   == reply \in [Id -> Answer]
ClientOK  == client \in [Client -> Browsing]
HistoryOK == /\ lapsed \subseteq Id /\ stirred \subseteq Id /\ struck \subseteq Id
             /\ events \in Nat
TypeInv  == DiskOK /\ LineOK /\ SlotOK /\ ReplyOK /\ ClientOK /\ HistoryOK

LEMMA SmallerIs ==
  ASSUME NEW a \in Nat, NEW b \in Nat
  PROVE  Smaller(a, b) \in Nat /\ Smaller(a, b) <= a /\ Smaller(a, b) <= b /\ (a <= b => Smaller(a, b) = a)
  BY DEF Smaller

(* A slot at work serves a request that was made.                          *)
LEMMA OfOK ==
  ASSUME LineOK, SlotOK, NEW s \in Slot, Works(s)
  PROVE  slot[s].id \in Id /\ slot[s].id \in 1..Len(asked) /\ Of(s) \in Asking
<1>1. slot[s].id \in 1..Len(asked) /\ Len(asked) \in Nat /\ Len(asked) <= MaxRequests /\ MaxRequests \in Nat
  BY BoundAssumption DEF LineOK
<1>2. Of(s) \in Asking
  BY <1>1 DEF LineOK, Of
<1>. QED
  BY <1>1, <1>2 DEF Id

LEMMA AskingIs ==
  ASSUME NEW a \in Asking PROVE a.file \in File /\ a.cap \in Nat
  BY FileAssumption DEF Asking

LEMMA VersionIs ==
  ASSUME NEW v \in Version PROVE v.length \in Nat /\ v.number \in Nat /\ v.length <= MaxLength
  BY FileAssumption DEF Version

(* What the place of a slot, or of a browser, says of its record.          *)
LEMMA SlotIs ==
  ASSUME SlotOK, NEW s \in Slot
  PROVE  /\ slot[s].at \in Busy \cup {"idle"}
         /\ slot[s].at \in {"connect", "end"} => slot[s] \in [at : {"connect", "end"}, id : Id]
         /\ slot[s].at \in {"header", "read"} =>
              slot[s] \in [at : {"header", "read"}, id : Id, seen : Version, next : Nat \ {0}]
  BY DEF SlotOK, Doing, Busy

LEMMA ClientIs ==
  ASSUME ClientOK, NEW c \in Client
  PROVE  /\ client[c].at \in {"next", "complete"} => client[c] \in Choosing
         /\ client[c].at = "first" => client[c] \in Waiting
         /\ client[c].at \in {"audit", "body"} => client[c] \in Reading
         /\ client[c].at \in {"idle", "next", "complete", "failed", "first", "audit", "body", "cancelled"}
  BY DEF ClientOK, Browsing, Choosing, Waiting, Reading, Ready

LEMMA ErrorFrame ==
  ASSUME LineOK, SlotOK, NEW s \in Slot, Works(s), NEW is \in {"header", "chunk", "end", "error"}
  PROVE  Plain(s, is) \in Frame
  BY OfOK, AskingIs DEF Plain, Frame

(* The three frames a slot may push next.                                  *)
LEMMA FollowingIs ==
  ASSUME DiskOK, LineOK, SlotOK, NEW s \in Slot, slot[s].at \in {"header", "read", "end"}
  PROVE  /\ Works(s)
         /\ Following(s) \in Frame
         /\ slot[s].at = "header" =>
              Following(s) = [is |-> "header", file |-> Of(s).file, n |-> slot[s].seen.length,
                              number |-> slot[s].seen.number, cut |-> Cut(s)]
         /\ slot[s].at = "read" /\ Left(s) =>
              Following(s) = [is |-> "chunk", file |-> Of(s).file, n |-> slot[s].next,
                              number |-> disk[Of(s).file].number, cut |-> FALSE]
         /\ slot[s].at = "end" \/ (slot[s].at = "read" /\ ~Left(s)) => Following(s) = Plain(s, "end")
<1>1. Works(s)
  BY DEF Works, Busy
<1>2. Of(s).file \in File /\ Of(s).cap \in Nat
  BY <1>1, OfOK, AskingIs
<1>3. CASE slot[s].at = "header"
  <2>1. Following(s) = [is |-> "header", file |-> Of(s).file, n |-> slot[s].seen.length,
                              number |-> slot[s].seen.number, cut |-> Cut(s)]
    BY <1>3 DEF Following, Plain
  <2>2. slot[s].seen \in Version
    BY <1>3, SlotIs
  <2>3. Cut(s) \in BOOLEAN
    BY DEF Cut
  <2>4. slot[s].seen.length \in Nat /\ slot[s].seen.number \in Nat
    BY <2>2, VersionIs
  <2>5. Following(s) \in Frame
    BY <1>2, <2>1, <2>3, <2>4 DEF Frame
  <2>. QED
    BY <1>1, <1>3, <2>1, <2>5
<1>4. CASE slot[s].at = "read" /\ Left(s)
  <2>1. Following(s) = [is |-> "chunk", file |-> Of(s).file, n |-> slot[s].next,
                              number |-> disk[Of(s).file].number, cut |-> FALSE]
    BY <1>4 DEF Following, Plain
  <2>2. disk[Of(s).file] \in Version
    BY <1>2 DEF DiskOK
  <2>3. slot[s].next \in Nat
    BY <1>4, SlotIs
  <2>4. disk[Of(s).file].number \in Nat
    BY <2>2, VersionIs
  <2>5. Following(s) \in Frame
    BY <1>2, <2>1, <2>3, <2>4 DEF Frame
  <2>. QED
    BY <1>1, <1>4, <2>1, <2>5
<1>5. CASE slot[s].at = "end" \/ (slot[s].at = "read" /\ ~Left(s))
  <2>1. Following(s) = Plain(s, "end")
    BY <1>5 DEF Following
  <2>. QED
    BY <1>1, <1>5, <2>1, ErrorFrame
<1>. QED
  BY <1>3, <1>4, <1>5

LEMMA AnswerIs ==
  ASSUME ReplyOK, NEW id \in Id
  PROVE  Frames(id) \in Seq(Frame) /\ reply[id].expires \in BOOLEAN
  BY DEF ReplyOK, Answer, Frames

(* A push adds one frame to one list; a pop takes one off.                 *)
LEMMA PushOK ==
  ASSUME ReplyOK, NEW id \in Id, NEW frame \in Frame,
         \/ reply' = [reply EXCEPT ![id] = Put(id, frame)]
         \/ reply' = [reply EXCEPT ![id] = Stripped(id, frame)]
  PROVE  /\ ReplyOK'
         /\ reply'[id].frames = Append(Frames(id), frame)
         /\ \A j \in Id : j # id => reply'[j].frames = Frames(j)
<1>1. Append(Frames(id), frame) \in Seq(Frame)
  BY AnswerIs
<1>2. /\ Put(id, frame) \in Answer /\ Put(id, frame).frames = Append(Frames(id), frame)
      /\ Stripped(id, frame) \in Answer /\ Stripped(id, frame).frames = Append(Frames(id), frame)
  BY <1>1, AnswerIs DEF Put, Stripped, Answer
<1>3. ReplyOK'
  BY <1>2 DEF ReplyOK
<1>. QED
  BY <1>2, <1>3 DEF ReplyOK, Frames

LEMMA PopOK ==
  ASSUME ReplyOK, NEW id \in Id, Frames(id) # <<>>, Popped(id)
  PROVE  /\ ReplyOK'
         /\ reply'[id].frames = Tail(Frames(id))
         /\ \A j \in Id : j # id => reply'[j].frames = Frames(j)
<1>1. Frames(id) \in Seq(Frame) /\ reply[id] \in Answer /\ reply \in [Id -> Answer]
  BY AnswerIs DEF ReplyOK
<1>2. Tail(Frames(id)) \in Seq(Frame) /\ (Len(Frames(id)) = 1 => Tail(Frames(id)) = <<>>)
  <2>1. /\ Tail(Frames(id)) \in Seq(Frame)
        /\ Len(Tail(Frames(id))) = Len(Frames(id)) - 1
    BY <1>1, HeadTailProperties
  <2>2. Len(Tail(Frames(id))) = 0 => Tail(Frames(id)) = <<>>
    BY <2>1, EmptySeq
  <2>. QED
    BY <2>1, <2>2
<1>3. [frames |-> Tail(Frames(id)), expires |-> Len(Frames(id)) > 1 /\ reply[id].expires] \in Answer
  BY <1>1, <1>2 DEF Answer
<1>4. /\ reply' \in [Id -> Answer] /\ reply'[id].frames = Tail(Frames(id))
      /\ \A j \in Id : j # id => reply'[j] = reply[j]
  BY <1>1, <1>3 DEF Popped
<1>. QED
  BY <1>4 DEF ReplyOK, Frames

-----------------------------------------------------------------------------
\* The steps of a slot

LEMMA BoundsAreNat == MaxRequests \in Nat /\ MaxEvents \in Nat
  BY BoundAssumption

(* The initial state.                                                      *)
LEMMA TypesStart == Init => TypeInv
<1>. SUFFICES ASSUME Init PROVE TypeInv
  OBVIOUS
<1>1. DiskOK
  BY FileAssumption DEF Init, DiskOK, Version
<1>2. LineOK
  <2>1. \A s \in Slot : ~Works(s)
    BY DEF Init, IdleSlot, Works, Busy
  <2>. QED
    BY <2>1, BoundsAreNat DEF Init, LineOK
<1>3. SlotOK
  BY DEF Init, IdleSlot, SlotOK, Doing
<1>4. ReplyOK
  BY DEF Init, NoReply, ReplyOK, Answer
<1>5. ClientOK
  BY DEF Init, ClientOK, Browsing
<1>. QED
  BY <1>1, <1>2, <1>3, <1>4, <1>5 DEF TypeInv, Init, HistoryOK

(* What a slot becomes, and what the others stay.                          *)
LEMMA TurnOK ==
  ASSUME SlotOK, NEW s \in Slot, NEW doing \in Doing, Turn(s, doing)
  PROVE  SlotOK' /\ slot'[s] = doing /\ \A t \in Slot : t # s => slot'[t] = slot[t]
  BY DEF SlotOK, Turn

(* What a browser becomes, and what the others stay.                       *)
LEMMA BecomeOK ==
  ASSUME ClientOK, NEW c \in Client, NEW r \in Browsing, Become(c, r)
  PROVE  ClientOK' /\ client'[c] = r /\ \A d \in Client : d # c => client'[d] = client[d]
  BY DEF ClientOK, Become

LEMMA GoIs ==
  ASSUME ClientOK, NEW c \in Client, NEW where, Go(c, where)
  PROVE  Become(c, [client[c] EXCEPT !.at = where])
  BY DEF Go, Become, ClientOK

(* Whatever a slot becomes, the line stays in order if it keeps its id.    *)
LEMMA LineKept ==
  ASSUME LineOK, UNCHANGED <<queue, asked>>,
         \A s \in Slot : Works(s)' => Works(s) /\ slot'[s].id = slot[s].id
  PROVE  LineOK'
<1>1. \A s \in Slot : Works(s)' => slot'[s].id \in 1..Len(asked)
  BY DEF LineOK
<1>2. \A s \in Slot : Works(s)' => slot'[s].id \in 1..Len(asked')
  BY <1>1
<1>. QED
  BY <1>2 DEF LineOK

(* The head of the queue becomes the request of the slot.                  *)
LEMMA TakeStep ==
  ASSUME TypeInv, NEW s \in Slot, Take(s)
  PROVE  /\ TypeInv'
         /\ slot'[s] = [at |-> "connect", id |-> Head(queue)] /\ Works(s)'
         /\ \A t \in Slot : t # s => slot'[t] = slot[t]
<1> DEFINE doing == [at |-> "connect", id |-> Head(queue)]
<1>1. queue \in Seq(Id) /\ queue # <<>>
  BY DEF Take, TypeInv, LineOK
<1>2. /\ Head(queue) = queue[1] /\ Tail(queue) \in Seq(Id) /\ Len(queue) \in Nat /\ 1 <= Len(queue)
      /\ Len(Tail(queue)) = Len(queue) - 1
      /\ \A i \in 1..Len(Tail(queue)) : Tail(queue)[i] = queue[i + 1] /\ i + 1 \in 1..Len(queue)
  BY <1>1, HeadTailProperties, EmptySeq
<1>3. doing \in Doing
  BY <1>1, <1>2 DEF Doing
<1>4. SlotOK' /\ slot'[s] = doing /\ \A t \in Slot : t # s => slot'[t] = slot[t]
  BY <1>3, TurnOK, Zenon DEF Take, TypeInv
<1>5. Head(queue) \in 1..Len(asked)
  BY <1>2 DEF TypeInv, LineOK
<1>6. LineOK'
  <2>1. queue' = Tail(queue) /\ UNCHANGED asked
    BY DEF Take
  <2>2. \A t \in Slot : Works(t)' => slot'[t].id \in 1..Len(asked)
    BY <1>4, <1>5 DEF TypeInv, LineOK, Works
  <2>. QED
    BY <1>2, <2>1, <2>2 DEF TypeInv, LineOK
<1>7. UNCHANGED <<disk, reply, client, ghosts, events>>
  BY DEF Take
<1>8. Works(s)'
  BY <1>4 DEF Works, Busy
<1>. QED
  BY <1>4, <1>6, <1>7, <1>8 DEF TypeInv, DiskOK, ReplyOK, ClientOK, HistoryOK, ghosts

(* What the stat makes of it.                                              *)
LEMMA LookIs ==
  ASSUME TypeInv, NEW s \in Slot, Look(s)
  PROVE  /\ TypeInv' /\ Works(s) /\ Works(s)'
         /\ slot'[s].id = slot[s].id
         /\ \A t \in Slot : t # s => slot'[t] = slot[t]
         /\ \/ /\ slot'[s].at = "end"
               /\ Plain(s, "error") \in Frame
               /\ reply' = [reply EXCEPT ![slot[s].id] = Put(slot[s].id, Plain(s, "error"))]
            \/ /\ slot'[s] = [at |-> "header", id |-> slot[s].id, seen |-> disk[Of(s).file], next |-> 1]
               /\ UNCHANGED reply
<1>1. Works(s) /\ slot[s] \in [at : {"connect", "end"}, id : Id] /\ slot[s].id \in Id
  BY SlotIs, OfOK DEF Look, TypeInv, Works, Busy
<1>2. Of(s).file \in File /\ disk[Of(s).file] \in Version
  BY <1>1, OfOK, AskingIs DEF TypeInv, DiskOK
<1>3. UNCHANGED <<disk, queue, asked, client, ghosts, events>>
  BY DEF Look
<1>4. CASE ~disk[Of(s).file].there
  <2> DEFINE doing == [slot[s] EXCEPT !.at = "end"]
  <2>1. doing \in Doing /\ doing.at = "end" /\ doing.id = slot[s].id
    BY <1>1 DEF Doing
  <2>2. Turn(s, doing) /\ Push(s, Plain(s, "error"))
    BY <1>4 DEF Look
  <2>3. SlotOK' /\ slot'[s] = doing /\ \A t \in Slot : t # s => slot'[t] = slot[t]
    <3> HIDE DEF doing
    <3>. QED
      BY <2>1, <2>2, TurnOK, Zenon DEF TypeInv
  <2>4. Plain(s, "error") \in Frame
    BY <1>1, ErrorFrame DEF TypeInv
  <2>5. reply' = [reply EXCEPT ![slot[s].id] = Put(slot[s].id, Plain(s, "error"))]
    BY <2>2 DEF Push
  <2>6. ReplyOK'
    BY <1>1, <2>4, <2>5, PushOK DEF TypeInv
  <2>7. slot'[s].at = "end" /\ slot'[s].id = slot[s].id /\ Works(s)'
    BY <2>1, <2>3 DEF Works, Busy
  <2>8. LineOK'
    <3>1. \A t \in Slot : Works(t)' => Works(t) /\ slot'[t].id = slot[t].id
      BY <1>1, <2>3, <2>7 DEF Works
    <3>. QED
      BY <1>3, <3>1, LineKept DEF TypeInv
  <2>. QED
    BY <1>1, <1>3, <2>3, <2>4, <2>5, <2>6, <2>7, <2>8 DEF TypeInv, DiskOK, ClientOK, HistoryOK, ghosts
<1>5. CASE disk[Of(s).file].there
  <2> DEFINE doing == [at |-> "header", id |-> slot[s].id, seen |-> disk[Of(s).file], next |-> 1]
  <2>1. doing \in Doing /\ doing.at = "header" /\ doing.id = slot[s].id
    BY <1>1, <1>2 DEF Doing
  <2>2. Turn(s, doing) /\ UNCHANGED reply
    BY <1>5 DEF Look
  <2>3. SlotOK' /\ slot'[s] = doing /\ \A t \in Slot : t # s => slot'[t] = slot[t]
    <3> HIDE DEF doing
    <3>. QED
      BY <2>1, <2>2, TurnOK, Zenon DEF TypeInv
  <2>7. slot'[s].id = slot[s].id /\ Works(s)'
    BY <2>1, <2>3 DEF Works, Busy
  <2>8. LineOK'
    <3>1. \A t \in Slot : Works(t)' => Works(t) /\ slot'[t].id = slot[t].id
      BY <1>1, <2>3, <2>7 DEF Works
    <3>. QED
      BY <1>3, <3>1, LineKept DEF TypeInv
  <2>. QED
    BY <1>1, <1>3, <2>2, <2>3, <2>7, <2>8 DEF TypeInv, DiskOK, ClientOK, ReplyOK, HistoryOK, ghosts
<1>. QED
  BY <1>4, <1>5

(* A frame is pushed, and the slot goes on or is done.                     *)
LEMMA SendIs ==
  ASSUME TypeInv, NEW s \in Slot, Send(s)
  PROVE  /\ TypeInv' /\ Works(s) /\ slot[s].at \in {"header", "read", "end"}
         /\ \A t \in Slot : t # s => slot'[t] = slot[t]
         /\ reply' = [reply EXCEPT ![slot[s].id] = Put(slot[s].id, Following(s))]
         /\ \/ slot[s].at = "header" /\ slot'[s] = [slot[s] EXCEPT !.at = "read"]
            \/ slot[s].at = "read" /\ Left(s) /\ slot'[s] = [slot[s] EXCEPT !.next = slot[s].next + 1]
            \/ slot'[s] = IdleSlot
         /\ Works(s)' => slot'[s].id = slot[s].id
<1>1. Works(s) /\ Following(s) \in Frame /\ slot[s].id \in Id /\ slot[s].at \in {"header", "read", "end"}
  BY FollowingIs, OfOK DEF Send, TypeInv
<1>2. UNCHANGED <<disk, queue, asked, client, ghosts, events>>
  BY DEF Send
<1>3. reply' = [reply EXCEPT ![slot[s].id] = Put(slot[s].id, Following(s))]
  BY DEF Send, Push
<1>4. ReplyOK'
  BY <1>1, <1>3, PushOK DEF TypeInv
<1>5. PICK doing \in Doing :
        /\ Turn(s, doing)
        /\ \/ slot[s].at = "header" /\ doing = [slot[s] EXCEPT !.at = "read"] /\ doing.id = slot[s].id
           \/ slot[s].at = "read" /\ Left(s) /\ doing = [slot[s] EXCEPT !.next = slot[s].next + 1]
              /\ doing.id = slot[s].id
           \/ doing = IdleSlot
  <2>1. CASE slot[s].at = "header"
    <3>1. slot[s] \in [at : {"header", "read"}, id : Id, seen : Version, next : Nat \ {0}]
      BY <2>1, SlotIs DEF TypeInv
    <3>2. [slot[s] EXCEPT !.at = "read"] \in Doing /\ [slot[s] EXCEPT !.at = "read"].id = slot[s].id
      BY <3>1 DEF Doing
    <3>3. Following(s).is = "header"
      BY <1>1, <2>1, FollowingIs DEF TypeInv
    <3>4. Turn(s, [slot[s] EXCEPT !.at = "read"])
      BY <3>3 DEF Send
    <3>. QED
      BY <2>1, <3>2, <3>4
  <2>2. CASE slot[s].at = "read" /\ Left(s)
    <3>1. slot[s] \in [at : {"header", "read"}, id : Id, seen : Version, next : Nat \ {0}]
      BY <2>2, SlotIs DEF TypeInv
    <3>2. [slot[s] EXCEPT !.next = slot[s].next + 1] \in Doing
          /\ [slot[s] EXCEPT !.next = slot[s].next + 1].id = slot[s].id
      BY <2>2, <3>1 DEF Doing
    <3>3. Following(s).is = "chunk"
      BY <1>1, <2>2, FollowingIs DEF TypeInv
    <3>4. Turn(s, [slot[s] EXCEPT !.next = slot[s].next + 1])
      BY <3>3 DEF Send
    <3>. QED
      BY <2>2, <3>2, <3>4
  <2>3. CASE slot[s].at = "end" \/ (slot[s].at = "read" /\ ~Left(s))
    <3>1. Following(s).is = "end"
      BY <1>1, <2>3, FollowingIs DEF TypeInv, Plain
    <3>2. Turn(s, IdleSlot)
      BY <3>1 DEF Send
    <3>. QED
      BY <3>2 DEF Doing, IdleSlot
  <2>. QED
    BY <1>1, <2>1, <2>2, <2>3
<1>6. SlotOK' /\ slot'[s] = doing /\ \A t \in Slot : t # s => slot'[t] = slot[t]
  BY <1>5, TurnOK, Zenon DEF TypeInv
<1>7. Works(s)' => slot'[s].id = slot[s].id
  BY <1>5, <1>6 DEF Works, IdleSlot, Busy
<1>8. LineOK'
  <2>1. \A t \in Slot : Works(t)' => Works(t) /\ slot'[t].id = slot[t].id
    BY <1>1, <1>6, <1>7 DEF Works
  <2>. QED
    BY <1>2, <2>1, LineKept DEF TypeInv
<1>. QED
  BY <1>1, <1>2, <1>3, <1>4, <1>5, <1>6, <1>7, <1>8 DEF TypeInv, DiskOK, ClientOK, HistoryOK, ghosts

-----------------------------------------------------------------------------
\* Streams of frames

(* The i-th frame of a stream, in which the header is the first: a chunk   *)
(* is at least as far on as its place says, exactly that far unless a part *)
(* expired (L), and of the version that was seen unless the file changed   *)
(* (T); the end comes after the last chunk that was promised.              *)
Entry(A, i, id, req, L, T) ==
  /\ A[i].is \in {"chunk", "end", "error"}
  /\ A[i].is # "chunk" => i = Len(A)
  /\ A[i].is = "chunk" =>
        /\ A[i].file = req.file /\ A[i].cut = FALSE /\ A[i].n >= i - 1
        /\ id \notin L => A[i].n = i - 1
        /\ id \notin T => A[i].number = A[1].number /\ A[i].n <= Smaller(A[1].n, req.cap)
  /\ A[i].is = "end" /\ id \notin T /\ id \notin L => i - 2 = Smaller(A[1].n, req.cap)

(* No chunk comes twice, and none before one that it follows.              *)
Apart(A) ==
  \A i, j \in 2..Len(A) :
    i < j /\ A[i].is = "chunk" /\ A[j].is = "chunk" => A[j].n - A[i].n >= j - i
Opened(A, req) == A[1].is = "header" /\ A[1].file = req.file /\ A[1].cut = (A[1].n > req.cap)

(* A stream that what was asked for may have: nothing yet, a refusal, or a *)
(* header and what it announces.                                           *)
Sound(A, id, req, L, T) ==
  \/ A = <<>>
  \/ A # <<>> /\ A[1].is = "error"
  \/ A # <<>> /\ Opened(A, req) /\ Apart(A) /\ \A i \in 2..Len(A) : Entry(A, i, id, req, L, T)

(* A slot that reads on is at the chunk after those in the stream.         *)
Serving(A, id, next, seen, L, T) ==
   /\ A # <<>> /\ A[1].is = "header"
   /\ next >= Len(A) /\ (id \notin L => next = Len(A))
   /\ \A i \in 2..Len(A) : A[i].is = "chunk" /\ next - A[i].n >= Len(A) + 1 - i
   /\ id \notin T => A[1].n = seen.length /\ A[1].number = seen.number

LEMMA FrameIs ==
  ASSUME NEW f \in Frame
  PROVE  f.is \in {"header", "chunk", "end", "error"} /\ f.n \in Nat /\ f.number \in Nat /\ f.cut \in BOOLEAN
  BY DEF Frame

(* What appending a frame to a stream does.                                *)
LEMMA Appended ==
  ASSUME NEW A \in Seq(Frame), NEW f \in Frame
  PROVE  /\ Append(A, f) \in Seq(Frame) /\ Append(A, f) # <<>> /\ Len(A) \in Nat
         /\ Len(Append(A, f)) = Len(A) + 1 /\ Append(A, f)[Len(A) + 1] = f
         /\ \A i \in 1..Len(A) : Append(A, f)[i] = A[i] /\ A[i] \in Frame
         /\ A # <<>> => 1 \in 1..Len(A) /\ Len(A) >= 1
  BY AppendProperties, LenProperties, ElementOfSeq, EmptySeq

(* A chunk after those that were pushed.                                   *)
LEMMA SoundChunk ==
  ASSUME NEW A \in Seq(Frame), NEW f \in Frame, NEW id, NEW req \in Asking, NEW L, NEW T,
         NEW next \in Nat \ {0}, NEW seen \in Version,
         Sound(A, id, req, L, T), Serving(A, id, next, seen, L, T),
         f.is = "chunk", f.file = req.file, f.n = next, f.cut = FALSE,
         id \notin T => f.number = seen.number /\ next <= Smaller(seen.length, req.cap)
  PROVE  Sound(Append(A, f), id, req, L, T) /\ Serving(Append(A, f), id, next + 1, seen, L, T)
<1> DEFINE B == Append(A, f)
<1>1. /\ B \in Seq(Frame) /\ B # <<>> /\ Len(A) \in Nat /\ Len(A) >= 1
      /\ Len(B) = Len(A) + 1 /\ B[Len(A) + 1] = f
      /\ \A i \in 1..Len(A) : B[i] = A[i] /\ A[i] \in Frame
      /\ B[1] = A[1]
  BY Appended DEF Serving
<1>2. \A i \in 1..Len(A) : A[i].n \in Nat
  BY <1>1, FrameIs
<1>3. Opened(A, req) /\ Apart(A) /\ (\A i \in 2..Len(A) : Entry(A, i, id, req, L, T))
  BY DEF Sound, Serving
<1>4. /\ next >= Len(A) /\ (id \notin L => next = Len(A))
      /\ \A i \in 2..Len(A) : A[i].is = "chunk" /\ next - A[i].n >= Len(A) + 1 - i
      /\ id \notin T => A[1].n = seen.length /\ A[1].number = seen.number
  BY DEF Serving
<1> HIDE DEF B
<1>5. Opened(B, req)
  BY <1>1, <1>3 DEF Opened
<1>6. Apart(B)
  <2>. SUFFICES ASSUME NEW i \in 2..Len(B), NEW j \in 2..Len(B), i < j, B[i].is = "chunk", B[j].is = "chunk"
                PROVE  B[j].n - B[i].n >= j - i
    BY DEF Apart
  <2>0. i \in 2..Len(A) /\ B[i] = A[i]
    BY <1>1
  <2>1. CASE j \in 2..Len(A)
    <3>1. B[j] = A[j]
      BY <1>1, <2>1
    <3>. QED
      BY <1>3, <2>0, <2>1, <3>1 DEF Apart
  <2>2. CASE j = Len(A) + 1
    <3>1. B[j].n = next /\ next - A[i].n >= Len(A) + 1 - i
      BY <1>1, <1>4, <2>0, <2>2
    <3>. QED
      BY <2>0, <2>2, <3>1
  <2>. QED
    BY <1>1, <2>1, <2>2
<1>7. \A i \in 2..Len(B) : Entry(B, i, id, req, L, T)
  <2>. SUFFICES ASSUME NEW i \in 2..Len(B) PROVE Entry(B, i, id, req, L, T)
    OBVIOUS
  <2>1. CASE i \in 2..Len(A)
    <3>1. B[i] = A[i] /\ A[i].is = "chunk" /\ Entry(A, i, id, req, L, T)
      BY <1>1, <1>3, <1>4, <2>1
    <3>. QED
      BY <1>1, <3>1 DEF Entry
  <2>2. CASE i = Len(A) + 1
    <3>1. B[i] = f /\ i = Len(B)
      BY <1>1, <2>2
    <3>2. f.n >= i - 1 /\ (id \notin L => f.n = i - 1)
      BY <1>1, <1>4, <2>2
    <3>3. id \notin T => f.number = B[1].number /\ f.n <= Smaller(B[1].n, req.cap)
      BY <1>1, <1>4
    <3>. QED
      BY <3>1, <3>2, <3>3 DEF Entry
  <2>. QED
    BY <1>1, <2>1, <2>2
<1>8. Serving(B, id, next + 1, seen, L, T)
  <2> DEFINE m == next + 1
  <2>1. m >= Len(B) /\ (id \notin L => m = Len(B))
    BY <1>1, <1>4
  <2>2. ASSUME NEW i \in 2..Len(B)
        PROVE  B[i].is = "chunk" /\ m - B[i].n >= Len(B) + 1 - i
    <3>1. CASE i \in 2..Len(A)
      <4>1. B[i] = A[i] /\ A[i].n \in Nat /\ A[i].is = "chunk" /\ next - A[i].n >= Len(A) + 1 - i
        BY <1>1, <1>2, <1>4, <3>1
      <4>. QED
        BY <1>1, <3>1, <4>1
    <3>2. CASE i = Len(A) + 1
      BY <1>1, <3>2
    <3>. QED
      BY <1>1, <3>1, <3>2
  <2>3. B[1].is = "header" /\ (id \notin T => B[1].n = seen.length /\ B[1].number = seen.number)
    BY <1>1, <1>3, <1>4 DEF Opened
  <2> HIDE DEF m
  <2>4. Serving(B, id, m, seen, L, T)
    BY <1>1, <2>1, <2>2, <2>3 DEF Serving
  <2>. QED
    BY <2>4 DEF m
<1>. QED
  BY <1>1, <1>5, <1>6, <1>7, <1>8 DEF Sound, B

(* The last frame: the end, if nothing is left of what was seen; an error  *)
(* at any time.                                                            *)
LEMMA SoundLast ==
  ASSUME NEW A \in Seq(Frame), NEW f \in Frame, NEW id, NEW req \in Asking, NEW L, NEW T,
         NEW next \in Nat \ {0}, NEW seen \in Version,
         Sound(A, id, req, L, T), Serving(A, id, next, seen, L, T),
         f.is \in {"end", "error"},
         f.is = "end" /\ id \notin T => next = Smaller(seen.length, req.cap) + 1
  PROVE  Sound(Append(A, f), id, req, L, T)
<1> DEFINE B == Append(A, f)
<1>1. /\ B \in Seq(Frame) /\ B # <<>> /\ Len(A) \in Nat /\ Len(A) >= 1
      /\ Len(B) = Len(A) + 1 /\ B[Len(A) + 1] = f
      /\ \A i \in 1..Len(A) : B[i] = A[i] /\ A[i] \in Frame
      /\ B[1] = A[1]
  BY Appended DEF Serving
<1>3. Opened(A, req) /\ Apart(A) /\ (\A i \in 2..Len(A) : Entry(A, i, id, req, L, T))
  BY DEF Sound, Serving
<1>4. /\ next >= Len(A) /\ (id \notin L => next = Len(A))
      /\ \A i \in 2..Len(A) : A[i].is = "chunk"
      /\ id \notin T => A[1].n = seen.length /\ A[1].number = seen.number
  BY DEF Serving
<1>cap. Smaller(seen.length, req.cap) \in Nat
  BY SmallerIs, AskingIs, VersionIs
<1> HIDE DEF B
<1>5. Opened(B, req)
  BY <1>1, <1>3 DEF Opened
<1>6. Apart(B)
  <2>. SUFFICES ASSUME NEW i \in 2..Len(B), NEW j \in 2..Len(B), i < j, B[i].is = "chunk", B[j].is = "chunk"
                PROVE  B[j].n - B[i].n >= j - i
    BY DEF Apart
  <2>0. j # Len(A) + 1
    BY <1>1
  <2>1. i \in 2..Len(A) /\ j \in 2..Len(A)
    BY <1>1, <2>0
  <2>2. B[i] = A[i] /\ B[j] = A[j]
    BY <1>1, <2>1
  <2>. QED
    BY <1>3, <2>1, <2>2 DEF Apart
<1>7. \A i \in 2..Len(B) : Entry(B, i, id, req, L, T)
  <2>. SUFFICES ASSUME NEW i \in 2..Len(B) PROVE Entry(B, i, id, req, L, T)
    OBVIOUS
  <2>1. CASE i \in 2..Len(A)
    <3>1. B[i] = A[i] /\ A[i].is = "chunk" /\ Entry(A, i, id, req, L, T)
      BY <1>1, <1>3, <1>4, <2>1
    <3>. QED
      BY <1>1, <3>1 DEF Entry
  <2>2. CASE i = Len(A) + 1
    <3>1. B[i] = f /\ i = Len(B)
      BY <1>1, <2>2
    <3>2. f.is = "end" /\ id \notin T /\ id \notin L => i - 2 = Smaller(B[1].n, req.cap)
      BY <1>1, <1>4, <1>cap, <2>2
    <3>. QED
      BY <3>1, <3>2 DEF Entry
  <2>. QED
    BY <1>1, <2>1, <2>2
<1>. QED
  BY <1>1, <1>5, <1>6, <1>7 DEF Sound, B

(* The first frame is a refusal or a header.                               *)
LEMMA SoundFirst ==
  ASSUME NEW f \in Frame, NEW id, NEW req, NEW L, NEW T, NEW seen \in Version,
         \/ f.is = "error"
         \/ /\ f.is = "header" /\ f.file = req.file /\ f.cut = (f.n > req.cap)
            /\ f.n = seen.length /\ f.number = seen.number
  PROVE  /\ Sound(<<f>>, id, req, L, T)
         /\ f.is = "header" => Serving(<<f>>, id, 1, seen, L, T)
<1>1. <<f>> # <<>> /\ Len(<<f>>) = 1 /\ <<f>>[1] = f /\ 2..Len(<<f>>) = {}
  OBVIOUS
<1>. QED
  BY <1>1 DEF Sound, Serving, Opened, Apart

(* After a refusal anything may come: nobody reads it.                     *)
LEMMA SoundAfterError ==
  ASSUME NEW A \in Seq(Frame), NEW f \in Frame, NEW id, NEW req, NEW L, NEW T,
         A # <<>>, A[1].is = "error"
  PROVE  Sound(Append(A, f), id, req, L, T) /\ Append(A, f) # <<>> /\ Append(A, f)[1].is = "error"
<1>1. Append(A, f) # <<>> /\ Append(A, f)[1] = A[1]
  BY Appended
<1>. QED
  BY <1>1 DEF Sound

(* What was there before a part of it expired.                             *)
LEMMA SoundPrefix ==
  ASSUME NEW A \in Seq(Frame), NEW B \in Seq(Frame), NEW C \in Seq(Frame), A = B \o C, B # <<>>,
         NEW id, NEW L, NEW M, NEW T, id \in M
  PROVE  /\ \A req : Sound(A, id, req, L, T) => Sound(B, id, req, M, T)
         /\ \A next \in Nat, seen \in Version :
              Serving(A, id, next, seen, L, T) => Serving(B, id, next, seen, M, T)
<1>1. /\ Len(A) = Len(B) + Len(C) /\ Len(A) \in Nat /\ Len(B) \in Nat /\ Len(C) \in Nat
      /\ \A i \in 1..Len(B) : A[i] = B[i] /\ i \in 1..Len(A)
  <2>1. /\ Len(A) = Len(B) + Len(C) /\ Len(B) \in Nat /\ Len(C) \in Nat
        /\ \A i \in 1..Len(B) + Len(C) : A[i] = IF i <= Len(B) THEN B[i] ELSE C[i - Len(B)]
    BY ConcatProperties, LenProperties
  <2>. QED
    BY <2>1
<1>2. Len(B) >= 1 /\ A # <<>> /\ A[1] = B[1] /\ 1 \in 1..Len(A)
  BY <1>1, EmptySeq
<1>3. \A i \in 1..Len(A) : A[i] \in Frame /\ A[i].n \in Nat
  BY ElementOfSeq, FrameIs
<1>4. \A i \in 2..Len(B) : A[i] = B[i] /\ i \in 2..Len(A)
  BY <1>1
<1>5. ASSUME NEW req, Sound(A, id, req, L, T) PROVE Sound(B, id, req, M, T)
  <2>1. CASE A[1].is = "error"
    BY <1>2, <2>1 DEF Sound
  <2>2. CASE Opened(A, req) /\ Apart(A) /\ \A i \in 2..Len(A) : Entry(A, i, id, req, L, T)
    <3>1. Opened(B, req)
      BY <1>2, <2>2 DEF Opened
    <3>2. Apart(B)
      BY <1>4, <2>2 DEF Apart
    <3>3. ASSUME NEW i \in 2..Len(B) PROVE Entry(B, i, id, req, M, T)
      <4>1. Entry(A, i, id, req, L, T) /\ A[i] = B[i] /\ i \in 2..Len(A)
        BY <1>4, <2>2
      <4>2. A[i].is # "chunk" => i = Len(B)
        BY <1>1, <4>1 DEF Entry
      <4>. QED
        BY <1>2, <4>1, <4>2 DEF Entry
    <3>. QED
      BY <3>1, <3>2, <3>3 DEF Sound
  <2>. QED
    BY <1>2, <1>5, <2>1, <2>2 DEF Sound
<1>6. ASSUME NEW next \in Nat, NEW seen \in Version, Serving(A, id, next, seen, L, T)
      PROVE  Serving(B, id, next, seen, M, T)
  <2>1. next >= Len(B) /\ B[1].is = "header"
        /\ (id \notin T => B[1].n = seen.length /\ B[1].number = seen.number)
    BY <1>1, <1>2, <1>6 DEF Serving
  <2>2. ASSUME NEW i \in 2..Len(B) PROVE B[i].is = "chunk" /\ next - B[i].n >= Len(B) + 1 - i
    <3>1. A[i] = B[i] /\ i \in 2..Len(A) /\ A[i].is = "chunk" /\ next - A[i].n >= Len(A) + 1 - i
      BY <1>4, <1>6 DEF Serving
    <3>2. A[i].n \in Nat
      BY <1>3, <3>1
    <3>. QED
      BY <1>1, <3>1, <3>2
  <2>. QED
    BY <2>1, <2>2 DEF Serving
<1>. QED
  BY <1>5, <1>6

(* What changed or expired since promises less.                            *)
LEMMA SoundWeaker ==
  ASSUME NEW A, NEW id, NEW req, NEW L, NEW M, NEW T, NEW U, id \in L => id \in M, id \in T => id \in U
  PROVE  Sound(A, id, req, L, T) => Sound(A, id, req, M, U)
<1>1. \A i \in 2..Len(A) : Entry(A, i, id, req, L, T) => Entry(A, i, id, req, M, U)
  BY DEF Entry
<1>. QED
  BY <1>1 DEF Sound

LEMMA ServingWeaker ==
  ASSUME NEW A, NEW id, NEW next, NEW seen, NEW L, NEW M, NEW T, NEW U,
         id \in L => id \in M, id \in T => id \in U, Serving(A, id, next, seen, L, T)
  PROVE  Serving(A, id, next, seen, M, U)
  BY DEF Serving

-----------------------------------------------------------------------------
\* A slot that gives up, a crash, and the steps of a browser

(* A slot that gives up, or one that dies with its process.                *)
LEMMA ThrowsIs ==
  ASSUME TypeInv, NEW s \in Slot, ServeThrows(s)
  PROVE  /\ TypeInv' /\ Works(s) /\ slot'[s] = IdleSlot /\ ~Works(s)'
         /\ \A t \in Slot : t # s => slot'[t] = slot[t]
         /\ Plain(s, "error") \in Frame
         /\ reply' = [reply EXCEPT ![slot[s].id] = Put(slot[s].id, Plain(s, "error"))]
<1>1. Works(s) /\ slot[s].id \in Id /\ Plain(s, "error") \in Frame
  BY OfOK, ErrorFrame DEF ServeThrows, TypeInv, Works
<1>2. Turn(s, IdleSlot) /\ IdleSlot \in Doing /\ IdleSlot.at = "idle"
  BY DEF ServeThrows, IdleSlot, Doing
<1>3. SlotOK' /\ slot'[s] = IdleSlot /\ \A t \in Slot : t # s => slot'[t] = slot[t]
  BY <1>2, TurnOK, Zenon DEF TypeInv
<1>4. ~Works(s)'
  BY <1>2, <1>3 DEF Works, Busy
<1>5. LineOK'
  <2>1. \A t \in Slot : Works(t)' => Works(t) /\ slot'[t].id = slot[t].id
    BY <1>3, <1>4 DEF Works
  <2>. QED
    BY <2>1, LineKept DEF TypeInv, ServeThrows
<1>6. reply' = [reply EXCEPT ![slot[s].id] = Put(slot[s].id, Plain(s, "error"))]
  BY DEF ServeThrows, Push
<1>7. ReplyOK'
  BY <1>1, <1>6, PushOK DEF TypeInv
<1>8. UNCHANGED <<disk, queue, asked, client, ghosts>> /\ events' \in Nat
  BY DEF ServeThrows, Event, TypeInv, HistoryOK
<1>. QED
  BY <1>1, <1>3, <1>4, <1>5, <1>6, <1>7, <1>8 DEF TypeInv, DiskOK, ClientOK, HistoryOK, ghosts

LEMMA CrashIs ==
  ASSUME TypeInv, Crash
  PROVE  /\ TypeInv' /\ \A s \in Slot : ~Works(s)'
         /\ UNCHANGED <<disk, queue, asked, client, lapsed, stirred>>
         /\ \/ UNCHANGED reply
            \/ \E s \in Slot :
                 /\ slot[s].at \in {"header", "read", "end"} /\ Works(s)
                 /\ reply' = [reply EXCEPT ![slot[s].id] = Stripped(slot[s].id, Following(s))]
<1>1. UNCHANGED <<disk, queue, asked, client, lapsed, stirred>> /\ events' \in Nat
  BY DEF Crash, Event, TypeInv, HistoryOK
<1>2. slot' = [s \in Slot |-> IdleSlot] /\ IdleSlot \in Doing /\ IdleSlot.at \notin Busy
  BY DEF Crash, IdleSlot, Doing, Busy
<1>3. SlotOK' /\ \A s \in Slot : ~Works(s)'
  BY <1>2 DEF SlotOK, Works
<1>4. LineOK'
  BY <1>1, <1>3, LineKept DEF TypeInv
<1>5. CASE UNCHANGED <<reply, struck>>
  BY <1>1, <1>3, <1>4, <1>5 DEF TypeInv, DiskOK, ReplyOK, ClientOK, HistoryOK
<1>6. ASSUME NEW s \in Slot, slot[s].at \in {"header", "read", "end"},
             reply' = [reply EXCEPT ![slot[s].id] = Stripped(slot[s].id, Following(s))],
             struck' = struck \cup {slot[s].id}
      PROVE  TypeInv' /\ Works(s)
  <2>1. Works(s) /\ Following(s) \in Frame /\ slot[s].id \in Id
    BY <1>6, FollowingIs, OfOK DEF TypeInv
  <2>2. ReplyOK'
    BY <1>6, <2>1, PushOK DEF TypeInv
  <2>3. struck' \subseteq Id
    BY <1>6, <2>1 DEF TypeInv, HistoryOK
  <2>. QED
    BY <1>1, <1>3, <1>4, <2>1, <2>2, <2>3 DEF TypeInv, DiskOK, ClientOK, HistoryOK
<1>7. \/ UNCHANGED <<reply, struck>>
      \/ \E s \in Slot :
           /\ slot[s].at \in {"header", "read", "end"}
           /\ reply' = [reply EXCEPT ![slot[s].id] = Stripped(slot[s].id, Following(s))]
           /\ struck' = struck \cup {slot[s].id}
  BY DEF Crash
<1>. QED
  BY <1>1, <1>3, <1>5, <1>6, <1>7

(* A list that expires is empty, and its request is among the lapsed.      *)
LEMMA LapseIs ==
  ASSUME TypeInv, NEW id \in Id, Lapse(id)
  PROVE  /\ TypeInv' /\ UNCHANGED <<disk, queue, asked, slot, client, stirred>>
         /\ lapsed' = lapsed \cup {id}
         /\ reply'[id].frames = <<>> /\ \A j \in Id : j # id => reply'[j].frames = Frames(j)
<1>1. NoReply \in Answer /\ NoReply.frames = <<>>
  BY DEF NoReply, Answer
<1>2. reply' \in [Id -> Answer] /\ reply'[id] = NoReply /\ \A j \in Id : j # id => reply'[j] = reply[j]
  BY <1>1 DEF Lapse, TypeInv, ReplyOK
<1>3. /\ UNCHANGED <<disk, queue, asked, slot, client, stirred, struck, events>>
      /\ lapsed' = lapsed \cup {id}
  BY DEF Lapse
<1>4. LineOK'
  BY <1>3, LineKept DEF TypeInv, Works
<1>. QED
  BY <1>1, <1>2, <1>3, <1>4 DEF TypeInv, DiskOK, SlotOK, ReplyOK, ClientOK, HistoryOK, Frames

(* A change of place alone.                                                *)
LEMMA StopOK ==
  ASSUME ClientOK, NEW c \in Client, NEW where, Go(c, where),
         \/ client[c].at \in {"next", "first", "audit", "body"} /\ where = "failed"
         \/ client[c].at = "body" /\ where = "cancelled"
         \/ client[c].at = "next" /\ where = "complete"
         \/ client[c].at = "audit" /\ where = "body"
  PROVE  /\ ClientOK' /\ client'[c] = [client[c] EXCEPT !.at = where] /\ client'[c].at = where
         /\ \A d \in Client : d # c => client'[d] = client[d]
<1> DEFINE r == [client[c] EXCEPT !.at = where]
<1>1. r \in Browsing /\ r.at = where
  <2>1. CASE client[c] \in Choosing /\ where \in {"failed", "complete"}
    BY <2>1 DEF Browsing, Choosing
  <2>2. CASE client[c] \in Waiting /\ where = "failed"
    BY <2>2 DEF Browsing, Waiting
  <2>3. CASE client[c] \in Reading /\ where \in {"failed", "cancelled", "body"}
    BY <2>3 DEF Browsing, Reading
  <2>. QED
    BY <2>1, <2>2, <2>3, ClientIs
<1>2. Become(c, r)
  BY GoIs
<1> HIDE DEF r
<1>3. ClientOK' /\ client'[c] = r /\ \A d \in Client : d # c => client'[d] = client[d]
  BY <1>1, <1>2, BecomeOK
<1>. QED
  BY <1>1, <1>3 DEF r

(* What a browser does leaves the files and the slots alone.               *)
LEMMA BrowserTypes ==
  ASSUME TypeInv, UNCHANGED <<disk, queue, asked, slot, ghosts>>, ClientOK', ReplyOK', events' \in Nat
  PROVE  TypeInv'
<1>1. LineOK'
  BY LineKept DEF TypeInv, Works
<1>. QED
  BY <1>1 DEF TypeInv, DiskOK, SlotOK, HistoryOK, ghosts

(* A browser chooses, and asks.                                            *)
LEMMA AskIs ==
  ASSUME TypeInv, NEW c \in Client, Ask(c)
  PROVE  /\ TypeInv' /\ client'[c] \in Choosing /\ client'[c].at = "next"
         /\ client'[c].parts = {}
         /\ client'[c].kind # "archive" => \A f, g \in client'[c].wanted : f = g
         /\ \A d \in Client : d # c => client'[d] = client[d]
         /\ UNCHANGED <<disk, queue, asked, slot, reply, ghosts, events>>
<1>1. PICK kind \in Kind, wanted \in (SUBSET File) \ {{}} :
        /\ kind # "archive" => \A f, g \in wanted : f = g
        /\ Become(c, [at |-> "next", kind |-> kind, wanted |-> wanted, parts |-> {}])
  BY DEF Ask
<1> DEFINE r == [at |-> "next", kind |-> kind, wanted |-> wanted, parts |-> {}]
<1>2. r \in Choosing /\ r \in Browsing
  BY DEF Choosing, Browsing
<1>3. ClientOK' /\ client'[c] = r /\ \A d \in Client : d # c => client'[d] = client[d]
  <2> HIDE DEF r
  <2>. QED
    BY <1>1, <1>2, BecomeOK DEF TypeInv, r
<1>4. UNCHANGED <<disk, queue, asked, slot, reply, ghosts, events>>
  BY DEF Ask
<1>5. TypeInv'
  BY <1>3, <1>4, BrowserTypes DEF TypeInv, ReplyOK, HistoryOK
<1>. QED
  BY <1>1, <1>2, <1>3, <1>4, <1>5

(* A new request is the last of the queue, with a number of its own.       *)
LEMMA RequestIs ==
  ASSUME TypeInv, NEW c \in Client, Request(c)
  PROVE  /\ TypeInv' /\ client[c] \in Choosing /\ Is(c, "next")
         /\ UNCHANGED <<disk, slot, reply, ghosts, events>>
         /\ Len(asked') = Len(asked) + 1 /\ Len(asked') \in Id
         /\ \A i \in 1..Len(asked) : asked'[i] = asked[i]
         /\ Len(queue') = Len(queue) + 1 /\ queue'[Len(queue) + 1] = Len(asked')
         /\ \A i \in 1..Len(queue) : queue'[i] = queue[i]
         /\ \A d \in Client : d # c => client'[d] = client[d]
         /\ client'[c] \in Waiting /\ client'[c].at = "first" /\ client'[c].kind = client[c].kind
         /\ client'[c].wanted = client[c].wanted /\ client'[c].parts = client[c].parts
         /\ client'[c].id = Len(asked') /\ client'[c].file = asked'[Len(asked')].file
         /\ client'[c].file \in client[c].wanted
<1> DEFINE cap == IF client[c].kind = "preview" THEN PreviewCap ELSE DownloadCap
<1>1. PICK f \in Missing(c) :
        /\ asked' = Append(asked, [file |-> f, cap |-> cap])
        /\ queue' = Append(queue, Len(asked'))
        /\ Become(c, [at |-> "first", kind |-> client[c].kind, wanted |-> client[c].wanted,
                      parts |-> client[c].parts, id |-> Len(asked'), file |-> f])
  BY DEF Request
<1>2. Is(c, "next") /\ Len(asked) < MaxRequests /\ UNCHANGED <<disk, slot, reply, ghosts, events>>
  BY DEF Request
<1>3. client[c] \in Choosing
  BY <1>2, ClientIs DEF Is, TypeInv
<1>4. f \in client[c].wanted /\ f \in File
  BY <1>3 DEF Missing, Choosing
<1>5. [file |-> f, cap |-> cap] \in Asking
  BY <1>4 DEF Asking
<1>6. /\ asked' \in Seq(Asking) /\ Len(asked') = Len(asked) + 1 /\ Len(asked) \in Nat
      /\ \A i \in 1..Len(asked) : asked'[i] = asked[i]
      /\ asked'[Len(asked')] = [file |-> f, cap |-> cap]
  <2> HIDE DEF cap
  <2>. QED
    BY <1>1, <1>5, AppendProperties, LenProperties DEF TypeInv, LineOK
<1>7. Len(asked') \in Id /\ Len(asked') <= MaxRequests /\ Len(asked') \in 1..Len(asked')
  BY <1>2, <1>6, BoundsAreNat DEF Id
<1>8. /\ queue' \in Seq(Id) /\ Len(queue') = Len(queue) + 1 /\ Len(queue) \in Nat
      /\ queue'[Len(queue) + 1] = Len(asked')
      /\ \A i \in 1..Len(queue) : queue'[i] = queue[i]
  BY <1>1, <1>7, AppendProperties, LenProperties DEF TypeInv, LineOK
<1> DEFINE r == [at |-> "first", kind |-> client[c].kind, wanted |-> client[c].wanted,
                      parts |-> client[c].parts, id |-> Len(asked'), file |-> f]
<1>9. r \in Waiting
  BY <1>3, <1>4, <1>7 DEF Waiting, Choosing
<1>10. ClientOK' /\ client'[c] = r /\ \A d \in Client : d # c => client'[d] = client[d]
  <2>1. r \in Browsing
    BY <1>9 DEF Browsing
  <2> HIDE DEF r
  <2>. QED
    BY <1>1, <2>1, BecomeOK DEF TypeInv, r
<1>11. LineOK'
  <2>1. \A s \in Slot : Works(s)' => slot'[s].id \in 1..Len(asked')
    BY <1>2, <1>6 DEF TypeInv, LineOK, Works
  <2>2. \A i \in 1..Len(queue') : queue'[i] \in 1..Len(asked')
    <3>1. ASSUME NEW i \in 1..Len(queue') PROVE queue'[i] \in 1..Len(asked')
      <4>1. CASE i \in 1..Len(queue)
        BY <1>6, <1>8, <4>1 DEF TypeInv, LineOK
      <4>2. CASE i = Len(queue) + 1
        BY <1>7, <1>8, <4>2
      <4>. QED
        BY <1>8, <4>1, <4>2
    <3>. QED
      BY <3>1
  <2>. QED
    BY <1>6, <1>7, <1>8, <2>1, <2>2 DEF LineOK
<1>12. TypeInv'
  BY <1>2, <1>10, <1>11 DEF TypeInv, DiskOK, SlotOK, ReplyOK, HistoryOK, ghosts
<1>. QED
  BY <1>2, <1>3, <1>4, <1>6, <1>7, <1>8, <1>9, <1>10, <1>12

(* The first frame tells what comes, or that nothing does.                 *)
LEMMA FirstFrameIs ==
  ASSUME TypeInv, NEW c \in Client, FirstFrame(c)
  PROVE  LET id == client[c].id
             frame == Head(Frames(id)) IN
         /\ TypeInv' /\ Is(c, "first") /\ client[c] \in Waiting /\ id \in Id
         /\ Frames(id) \in Seq(Frame) /\ Frames(id) # <<>> /\ frame \in Frame
         /\ reply'[id].frames = Tail(Frames(id)) /\ \A j \in Id : j # id => reply'[j].frames = Frames(j)
         /\ UNCHANGED <<disk, queue, asked, slot, ghosts, events>>
         /\ \A d \in Client : d # c => client'[d] = client[d]
         /\ \/ frame.is # "header" /\ client'[c].at = "failed"
            \/ /\ frame.is = "header"
               /\ client'[c] = [at |-> IF client[c].kind = "download" THEN "audit" ELSE "body",
                     kind |-> client[c].kind, wanted |-> client[c].wanted,
                     parts |-> client[c].parts, id |-> client[c].id,
                     file |-> client[c].file, n |-> frame.n, number |-> frame.number,
                     cut |-> frame.cut, got |-> <<>>]
               /\ client'[c] \in Reading
<1> DEFINE id == client[c].id
           frame == Head(Frames(id))
<1>1. Is(c, "first") /\ Frames(id) # <<>> /\ Popped(id) /\ UNCHANGED <<disk, queue, asked, slot, ghosts, events>>
  BY DEF FirstFrame
<1>2. client[c] \in Waiting /\ id \in Id
  BY <1>1, ClientIs DEF Is, TypeInv, Waiting
<1>3. Frames(id) \in Seq(Frame)
  BY <1>2, AnswerIs DEF TypeInv
<1>4. frame \in Frame
  BY <1>1, <1>3, HeadTailProperties
<1>5. ReplyOK' /\ reply'[id].frames = Tail(Frames(id)) /\ \A j \in Id : j # id => reply'[j].frames = Frames(j)
  <2> HIDE DEF id
  <2>. QED
    BY <1>1, <1>2, PopOK DEF TypeInv
<1>6. CASE frame.is = "header"
  <2> DEFINE r == [at |-> IF client[c].kind = "download" THEN "audit" ELSE "body",
                     kind |-> client[c].kind, wanted |-> client[c].wanted,
                     parts |-> client[c].parts, id |-> client[c].id,
                     file |-> client[c].file, n |-> frame.n, number |-> frame.number,
                     cut |-> frame.cut, got |-> <<>>]
  <2>1. r \in Reading /\ r \in Browsing
    BY <1>2, <1>4, FrameIs DEF Reading, Waiting, Browsing
  <2>2. Become(c, r)
    BY <1>6 DEF FirstFrame
  <2>3. ClientOK' /\ client'[c] = r /\ \A d \in Client : d # c => client'[d] = client[d]
    <3> HIDE DEF r
    <3>. QED
      BY <2>1, <2>2, BecomeOK DEF TypeInv
  <2>4. TypeInv'
    BY <1>1, <1>5, <2>3, BrowserTypes DEF TypeInv, HistoryOK
  <2>. QED
    BY <1>1, <1>2, <1>3, <1>4, <1>5, <1>6, <2>1, <2>3, <2>4
<1>7. CASE frame.is # "header"
  <2>1. Go(c, "failed")
    BY <1>7 DEF FirstFrame, Failed
  <2>2. ClientOK' /\ client'[c].at = "failed" /\ \A d \in Client : d # c => client'[d] = client[d]
    BY <1>1, <2>1, StopOK DEF TypeInv, Is
  <2>3. TypeInv'
    BY <1>1, <1>5, <2>2, BrowserTypes DEF TypeInv, HistoryOK
  <2>. QED
    BY <1>1, <1>2, <1>3, <1>4, <1>5, <1>7, <2>2, <2>3
<1>. QED
  BY <1>6, <1>7

(* Each other frame is a chunk, an error or the end.                       *)
LEMMA PullIs ==
  ASSUME TypeInv, NEW c \in Client, Pull(c)
  PROVE  LET id == client[c].id
             frame == Head(Frames(id)) IN
         /\ TypeInv' /\ Is(c, "body") /\ client[c] \in Reading /\ id \in Id
         /\ Frames(id) \in Seq(Frame) /\ Frames(id) # <<>> /\ frame \in Frame
         /\ reply'[id].frames = Tail(Frames(id)) /\ \A j \in Id : j # id => reply'[j].frames = Frames(j)
         /\ UNCHANGED <<disk, queue, asked, slot, ghosts, events>>
         /\ \A d \in Client : d # c => client'[d] = client[d]
         /\ \/ frame.is = "error" /\ client'[c].at = "failed"
            \/ /\ frame.is = "end"
               /\ client'[c] = [at |-> IF ~Accepts(client[c]) THEN "failed"
                              ELSE IF client[c].kind = "archive" THEN "next" ELSE "complete",
                       kind |-> client[c].kind, wanted |-> client[c].wanted,
                       parts |-> client[c].parts \cup {AsPart(client[c])}]
            \/ /\ frame.is \in {"header", "chunk"}
               /\ client'[c] = [client[c] EXCEPT !.got = Append(client[c].got, frame)]
               /\ client'[c] \in Reading
<1> DEFINE id == client[c].id
           frame == Head(Frames(id))
<1>1. Is(c, "body") /\ Frames(id) # <<>> /\ Popped(id) /\ UNCHANGED <<disk, queue, asked, slot, ghosts, events>>
  BY DEF Pull
<1>2. client[c] \in Reading /\ id \in Id
  BY <1>1, ClientIs DEF Is, TypeInv, Reading
<1>3. Frames(id) \in Seq(Frame)
  BY <1>2, AnswerIs DEF TypeInv
<1>4. frame \in Frame
  BY <1>1, <1>3, HeadTailProperties
<1>5. ReplyOK' /\ reply'[id].frames = Tail(Frames(id)) /\ \A j \in Id : j # id => reply'[j].frames = Frames(j)
  <2> HIDE DEF id
  <2>. QED
    BY <1>1, <1>2, PopOK DEF TypeInv
<1>6. CASE frame.is \in {"header", "chunk"}
  <2> DEFINE r == [client[c] EXCEPT !.got = Append(client[c].got, frame)]
  <2>1. r \in Reading
    <3>1. Append(client[c].got, frame) \in Seq(Frame)
      BY <1>2, <1>4 DEF Reading
    <3>. QED
      BY <1>2, <3>1 DEF Reading
  <2>2. Become(c, r)
    BY <1>6 DEF Pull
  <2>3. ClientOK' /\ client'[c] = r /\ \A d \in Client : d # c => client'[d] = client[d]
    <3> HIDE DEF r
    <3>. QED
      BY <2>1, <2>2, BecomeOK DEF TypeInv, Browsing
  <2>4. TypeInv'
    BY <1>1, <1>5, <2>3, BrowserTypes DEF TypeInv, HistoryOK
  <2>. QED
    BY <1>1, <1>2, <1>3, <1>4, <1>5, <1>6, <2>1, <2>3, <2>4
<1>7. CASE frame.is = "error"
  <2>1. Go(c, "failed")
    BY <1>7 DEF Pull, Failed
  <2>2. ClientOK' /\ client'[c].at = "failed" /\ \A d \in Client : d # c => client'[d] = client[d]
    BY <1>1, <2>1, StopOK DEF TypeInv, Is
  <2>3. TypeInv'
    BY <1>1, <1>5, <2>2, BrowserTypes DEF TypeInv, HistoryOK
  <2>. QED
    BY <1>1, <1>2, <1>3, <1>4, <1>5, <1>7, <2>2, <2>3
<1>8. CASE frame.is = "end"
  <2> DEFINE r == [at |-> IF ~Accepts(client[c]) THEN "failed"
                              ELSE IF client[c].kind = "archive" THEN "next" ELSE "complete",
                       kind |-> client[c].kind, wanted |-> client[c].wanted,
                       parts |-> client[c].parts \cup {AsPart(client[c])}]
  <2>0. AsPart(client[c]) \in Part
    BY <1>2 DEF AsPart, Part, Reading
  <2>1. r \in Choosing
    BY <1>2, <2>0 DEF Reading, Choosing
  <2>2. Become(c, r)
    BY <1>8 DEF Pull
  <2>3. ClientOK' /\ client'[c] = r /\ \A d \in Client : d # c => client'[d] = client[d]
    <3> HIDE DEF r
    <3>. QED
      BY <2>1, <2>2, BecomeOK DEF TypeInv, Browsing
  <2>4. TypeInv'
    BY <1>1, <1>5, <2>3, BrowserTypes DEF TypeInv, HistoryOK
  <2>. QED
    BY <1>1, <1>2, <1>3, <1>4, <1>5, <1>8, <2>3, <2>4
<1>. QED
  BY <1>4, <1>6, <1>7, <1>8, FrameIs

(* A browser that stops, or goes from the record of its download to it.    *)
Stops(c) == RequestFails(c) \/ RecordDownload(c) \/ GiveUp(c) \/ Finalize(c) \/ Cancel(c)
LEMMA StopsIs ==
  ASSUME TypeInv, NEW c \in Client, Stops(c)
  PROVE  /\ TypeInv' /\ UNCHANGED <<disk, queue, asked, slot, reply, ghosts>>
         /\ \A d \in Client : d # c => client'[d] = client[d]
         /\ \/ client'[c].at \in {"failed", "cancelled"}
            \/ /\ Is(c, "next") /\ Missing(c) = {}
               /\ client'[c] = [client[c] EXCEPT !.at = "complete"]
            \/ /\ Is(c, "audit")
               /\ client'[c] = [client[c] EXCEPT !.at = "body"]
<1>1. UNCHANGED <<disk, queue, asked, slot, reply, ghosts>> /\ events' \in Nat
  BY DEF Stops, RequestFails, RecordDownload, GiveUp, Finalize, Cancel, Event, TypeInv, HistoryOK
<1>2. PICK where :
        /\ Go(c, where)
        /\ \/ client[c].at \in {"next", "first", "audit", "body"} /\ where = "failed"
           \/ client[c].at = "body" /\ where = "cancelled"
           \/ client[c].at = "next" /\ where = "complete" /\ Missing(c) = {}
           \/ client[c].at = "audit" /\ where = "body"
  BY DEF Stops, RequestFails, RecordDownload, GiveUp, Finalize, Cancel, Failed, Is
<1>3. /\ ClientOK' /\ client'[c] = [client[c] EXCEPT !.at = where] /\ client'[c].at = where
      /\ \A d \in Client : d # c => client'[d] = client[d]
  BY <1>2, StopOK DEF TypeInv
<1>4. TypeInv'
  BY <1>1, <1>3, BrowserTypes DEF TypeInv, ReplyOK
<1>. QED
  BY <1>1, <1>2, <1>3, <1>4 DEF Is

(* A change of a file marks the requests of the slots that look at it.     *)
LEMMA ChangeIs ==
  ASSUME TypeInv, NEW f \in File, NEW length \in 0..MaxLength, Change(f, length)
  PROVE  /\ TypeInv' /\ UNCHANGED <<queue, asked, slot, reply, client, lapsed>>
         /\ stirred \subseteq stirred'
         /\ \A g \in File : g # f => disk'[g] = disk[g]
         /\ \A s \in Slot : /\ slot[s].at \in {"header", "read"}
                            /\ asked[slot[s].id].file = f
                         => slot[s].id \in stirred'
<1>1. /\ UNCHANGED <<queue, asked, slot, reply, client, lapsed, struck>> /\ events' \in Nat
      /\ stirred' = stirred \cup {slot[s].id : s \in {t \in Slot : /\ slot[t].at \in {"header", "read"}
                                                               /\ asked[slot[t].id].file = f}}
  BY DEF Change, Event, TypeInv, HistoryOK
<1>2. disk' \in [File -> Version] /\ \A g \in File : g # f => disk'[g] = disk[g]
  <2>1. disk[f] \in Version /\ disk \in [File -> Version]
    BY DEF TypeInv, DiskOK
  <2>3. PICK there \in BOOLEAN :
          disk' = [disk EXCEPT ![f] = [there |-> there, length |-> length, number |-> disk[f].number + 1]]
    BY DEF Change
  <2>2. [there |-> there, length |-> length, number |-> disk[f].number + 1] \in Version
    BY <2>1 DEF Version
  <2>. QED
    BY <2>1, <2>2, <2>3
<1>3. \A s \in Slot : slot[s].at \in {"header", "read"} => slot[s].id \in Id
  BY OfOK DEF TypeInv, Works, Busy
<1>4. stirred' \subseteq Id
  BY <1>1, <1>3 DEF TypeInv, HistoryOK
<1>5. LineOK'
  BY <1>1, LineKept DEF TypeInv, Works
<1>6. TypeInv'
  BY <1>1, <1>2, <1>4, <1>5 DEF TypeInv, DiskOK, SlotOK, ReplyOK, ClientOK, HistoryOK
<1>7. stirred \subseteq stirred' /\ \A s \in Slot : /\ slot[s].at \in {"header", "read"}
                            /\ asked[slot[s].id].file = f
                         => slot[s].id \in stirred'
  BY <1>1
<1>. QED
  BY <1>1, <1>2, <1>6, <1>7

-----------------------------------------------------------------------------
\* Who is served, and by whom

(* The steps, as the proofs take them.                                     *)
LEMMA NextCases ==
  ASSUME [Next]_vars
  PROVE  \/ \E s \in Slot : Take(s) \/ Look(s) \/ Send(s) \/ ServeThrows(s)
         \/ Crash
         \/ \E id \in Id : Lapse(id)
         \/ \E c \in Client : Ask(c) \/ Request(c) \/ FirstFrame(c) \/ Pull(c) \/ Stops(c)
         \/ \E f \in File, length \in 0..MaxLength : Change(f, length)
         \/ UNCHANGED vars
  BY DEF Next, Serve, Carry, Stops

LEMMA TypesStep == TypeInv /\ [Next]_vars => TypeInv'
<1>. SUFFICES ASSUME TypeInv, [Next]_vars PROVE TypeInv'
  OBVIOUS
<1>1. ASSUME NEW s \in Slot, Take(s) \/ Look(s) \/ Send(s) \/ ServeThrows(s) PROVE TypeInv'
  BY <1>1, TakeStep, LookIs, SendIs, ThrowsIs
<1>2. ASSUME NEW c \in Client, Ask(c) \/ Request(c) \/ FirstFrame(c) \/ Pull(c) \/ Stops(c) PROVE TypeInv'
  BY <1>2, AskIs, RequestIs, FirstFrameIs, PullIs, StopsIs
<1>3. CASE Crash \/ (\E id \in Id : Lapse(id)) \/ \E f \in File, length \in 0..MaxLength : Change(f, length)
  BY <1>3, CrashIs, LapseIs, ChangeIs
<1>4. CASE UNCHANGED vars
  BY <1>4 DEF vars, ghosts, TypeInv, DiskOK, LineOK, SlotOK, ReplyOK, ClientOK, HistoryOK, Works
<1>. QED
  BY <1>1, <1>2, <1>3, <1>4, NextCases

-----------------------------------------------------------------------------

(* Requests are queued in the order of their numbers, a slot has one that  *)
(* is older than all in the queue, and no two slots have the same.         *)
QueueInOrder == \A i, j \in 1..Len(queue) : i < j => queue[i] < queue[j]
SlotIds ==
  /\ QueueInOrder
  /\ \A s \in Slot : Works(s) => \A i \in 1..Len(queue) : slot[s].id < queue[i]
  /\ \A s, t \in Slot : Works(s) /\ Works(t) /\ s # t => slot[s].id # slot[t].id

(* A browser waits for a request of its own, for the file it names.        *)
ClientIds ==
  /\ \A c \in Client : Active(c) => /\ client[c].id \in 1..Len(asked)
                                    /\ client[c].file = asked[client[c].id].file
  /\ \A c, d \in Client : Active(c) /\ Active(d) /\ c # d => client[c].id # client[d].id

LEMMA SlotIdsKept ==
  ASSUME SlotIds, UNCHANGED queue,
         \A s \in Slot : Works(s)' => Works(s) /\ slot'[s].id = slot[s].id
  PROVE  SlotIds'
  BY DEF SlotIds, QueueInOrder

(* Taking keeps the order, since the head is the oldest.                   *)
LEMMA SlotIdsTake ==
  ASSUME TypeInv, SlotIds, NEW s \in Slot, Take(s) PROVE SlotIds'
<1>1. queue \in Seq(Id) /\ queue # <<>> /\ queue' = Tail(queue)
  BY DEF Take, TypeInv, LineOK
<1>2. /\ Head(queue) = queue[1] /\ Len(queue) \in Nat /\ 1 <= Len(queue)
      /\ Len(queue') = Len(queue) - 1
      /\ \A i \in 1..Len(queue') : queue'[i] = queue[i + 1] /\ i + 1 \in 1..Len(queue) /\ 1 < i + 1
  BY <1>1, HeadTailProperties, EmptySeq
<1>3. slot'[s].id = queue[1] /\ \A t \in Slot : t # s => slot'[t] = slot[t]
  BY <1>2, TakeStep
<1>4. QueueInOrder'
  <2>1. \A i, j \in 1..Len(queue') : i < j => i + 1 < j + 1
    OBVIOUS
  <2>. QED
    BY <1>2, <2>1 DEF SlotIds, QueueInOrder
<1>5. \A i \in 1..Len(queue') : queue[1] < queue'[i]
  BY <1>2 DEF SlotIds, QueueInOrder
<1>6. \A t \in Slot : t # s /\ Works(t) => slot[t].id < queue[1] /\ slot[t].id \in Nat
  BY <1>2, OfOK DEF SlotIds, TypeInv, Id
<1>7. \A t \in Slot : Works(t)' => \A i \in 1..Len(queue') : slot'[t].id < queue'[i]
  BY <1>2, <1>3, <1>5 DEF SlotIds, Works
<1>8. \A t \in Slot : t # s /\ Works(t)' => slot'[t].id < slot'[s].id /\ slot'[t].id \in Nat
  BY <1>3, <1>6 DEF Works
<1>9. ASSUME NEW t \in Slot, NEW u \in Slot, Works(t)', Works(u)', t # u PROVE slot'[t].id # slot'[u].id
  <2>1. CASE t # s /\ u # s
    BY <1>3, <1>9, <2>1 DEF SlotIds, Works
  <2>2. CASE t = s \/ u = s
    BY <1>8, <1>9, <2>2
  <2>. QED
    BY <2>1, <2>2
<1>. QED
  BY <1>4, <1>7, <1>9 DEF SlotIds

(* A new request is younger than all others.                               *)
LEMMA IdsRequest ==
  ASSUME TypeInv, SlotIds, ClientIds, NEW c \in Client, Request(c) PROVE SlotIds' /\ ClientIds'
<1>1. /\ Len(asked') = Len(asked) + 1
      /\ \A i \in 1..Len(asked) : asked'[i] = asked[i]
      /\ Len(queue') = Len(queue) + 1 /\ queue'[Len(queue) + 1] = Len(asked')
      /\ \A i \in 1..Len(queue) : queue'[i] = queue[i]
      /\ \A d \in Client : d # c => client'[d] = client[d]
      /\ client'[c].id = Len(asked') /\ client'[c].file = asked'[Len(asked')].file
      /\ UNCHANGED slot
  BY RequestIs
<1>2. /\ Len(asked) \in Nat /\ Len(queue) \in Nat
      /\ \A i \in 1..Len(queue) : queue[i] \in 1..Len(asked)
      /\ \A s \in Slot : Works(s) => slot[s].id \in 1..Len(asked)
  BY LenProperties DEF TypeInv, LineOK
<1>3. \A i \in 1..Len(queue') : i \in 1..Len(queue) \/ i = Len(queue) + 1
  BY <1>1, <1>2
<1>4. QueueInOrder'
  <2>. SUFFICES ASSUME NEW i \in 1..Len(queue'), NEW j \in 1..Len(queue'), i < j PROVE queue'[i] < queue'[j]
    BY DEF QueueInOrder
  <2>1. i \in 1..Len(queue)
    BY <1>1, <1>2
  <2>2. CASE j \in 1..Len(queue)
    BY <1>1, <2>1, <2>2 DEF SlotIds, QueueInOrder
  <2>3. CASE j = Len(queue) + 1
    BY <1>1, <1>2, <2>1, <2>3
  <2>. QED
    BY <1>3, <2>2, <2>3
<1>5. ASSUME NEW s \in Slot, Works(s)', NEW i \in 1..Len(queue') PROVE slot'[s].id < queue'[i]
  <2>1. Works(s) /\ slot'[s].id = slot[s].id
    BY <1>1, <1>5 DEF Works
  <2>2. CASE i \in 1..Len(queue)
    BY <1>1, <2>1, <2>2 DEF SlotIds
  <2>3. CASE i = Len(queue) + 1
    BY <1>1, <1>2, <2>1, <2>3
  <2>. QED
    BY <1>3, <2>2, <2>3
<1>6. SlotIds'
  <2>1. \A s, t \in Slot : Works(s)' /\ Works(t)' /\ s # t => slot'[s].id # slot'[t].id
    BY <1>1 DEF SlotIds, Works
  <2>. QED
    BY <1>4, <1>5, <2>1 DEF SlotIds
<1>7. \A d \in Client : d # c /\ Active(d)' => /\ client'[d].id \in 1..Len(asked)
                                               /\ client'[d].file = asked'[client'[d].id].file
  BY <1>1 DEF ClientIds, Active
<1>8. Len(asked') \notin 1..Len(asked) /\ Len(asked') \in 1..Len(asked') /\ 1..Len(asked) \subseteq 1..Len(asked')
  BY <1>1, <1>2
<1>9. ClientIds'
  <2>1. \A d \in Client : Active(d)' => /\ client'[d].id \in 1..Len(asked')
                                        /\ client'[d].file = asked'[client'[d].id].file
    BY <1>1, <1>7, <1>8
  <2>2. ASSUME NEW d \in Client, NEW e \in Client, Active(d)', Active(e)', d # e
        PROVE  client'[d].id # client'[e].id
    <3>1. CASE d # c /\ e # c
      BY <1>1, <2>2, <3>1 DEF ClientIds, Active
    <3>2. CASE d = c \/ e = c
      BY <1>1, <1>7, <1>8, <2>2, <3>2
    <3>. QED
      BY <3>1, <3>2
  <2>. QED
    BY <2>1, <2>2 DEF ClientIds
<1>. QED
  BY <1>6, <1>9

LEMMA ClientIdsKept ==
  ASSUME ClientIds, UNCHANGED asked,
         \A c \in Client : Active(c)' => /\ Active(c) /\ client'[c].id = client[c].id
                                         /\ client'[c].file = client[c].file
  PROVE  ClientIds'
  BY DEF ClientIds

(* What everybody but Ask and Request keeps: who is served, and with what. *)
Steady ==
  /\ UNCHANGED asked
  /\ \A c \in Client : Active(c)' => /\ Active(c) /\ client'[c].id = client[c].id
                                     /\ client'[c].file = client[c].file
                                     /\ client'[c].kind = client[c].kind
                                     /\ client'[c].wanted = client[c].wanted
                                     /\ client'[c].parts = client[c].parts
LEMMA SteadyStep ==
  ASSUME TypeInv, [Next]_vars, \A c \in Client : ~Request(c) PROVE Steady
<1>. USE DEF Steady
<1>1. ASSUME NEW s \in Slot, Take(s) \/ Look(s) \/ Send(s) \/ ServeThrows(s) PROVE Steady
  BY <1>1 DEF Take, Look, Send, ServeThrows, Active
<1>2. CASE Crash \/ (\E id \in Id : Lapse(id)) \/ \E f \in File, length \in 0..MaxLength : Change(f, length)
  BY <1>2 DEF Crash, Lapse, Change, Active
<1>3. ASSUME NEW c \in Client, Ask(c) PROVE Steady
  BY <1>3, AskIs DEF Active
<1>4. ASSUME NEW c \in Client, FirstFrame(c) PROVE Steady
  <2>1. UNCHANGED asked /\ (\A d \in Client : d # c => client'[d] = client[d]) /\ Active(c)
    BY <1>4, FirstFrameIs DEF Active, Is
  <2>2. CASE client'[c].at = "failed"
    BY <2>1, <2>2 DEF Active
  <2>3. CASE \E frame : client'[c] = [at |-> IF client[c].kind = "download" THEN "audit" ELSE "body",
                     kind |-> client[c].kind, wanted |-> client[c].wanted,
                     parts |-> client[c].parts, id |-> client[c].id,
                     file |-> client[c].file, n |-> frame.n, number |-> frame.number,
                     cut |-> frame.cut, got |-> <<>>]
    BY <2>1, <2>3 DEF Active
  <2>. QED
    BY <1>4, <2>2, <2>3, FirstFrameIs
<1>5. ASSUME NEW c \in Client, Pull(c) PROVE Steady
  <2>1. UNCHANGED asked /\ (\A d \in Client : d # c => client'[d] = client[d]) /\ Active(c)
    BY <1>5, PullIs DEF Active, Is
  <2>2. CASE client'[c].at = "failed"
    BY <2>1, <2>2 DEF Active
  <2>3. CASE client'[c] = [at |-> IF ~Accepts(client[c]) THEN "failed"
                              ELSE IF client[c].kind = "archive" THEN "next" ELSE "complete",
                       kind |-> client[c].kind, wanted |-> client[c].wanted,
                       parts |-> client[c].parts \cup {AsPart(client[c])}]
    BY <2>1, <2>3 DEF Active
  <2>4. ASSUME client[c] \in Reading,
               client'[c] = [client[c] EXCEPT !.got = Append(client[c].got, Head(Frames(client[c].id)))]
        PROVE  Steady
    BY <2>1, <2>4 DEF Active, Reading
  <2>. QED
    BY <1>5, <2>2, <2>3, <2>4, PullIs
<1>6. ASSUME NEW c \in Client, Stops(c) PROVE Steady
  <2>1. UNCHANGED asked /\ (\A d \in Client : d # c => client'[d] = client[d])
    BY <1>6, StopsIs
  <2>2. CASE client'[c].at \in {"failed", "cancelled"}
    BY <2>1, <2>2 DEF Active
  <2>3. ASSUME Is(c, "next"), client'[c] = [client[c] EXCEPT !.at = "complete"] PROVE Steady
    <3>1. client[c] \in Choosing
      BY <2>3, ClientIs DEF Is, TypeInv
    <3>. QED
      BY <2>1, <2>3, <3>1 DEF Active, Choosing
  <2>4. ASSUME Is(c, "audit"), client'[c] = [client[c] EXCEPT !.at = "body"] PROVE Steady
    <3>1. client[c] \in Reading
      BY <2>4, ClientIs DEF Is, TypeInv
    <3>. QED
      BY <2>1, <2>4, <3>1 DEF Active, Reading, Is
  <2>. QED
    BY <1>6, <2>2, <2>3, <2>4, StopsIs
<1>7. CASE UNCHANGED vars
  BY <1>7 DEF vars, Active
<1>. QED
  BY <1>1, <1>2, <1>3, <1>4, <1>5, <1>6, <1>7, NextCases

LEMMA IdsStep ==
  ASSUME TypeInv, SlotIds, ClientIds, [Next]_vars PROVE SlotIds' /\ ClientIds'
<1>1. CASE \E c \in Client : Request(c)
  BY <1>1, IdsRequest
<1>2. CASE \A c \in Client : ~Request(c)
  <2>1. ClientIds'
    BY <1>2, SteadyStep, ClientIdsKept DEF Steady
  <2>2. ASSUME NEW s \in Slot, Take(s) PROVE SlotIds'
    BY <2>2, SlotIdsTake
  <2>3. ASSUME NEW s \in Slot, Look(s) \/ Send(s) \/ ServeThrows(s) PROVE SlotIds'
    <3>1. /\ Works(s) /\ (Works(s)' => slot'[s].id = slot[s].id)
          /\ \A t \in Slot : t # s => slot'[t] = slot[t]
      BY <2>3, LookIs, SendIs, ThrowsIs
    <3>2. UNCHANGED queue
      BY <2>3 DEF Look, Send, ServeThrows
    <3>3. \A t \in Slot : Works(t)' => Works(t) /\ slot'[t].id = slot[t].id
      BY <3>1 DEF Works
    <3>. QED
      BY <3>2, <3>3, SlotIdsKept
  <2>4. CASE Crash
    BY <2>1, <2>4, CrashIs, SlotIdsKept
  <2>5. CASE UNCHANGED <<queue, slot>>
    BY <2>1, <2>5, SlotIdsKept DEF Works
  <2>. QED
    BY <1>2, <2>1, <2>2, <2>3, <2>4, <2>5, NextCases, LapseIs, AskIs, FirstFrameIs, PullIs, StopsIs, ChangeIs DEF vars
<1>. QED
  BY <1>1, <1>2

-----------------------------------------------------------------------------
\* What is still untouched, and what was seen

(* Nothing has been pushed for a request that no slot has looked at.       *)
FreshInv ==
  /\ \A id \in Id : id > Len(asked) => Frames(id) = <<>> /\ id \notin lapsed
  /\ \A i \in 1..Len(queue) : Frames(queue[i]) = <<>>
  /\ \A s \in Slot : slot[s].at \in {"connect", "header"} => Frames(slot[s].id) = <<>>

LEMMA FreshKept ==
  ASSUME TypeInv, FreshInv, UNCHANGED <<asked, queue>>,
         \A s \in Slot : slot'[s].at \in {"connect", "header"} => slot'[s] = slot[s],
         \A j \in Id : Frames(j) = <<>> => reply'[j].frames = <<>>,
         \A j \in lapsed' : j \in lapsed \/ Frames(j) # <<>>
  PROVE  FreshInv'
<1>1. \A id \in Id : id > Len(asked') => reply'[id].frames = <<>> /\ id \notin lapsed'
  BY DEF FreshInv
<1>2. \A i \in 1..Len(queue') : reply'[queue'[i]].frames = <<>>
  BY LenProperties, ElementOfSeq DEF FreshInv, TypeInv, LineOK
<1>3. ASSUME NEW s \in Slot, slot'[s].at \in {"connect", "header"} PROVE reply'[slot'[s].id].frames = <<>>
  <2>1. slot'[s] = slot[s] /\ Works(s)
    BY <1>3 DEF Works, Busy
  <2>2. slot[s].id \in Id
    BY <2>1, OfOK DEF TypeInv
  <2>. QED
    BY <1>3, <2>1, <2>2 DEF FreshInv
<1>. QED
  BY <1>1, <1>2, <1>3 DEF FreshInv, Frames

(* A push is to the list of a request that left the queue.                 *)
LEMMA FreshPush ==
  ASSUME TypeInv, SlotIds, FreshInv, NEW s \in Slot, Works(s), UNCHANGED <<asked, queue, lapsed>>,
         \A j \in Id : j # slot[s].id => reply'[j].frames = Frames(j),
         \A t \in Slot : slot'[t].at \in {"connect", "header"} => t # s /\ slot'[t] = slot[t]
  PROVE  FreshInv'
<1>0. slot[s].id \in 1..Len(asked) /\ Len(asked) \in Nat
  BY OfOK, LenProperties DEF TypeInv, LineOK
<1>1. \A id \in Id : id > Len(asked') => reply'[id].frames = <<>> /\ id \notin lapsed'
  <2>1. \A id \in Id : id > Len(asked) => id # slot[s].id
    BY <1>0 DEF Id
  <2>. QED
    BY <2>1 DEF FreshInv
<1>2. ASSUME NEW i \in 1..Len(queue') PROVE reply'[queue'[i]].frames = <<>>
  <2>1. queue[i] \in Id
    BY ElementOfSeq DEF TypeInv, LineOK
  <2>2. slot[s].id < queue[i] /\ queue[i] \in Nat
    BY <2>1 DEF SlotIds, Id
  <2>3. queue[i] # slot[s].id
    BY <1>0, <2>2
  <2>. QED
    BY <2>1, <2>3 DEF FreshInv
<1>3. ASSUME NEW t \in Slot, slot'[t].at \in {"connect", "header"} PROVE reply'[slot'[t].id].frames = <<>>
  <2>1. t # s /\ slot'[t] = slot[t] /\ Works(t)
    BY <1>3 DEF Works, Busy
  <2>2. slot[t].id \in Id /\ slot[t].id # slot[s].id
    BY <2>1, OfOK DEF TypeInv, SlotIds
  <2>. QED
    BY <1>3, <2>1, <2>2 DEF FreshInv
<1>. QED
  BY <1>1, <1>2, <1>3 DEF FreshInv, Frames

LEMMA FreshTake ==
  ASSUME TypeInv, FreshInv, NEW s \in Slot, Take(s) PROVE FreshInv'
<1>1. queue \in Seq(Id) /\ queue # <<>> /\ queue' = Tail(queue) /\ UNCHANGED <<asked, reply, lapsed>>
  BY DEF Take, TypeInv, LineOK, ghosts
<1>2. /\ Head(queue) = queue[1] /\ Len(queue) \in Nat /\ 1 <= Len(queue)
      /\ Len(queue') = Len(queue) - 1
      /\ \A i \in 1..Len(queue') : queue'[i] = queue[i + 1] /\ i + 1 \in 1..Len(queue)
  BY <1>1, HeadTailProperties, EmptySeq
<1>3. slot'[s].id = queue[1] /\ \A t \in Slot : t # s => slot'[t] = slot[t]
  BY <1>2, TakeStep
<1>. QED
  BY <1>1, <1>2, <1>3 DEF FreshInv, Frames

LEMMA FreshRequest ==
  ASSUME TypeInv, FreshInv, NEW c \in Client, Request(c) PROVE FreshInv'
<1>1. /\ Len(asked') = Len(asked) + 1 /\ Len(asked') \in Id
      /\ Len(queue') = Len(queue) + 1 /\ queue'[Len(queue) + 1] = Len(asked')
      /\ \A i \in 1..Len(queue) : queue'[i] = queue[i]
      /\ UNCHANGED <<slot, reply, lapsed>>
  BY RequestIs DEF ghosts
<1>2. Len(asked) \in Nat /\ Len(queue) \in Nat
  BY LenProperties DEF TypeInv, LineOK
<1>3. \A i \in 1..Len(queue') : i \in 1..Len(queue) \/ i = Len(queue) + 1
  BY <1>1, <1>2
<1>4. Frames(Len(asked')) = <<>>
  BY <1>1, <1>2 DEF FreshInv
<1>5. \A id \in Id : id > Len(asked') => id > Len(asked)
  BY <1>1, <1>2 DEF Id
<1>. QED
  BY <1>1, <1>3, <1>4, <1>5 DEF FreshInv, Frames

LEMMA FreshStep ==
  ASSUME TypeInv, SlotIds, FreshInv, [Next]_vars PROVE FreshInv'
<1>1. ASSUME NEW s \in Slot, Take(s) PROVE FreshInv'
  BY <1>1, FreshTake
<1>2. ASSUME NEW s \in Slot, Look(s) PROVE FreshInv'
  <2>1. /\ Works(s) /\ UNCHANGED <<asked, queue, lapsed>> /\ slot[s].at = "connect"
        /\ \A t \in Slot : t # s => slot'[t] = slot[t]
    BY <1>2, LookIs DEF Look, ghosts
  <2>2. CASE /\ slot'[s].at = "end"
             /\ Plain(s, "error") \in Frame
             /\ reply' = [reply EXCEPT ![slot[s].id] = Put(slot[s].id, Plain(s, "error"))]
    <3>1. \A j \in Id : j # slot[s].id => reply'[j].frames = Frames(j)
      BY <2>1, <2>2, PushOK, OfOK DEF TypeInv
    <3>2. \A t \in Slot : slot'[t].at \in {"connect", "header"} => t # s /\ slot'[t] = slot[t]
      BY <2>1, <2>2
    <3>. QED
      BY <2>1, <3>1, <3>2, FreshPush
  <2>3. CASE slot'[s].id = slot[s].id /\ UNCHANGED reply
    BY <2>1, <2>3 DEF FreshInv, Frames
  <2>. QED
    BY <1>2, <2>2, <2>3, LookIs
<1>3. ASSUME NEW s \in Slot, Send(s) PROVE FreshInv'
  <2>1. /\ Works(s) /\ UNCHANGED <<asked, queue, lapsed>> /\ slot[s].id \in Id /\ Following(s) \in Frame
        /\ \A t \in Slot : t # s => slot'[t] = slot[t]
        /\ reply' = [reply EXCEPT ![slot[s].id] = Put(slot[s].id, Following(s))]
    BY <1>3, SendIs, OfOK, FollowingIs DEF Send, ghosts, TypeInv
  <2>2. \A j \in Id : j # slot[s].id => reply'[j].frames = Frames(j)
    BY <2>1, PushOK DEF TypeInv
  <2>3. slot'[s].at \notin {"connect", "header"}
    <3>1. CASE slot[s].at = "header" /\ slot'[s] = [slot[s] EXCEPT !.at = "read"]
      BY <3>1, SlotIs DEF TypeInv
    <3>2. CASE slot[s].at = "read" /\ Left(s) /\ slot'[s] = [slot[s] EXCEPT !.next = slot[s].next + 1]
      BY <3>2, SlotIs DEF TypeInv
    <3>3. CASE slot'[s] = IdleSlot
      BY <3>3 DEF IdleSlot
    <3>. QED
      BY <1>3, <3>1, <3>2, <3>3, SendIs
  <2>. QED
    BY <2>1, <2>2, <2>3, FreshPush
<1>4. ASSUME NEW s \in Slot, ServeThrows(s) PROVE FreshInv'
  <2>1. /\ Works(s) /\ UNCHANGED <<asked, queue, lapsed>> /\ slot[s].id \in Id /\ Plain(s, "error") \in Frame
        /\ \A t \in Slot : t # s => slot'[t] = slot[t]
        /\ slot'[s].at = "idle"
        /\ reply' = [reply EXCEPT ![slot[s].id] = Put(slot[s].id, Plain(s, "error"))]
    BY <1>4, ThrowsIs, OfOK DEF ServeThrows, ghosts, TypeInv, IdleSlot
  <2>2. \A j \in Id : j # slot[s].id => reply'[j].frames = Frames(j)
    BY <2>1, PushOK DEF TypeInv
  <2>. QED
    BY <2>1, <2>2, FreshPush
<1>5. CASE Crash
  <2>1. /\ UNCHANGED <<asked, queue, lapsed>>
        /\ \A t \in Slot : slot'[t].at \notin {"connect", "header"}
    BY <1>5, CrashIs DEF Works, Busy
  <2>2. CASE UNCHANGED reply
    BY <2>1, <2>2, FreshKept DEF Frames
  <2>3. ASSUME NEW s \in Slot, slot[s].at \in {"header", "read", "end"}, Works(s),
               reply' = [reply EXCEPT ![slot[s].id] = Stripped(slot[s].id, Following(s))]
        PROVE  FreshInv'
    <3>1. slot[s].id \in Id /\ Following(s) \in Frame
      BY <2>3, OfOK, FollowingIs DEF TypeInv
    <3>2. \A j \in Id : j # slot[s].id => reply'[j].frames = Frames(j)
      BY <2>3, <3>1, PushOK DEF TypeInv
    <3>. QED
      BY <2>1, <2>3, <3>2, FreshPush
  <2>. QED
    BY <1>5, <2>2, <2>3, CrashIs
<1>6. ASSUME NEW id \in Id, Lapse(id) PROVE FreshInv'
  <2>1. Frames(id) # <<>> /\ UNCHANGED <<asked, queue, slot>> /\ lapsed' = lapsed \cup {id}
        /\ reply'[id].frames = <<>> /\ \A j \in Id : j # id => reply'[j].frames = Frames(j)
    BY <1>6, LapseIs DEF Lapse
  <2>. QED
    BY <2>1, FreshKept
<1>7. ASSUME NEW c \in Client, FirstFrame(c) \/ Pull(c) PROVE FreshInv'
  <2>1. /\ UNCHANGED <<asked, queue, slot, lapsed>> /\ client[c].id \in Id /\ Frames(client[c].id) # <<>>
        /\ \A j \in Id : j # client[c].id => reply'[j].frames = Frames(j)
    BY <1>7, FirstFrameIs, PullIs DEF ghosts
  <2>. QED
    BY <2>1, FreshKept
<1>8. ASSUME NEW c \in Client, Request(c) PROVE FreshInv'
  BY <1>8, FreshRequest
<1>9. CASE UNCHANGED <<asked, queue, slot, reply, lapsed>>
  BY <1>9 DEF FreshInv, Frames
<1>. QED
  BY <1>1, <1>2, <1>3, <1>4, <1>5, <1>6, <1>7, <1>8, <1>9, NextCases, AskIs, StopsIs, ChangeIs DEF vars, ghosts

-----------------------------------------------------------------------------
(* Until somebody changes the file, it is what the slot saw.               *)
SeenAt(s) ==
  /\ slot[s].at = "header" => slot[s].next = 1
  /\ slot[s].at \in {"header", "read"} /\ slot[s].id \notin stirred =>
       /\ slot[s].seen = disk[Of(s).file]
       /\ slot[s].next <= Smaller(slot[s].seen.length, Of(s).cap) + 1
SeenInv == \A s \in Slot : SeenAt(s)

LEMMA SeenKept ==
  ASSUME TypeInv, NEW s \in Slot, SeenAt(s), slot'[s] = slot[s], UNCHANGED disk, stirred \subseteq stirred',
         \A i \in 1..Len(asked) : asked'[i] = asked[i]
  PROVE  SeenAt(s)'
<1>1. CASE Works(s)
  <2>1. asked'[slot[s].id] = asked[slot[s].id]
    BY <1>1, OfOK DEF TypeInv
  <2>. QED
    BY <2>1 DEF SeenAt, Of
<1>2. CASE ~Works(s)
  BY <1>2 DEF SeenAt, Works, Busy
<1>. QED
  BY <1>1, <1>2

LEMMA SeenStep ==
  ASSUME TypeInv, SeenInv, [Next]_vars PROVE SeenInv'
<1>1. ASSUME NEW s \in Slot, Take(s) \/ Look(s) \/ Send(s) \/ ServeThrows(s) PROVE SeenInv'
  <2>1. (\A t \in Slot : t # s => slot'[t] = slot[t]) /\ UNCHANGED <<disk, asked, stirred>>
    BY <1>1, TakeStep, LookIs, SendIs, ThrowsIs DEF Take, Look, Send, ServeThrows, ghosts
  <2>2. \A t \in Slot : t # s => SeenAt(t)'
    BY <2>1, SeenKept DEF SeenInv
  <2>3. ASSUME Take(s) \/ ServeThrows(s) PROVE SeenAt(s)'
    BY <2>3, TakeStep, ThrowsIs DEF SeenAt, IdleSlot
  <2>4. ASSUME Look(s) PROVE SeenAt(s)'
    <3>1. CASE slot'[s].at = "end"
      BY <3>1 DEF SeenAt
    <3>2. CASE slot'[s] = [at |-> "header", id |-> slot[s].id, seen |-> disk[Of(s).file], next |-> 1]
      <4>1. Works(s) /\ Of(s).file \in File /\ Of(s).cap \in Nat
        BY <2>4, LookIs, OfOK, AskingIs DEF TypeInv
      <4>2. disk[Of(s).file].length \in Nat
        BY <4>1, VersionIs DEF TypeInv, DiskOK
      <4>3. 1 <= Smaller(disk[Of(s).file].length, Of(s).cap) + 1
        BY <4>1, <4>2, SmallerIs
      <4>4. Of(s)' = Of(s)
        BY <2>1, <3>2 DEF Of
      <4>. QED
        BY <2>1, <3>2, <4>3, <4>4 DEF SeenAt
    <3>. QED
      BY <2>4, <3>1, <3>2, LookIs
  <2>5. ASSUME Send(s) PROVE SeenAt(s)'
    <3>1. CASE slot[s].at = "header" /\ slot'[s] = [slot[s] EXCEPT !.at = "read"]
      <4>1. /\ slot'[s].at = "read" /\ slot'[s].id = slot[s].id /\ slot'[s].seen = slot[s].seen
            /\ slot'[s].next = slot[s].next
        BY <3>1, SlotIs DEF TypeInv
      <4>2. Of(s)' = Of(s)
        BY <2>1, <4>1 DEF Of
      <4>. QED
        BY <2>1, <3>1, <4>1, <4>2 DEF SeenInv, SeenAt
    <3>2. CASE slot[s].at = "read" /\ Left(s) /\ slot'[s] = [slot[s] EXCEPT !.next = slot[s].next + 1]
      <4>1. /\ slot'[s].at = "read" /\ slot'[s].id = slot[s].id /\ slot'[s].seen = slot[s].seen
            /\ slot'[s].next = slot[s].next + 1 /\ slot[s].next \in Nat /\ slot[s].seen \in Version
        BY <3>2, SlotIs DEF TypeInv
      <4>2. Of(s)' = Of(s)
        BY <2>1, <4>1 DEF Of
      <4>3. Works(s) /\ Of(s).cap \in Nat /\ slot[s].seen.length \in Nat
        BY <2>5, <4>1, SendIs, OfOK, AskingIs, VersionIs DEF TypeInv
      <4>4. Smaller(slot[s].seen.length, Of(s).cap) \in Nat
        BY <4>3, SmallerIs
      <4>5. slot[s].id \notin stirred =>
              /\ slot[s].seen = disk[Of(s).file]
              /\ slot[s].next <= Smaller(slot[s].seen.length, Of(s).cap)
        BY <3>2 DEF SeenInv, SeenAt, Left
      <4>6. slot[s].id \notin stirred => slot[s].next + 1 <= Smaller(slot[s].seen.length, Of(s).cap) + 1
        BY <4>1, <4>4, <4>5
      <4>. QED
        BY <2>1, <4>1, <4>2, <4>5, <4>6 DEF SeenAt
    <3>3. CASE slot'[s] = IdleSlot
      BY <3>3 DEF SeenAt, IdleSlot
    <3>. QED
      BY <2>5, <3>1, <3>2, <3>3, SendIs
  <2>. QED
    BY <1>1, <2>2, <2>3, <2>4, <2>5 DEF SeenInv
<1>2. CASE Crash
  BY <1>2, CrashIs DEF SeenInv, SeenAt, Works, Busy
<1>3. ASSUME NEW f \in File, NEW length \in 0..MaxLength, Change(f, length) PROVE SeenInv'
  <2>1. UNCHANGED <<asked, slot>> /\ stirred \subseteq stirred' /\ (\A g \in File : g # f => disk'[g] = disk[g])
        /\ \A s \in Slot : slot[s].at \in {"header", "read"} /\ Of(s).file = f => slot[s].id \in stirred'
    BY <1>3, ChangeIs DEF Of
  <2>2. ASSUME NEW s \in Slot, slot[s].at \in {"header", "read"}, slot[s].id \notin stirred'
        PROVE  disk'[Of(s).file] = disk[Of(s).file]
    <3>1. Of(s).file \in File /\ Of(s).file # f
      BY <2>1, <2>2, OfOK, AskingIs DEF Works, Busy, TypeInv
    <3>. QED
      BY <2>1, <3>1
  <2>3. \A s \in Slot : Of(s)' = Of(s)
    BY <2>1 DEF Of
  <2>. QED
    BY <2>1, <2>2, <2>3 DEF SeenInv, SeenAt
<1>4. CASE /\ UNCHANGED <<disk, slot, stirred>> /\ \A i \in 1..Len(asked) : asked'[i] = asked[i]
  BY <1>4, SeenKept DEF SeenInv
<1>5. ASSUME NEW c \in Client, Ask(c) \/ Request(c) \/ FirstFrame(c) \/ Pull(c) \/ Stops(c)
      PROVE  /\ UNCHANGED <<disk, slot, stirred>> /\ \A i \in 1..Len(asked) : asked'[i] = asked[i]
  BY <1>5, AskIs, RequestIs, FirstFrameIs, PullIs, StopsIs DEF ghosts
<1>. QED
  BY <1>1, <1>2, <1>3, <1>4, <1>5, NextCases, LapseIs DEF vars, ghosts

-----------------------------------------------------------------------------
\* The stream of a browser

(* What a browser has taken, as if it had kept the header, and what waits. *)
HeaderOf(r) == [is |-> "header", file |-> r.file, n |-> r.n, number |-> r.number, cut |-> r.cut]
Stream(c) == IF Is(c, "first") THEN Frames(client[c].id)
             ELSE (<<HeaderOf(client[c])>> \o client[c].got) \o Frames(client[c].id)

(* The stream is a sequence of frames that starts with the header.         *)
LEMMA StreamIs ==
  ASSUME TypeInv, NEW c \in Client, Active(c)
  PROVE  /\ client[c].id \in Id /\ Frames(client[c].id) \in Seq(Frame) /\ Stream(c) \in Seq(Frame)
         /\ Is(c, "first") => Stream(c) = Frames(client[c].id)
         /\ ~Is(c, "first") =>
              /\ client[c] \in Reading /\ HeaderOf(client[c]) \in Frame
              /\ <<HeaderOf(client[c])>> \o client[c].got \in Seq(Frame)
              /\ <<HeaderOf(client[c])>> \o client[c].got # <<>>
              /\ Stream(c) = (<<HeaderOf(client[c])>> \o client[c].got) \o Frames(client[c].id)
              /\ Stream(c) # <<>> /\ Stream(c)[1] = HeaderOf(client[c])
<1>1. CASE Is(c, "first")
  <2>1. client[c].id \in Id
    BY <1>1, ClientIs DEF Is, TypeInv, Waiting
  <2>. QED
    BY <1>1, <2>1, AnswerIs DEF TypeInv, Stream
<1>2. CASE ~Is(c, "first")
  <2>1. client[c] \in Reading
    BY <1>2, ClientIs DEF Is, TypeInv, Active
  <2>2. client[c].id \in Id /\ client[c].got \in Seq(Frame) /\ HeaderOf(client[c]) \in Frame
    BY <2>1 DEF Reading, HeaderOf, Frame
  <2>3. Frames(client[c].id) \in Seq(Frame)
    BY <2>2, AnswerIs DEF TypeInv
  <2> DEFINE h == HeaderOf(client[c])
             g == client[c].got
             F == Frames(client[c].id)
  <2>4. Stream(c) = (<<h>> \o g) \o F
    BY <1>2 DEF Stream
  <2> HIDE DEF h, g, F
  <2>5. <<h>> \in Seq(Frame) /\ Len(<<h>>) = 1 /\ <<h>>[1] = h /\ g \in Seq(Frame) /\ F \in Seq(Frame)
    BY <2>2, <2>3 DEF h, g, F
  <2>6. /\ <<h>> \o g \in Seq(Frame) /\ Len(<<h>> \o g) = 1 + Len(g) /\ Len(g) \in Nat
        /\ (<<h>> \o g)[1] = h
    BY <2>5, ConcatProperties, LenProperties
  <2>7. /\ (<<h>> \o g) \o F \in Seq(Frame) /\ Len((<<h>> \o g) \o F) = 1 + Len(g) + Len(F) /\ Len(F) \in Nat
        /\ ((<<h>> \o g) \o F)[1] = h
    BY <2>5, <2>6, ConcatProperties, LenProperties
  <2>8. <<h>> \o g # <<>> /\ (<<h>> \o g) \o F # <<>>
    BY <2>6, <2>7
  <2>. QED
    BY <1>2, <2>1, <2>2, <2>3, <2>4, <2>6, <2>7, <2>8 DEF h, g, F
<1>. QED
  BY <1>1, <1>2

LEMMA StreamSame ==
  ASSUME TypeInv, NEW c \in Client, Active(c), client'[c] = client[c],
         reply'[client[c].id].frames = Frames(client[c].id)
  PROVE  Stream(c)' = Stream(c)
  BY DEF Stream, Frames, Is, HeaderOf

(* A push is at the end of the stream.                                     *)
LEMMA StreamPushed ==
  ASSUME TypeInv, NEW c \in Client, Active(c), client'[c] = client[c], NEW frame \in Frame,
         reply'[client[c].id].frames = Append(Frames(client[c].id), frame)
  PROVE  Stream(c)' = Append(Stream(c), frame)
<1>1. CASE Is(c, "first")
  BY <1>1 DEF Stream, Frames, Is
<1>2. CASE ~Is(c, "first")
  <2> DEFINE B == <<HeaderOf(client[c])>> \o client[c].got
             F == Frames(client[c].id)
  <2>1. B \in Seq(Frame) /\ F \in Seq(Frame)
    BY <1>2, StreamIs
  <2>2. Stream(c)' = B \o Append(F, frame) /\ Stream(c) = B \o F
    BY <1>2 DEF Stream, Frames, Is, HeaderOf
  <2> HIDE DEF B, F
  <2>3. B \o Append(F, frame) = B \o (F \o <<frame>>)
    BY <2>1, AppendIsConcat
  <2>4. <<frame>> \in Seq(Frame)
    OBVIOUS
  <2>5. B \o (F \o <<frame>>) = (B \o F) \o <<frame>>
    BY <2>1, <2>4, ConcatAssociative
  <2>6. (B \o F) \o <<frame>> = Append(B \o F, frame)
    BY <2>1, AppendIsConcat, ConcatProperties
  <2>. QED
    BY <2>2, <2>3, <2>5, <2>6
<1>. QED
  BY <1>1, <1>2

(* A sequence is its head and what follows.                                *)
LEMMA OneOff ==
  ASSUME NEW F \in Seq(Frame), F # <<>>
  PROVE  F = <<Head(F)>> \o Tail(F) /\ Head(F) = F[1] /\ Head(F) \in Frame /\ Tail(F) \in Seq(Frame)
<1>1. /\ Head(F) = F[1] /\ Head(F) \in Frame /\ Tail(F) \in Seq(Frame)
      /\ Len(Tail(F)) = Len(F) - 1 /\ Len(F) \in Nat /\ Len(F) >= 1
      /\ \A i \in 1 .. Len(Tail(F)) : Tail(F)[i] = F[i+1]
  BY HeadTailProperties, EmptySeq
<1> DEFINE h == Head(F)
           t == Tail(F)
<1> HIDE DEF h, t
<1>2. <<h>> \in Seq(Frame) /\ Len(<<h>>) = 1 /\ <<h>>[1] = h /\ t \in Seq(Frame)
  BY <1>1 DEF h, t
<1>3. /\ <<h>> \o t \in Seq(Frame) /\ Len(<<h>> \o t) = 1 + Len(t)
      /\ \A i \in 1..1 + Len(t) : (<<h>> \o t)[i] = IF i <= 1 THEN <<h>>[i] ELSE t[i - 1]
  BY <1>2, ConcatProperties
<1>4. Len(<<h>> \o t) = Len(F)
  BY <1>1, <1>3 DEF t
<1>5. ASSUME NEW i \in 1..Len(F) PROVE F[i] = (<<h>> \o t)[i]
  <2>1. CASE i = 1
    BY <1>1, <1>2, <1>3, <1>4, <2>1 DEF h
  <2>2. CASE i # 1
    <3>1. i - 1 \in 1..Len(t) /\ ~(i <= 1) /\ (i - 1) + 1 = i
      BY <1>1, <2>2 DEF t
    <3>2. t[i - 1] = F[(i - 1) + 1]
      BY <1>1, <3>1 DEF t
    <3>. QED
      BY <1>3, <1>4, <3>1, <3>2
  <2>. QED
    BY <2>1, <2>2
<1>6. F = <<h>> \o t
  BY <1>3, <1>4, <1>5, SeqEqual
<1>. QED
  BY <1>1, <1>6 DEF h, t

(* Taking a frame moves the border in the stream and nothing else.         *)
LEMMA StreamOpened ==
  ASSUME TypeInv, NEW c \in Client, FirstFrame(c), Active(c)', Head(Frames(client[c].id)).file = client[c].file
  PROVE  Stream(c)' = Stream(c) /\ Head(Frames(client[c].id)).is = "header"
<1> DEFINE F == Frames(client[c].id)
           h == Head(F)
<1>1. /\ Is(c, "first") /\ F \in Seq(Frame) /\ F # <<>> /\ reply'[client[c].id].frames = Tail(F)
      /\ h.is = "header"
      /\ client'[c] = [at |-> IF client[c].kind = "download" THEN "audit" ELSE "body",
                     kind |-> client[c].kind, wanted |-> client[c].wanted,
                     parts |-> client[c].parts, id |-> client[c].id,
                     file |-> client[c].file, n |-> h.n, number |-> h.number,
                     cut |-> h.cut, got |-> <<>>]
  BY FirstFrameIs DEF Active
<1>2. Stream(c) = F
  BY <1>1 DEF Stream
<1>3. HeaderOf(client'[c]) = h
  <2>1. /\ client'[c].file = h.file /\ client'[c].n = h.n /\ client'[c].number = h.number
        /\ client'[c].cut = h.cut
    BY <1>1
  <2>2. h \in Frame
    BY <1>1, OneOff
  <2> HIDE DEF h
  <2>3. h = [is |-> "header", file |-> h.file, n |-> h.n, number |-> h.number, cut |-> h.cut]
    BY <1>1, <2>2 DEF Frame
  <2>. QED
    BY <2>1, <2>3 DEF HeaderOf
<1>4. /\ client'[c].id = client[c].id /\ client'[c].got = <<>> /\ client'[c].at # "first"
  BY <1>1
<1>5. Stream(c)' = (<<h>> \o <<>>) \o Tail(F)
  BY <1>1, <1>3, <1>4 DEF Stream, Is, Frames, HeaderOf
<1> HIDE DEF F, h
<1>6. <<h>> \in Seq(Frame) /\ F = <<h>> \o Tail(F)
  BY <1>1, OneOff DEF h
<1>7. <<h>> \o <<>> = <<h>>
  BY <1>6, ConcatEmptySeq
<1>. QED
  BY <1>1, <1>2, <1>5, <1>6, <1>7 DEF F, h

LEMMA StreamPulled ==
  ASSUME TypeInv, NEW c \in Client, Pull(c), Active(c)'
  PROVE  Stream(c)' = Stream(c)
<1> DEFINE F == Frames(client[c].id)
           f == Head(F)
           h == HeaderOf(client[c])
           g == client[c].got
<1>1. /\ Is(c, "body") /\ F \in Seq(Frame) /\ F # <<>> /\ reply'[client[c].id].frames = Tail(F)
      /\ client[c] \in Reading
      /\ client'[c] = [client[c] EXCEPT !.got = Append(g, f)]
  <2>1. /\ Is(c, "body") /\ F \in Seq(Frame) /\ F # <<>> /\ reply'[client[c].id].frames = Tail(F)
        /\ client[c] \in Reading
    BY PullIs
  <2>2. CASE client'[c].at \in {"failed", "next", "complete"}
    BY <2>2 DEF Active
  <2>3. CASE client'[c] = [client[c] EXCEPT !.got = Append(g, f)]
    BY <2>1, <2>3
  <2>4. CASE client'[c] = [at |-> IF ~Accepts(client[c]) THEN "failed"
                              ELSE IF client[c].kind = "archive" THEN "next" ELSE "complete",
                       kind |-> client[c].kind, wanted |-> client[c].wanted,
                       parts |-> client[c].parts \cup {AsPart(client[c])}]
    <3>1. client'[c].at \in {"failed", "next", "complete"}
      BY <2>4
    <3>. QED
      BY <3>1 DEF Active
  <2>5. client'[c].at = "failed" => client'[c].at \in {"failed", "next", "complete"}
    OBVIOUS
  <2>. QED
    BY <2>2, <2>3, <2>4, <2>5, PullIs
<1>2. /\ client'[c].id = client[c].id /\ client'[c].got = Append(g, f) /\ client'[c].at # "first"
      /\ HeaderOf(client'[c]) = h
  BY <1>1 DEF Reading, HeaderOf, Is
<1>3. Stream(c)' = (<<h>> \o Append(g, f)) \o Tail(F) /\ Stream(c) = (<<h>> \o g) \o F
  BY <1>1, <1>2 DEF Stream, Is, Frames, HeaderOf
<1>4. <<h>> \in Seq(Frame) /\ g \in Seq(Frame)
  BY <1>1 DEF HeaderOf, Reading, Frame
<1>5. F = <<f>> \o Tail(F) /\ f \in Frame /\ Tail(F) \in Seq(Frame) /\ <<f>> \in Seq(Frame)
  <2> HIDE DEF F
  <2>. QED
    BY <1>1, OneOff
<1> DEFINE t == Tail(F)
<1> HIDE DEF F, f, h, g, t
<1>6. <<h>> \o Append(g, f) = (<<h>> \o g) \o <<f>>
  <2>1. Append(g, f) = g \o <<f>>
    BY <1>4, <1>5, AppendIsConcat
  <2>2. <<h>> \o (g \o <<f>>) = (<<h>> \o g) \o <<f>>
    BY <1>4, <1>5, ConcatAssociative
  <2>. QED
    BY <2>1, <2>2
<1>7. ((<<h>> \o g) \o <<f>>) \o t = (<<h>> \o g) \o (<<f>> \o t)
  <2>1. <<h>> \o g \in Seq(Frame)
    BY <1>4, ConcatProperties
  <2>. QED
    BY <1>5, <2>1, ConcatAssociative DEF t
<1>. QED
  BY <1>3, <1>5, <1>6, <1>7 DEF t

LEMMA StreamAudited ==
  ASSUME TypeInv, NEW c \in Client, Is(c, "audit"), client'[c] = [client[c] EXCEPT !.at = "body"], UNCHANGED reply
  PROVE  Stream(c)' = Stream(c)
<1>1. client[c] \in Reading
  BY ClientIs DEF Is, TypeInv
<1>2. /\ client'[c].at = "body" /\ client'[c].id = client[c].id /\ client'[c].got = client[c].got
      /\ HeaderOf(client'[c]) = HeaderOf(client[c])
  BY <1>1 DEF Reading, HeaderOf
<1>. QED
  BY <1>2 DEF Stream, Frames, Is, HeaderOf

(* Of a list that expires the stream keeps what was taken.                 *)
LEMMA StreamLapsed ==
  ASSUME TypeInv, NEW c \in Client, Active(c), ~Is(c, "first"), UNCHANGED client,
         reply'[client[c].id].frames = <<>>
  PROVE  \E B \in Seq(Frame), C \in Seq(Frame) : Stream(c) = B \o C /\ Stream(c)' = B /\ B # <<>>
<1> DEFINE B == <<HeaderOf(client[c])>> \o client[c].got
           F == Frames(client[c].id)
<1>1. B \in Seq(Frame) /\ F \in Seq(Frame) /\ B # <<>> /\ Stream(c) = B \o F
  BY StreamIs
<1>2. Stream(c)' = B \o <<>>
  BY DEF Stream, Frames, Is, HeaderOf
<1> HIDE DEF B, F
<1>3. B \o <<>> = B
  BY <1>1, ConcatEmptySeq
<1>. QED
  BY <1>1, <1>2, <1>3

-----------------------------------------------------------------------------
\* The flow of frames

(* How far the slot that serves a browser is, and how far the browser is.  *)
Linked(c, s) ==
  /\ slot[s].at \in {"connect", "header"} => Is(c, "first")
  /\ slot[s].at = "read" =>
       Serving(Stream(c), client[c].id, slot[s].next, slot[s].seen, lapsed, stirred)
  /\ slot[s].at = "end" => Is(c, "first") /\ Stream(c) # <<>> /\ Stream(c)[1].is = "error"
SoundAt(c)  == Sound(Stream(c), client[c].id, asked[client[c].id], lapsed, stirred)
ServedAt(c) == \A s \in Slot : Works(s) /\ slot[s].id = client[c].id => Linked(c, s)
QueuedAt(c) == \A i \in 1..Len(queue) : queue[i] = client[c].id => Is(c, "first")
KeptAt(c)   == /\ Is(c, "first") \/ client[c].kind = "preview" => client[c].id \notin lapsed
               /\ Is(c, "audit") => client[c].kind = "download"
FlowAt(c)   == Active(c) => SoundAt(c) /\ ServedAt(c) /\ QueuedAt(c) /\ KeptAt(c)
FlowInv     == \A c \in Client : FlowAt(c)

(* What the flow of frames rests on.                                       *)
Ordered == TypeInv /\ SlotIds /\ ClientIds /\ FreshInv /\ SeenInv

(* A browser that nothing was done to.                                     *)
LEMMA FlowKept ==
  ASSUME NEW c \in Client, FlowAt(c), Active(c)' => Active(c),
         Active(c)' =>
           /\ Stream(c)' = Stream(c) /\ client'[c].id = client[c].id
           /\ client'[c].kind = client[c].kind
           /\ Is(c, "first")' <=> Is(c, "first")
           /\ Is(c, "audit")' => Is(c, "audit")
           /\ asked'[client[c].id] = asked[client[c].id]
           /\ \A s \in Slot : Works(s)' /\ slot'[s].id = client[c].id => slot'[s] = slot[s]
           /\ \A i \in 1..Len(queue') : queue'[i] = client[c].id =>
                \E j \in 1..Len(queue) : queue[j] = client[c].id
           /\ client[c].id \in lapsed' <=> client[c].id \in lapsed
           /\ client[c].id \in stirred => client[c].id \in stirred'
  PROVE  FlowAt(c)'
<1>. SUFFICES ASSUME Active(c)' PROVE SoundAt(c)' /\ ServedAt(c)' /\ QueuedAt(c)' /\ KeptAt(c)'
  BY DEF FlowAt
<1>1. Active(c) /\ SoundAt(c) /\ ServedAt(c) /\ QueuedAt(c) /\ KeptAt(c)
  BY DEF FlowAt
<1>2. SoundAt(c)'
  <2>1. Sound(Stream(c), client[c].id, asked[client[c].id], lapsed', stirred')
    BY <1>1, SoundWeaker DEF SoundAt
  <2>. QED
    BY <2>1 DEF SoundAt
<1>3. ServedAt(c)'
  <2>. SUFFICES ASSUME NEW s \in Slot, Works(s)', slot'[s].id = client'[c].id PROVE Linked(c, s)'
    BY DEF ServedAt
  <2>1. slot'[s] = slot[s] /\ Works(s) /\ slot[s].id = client[c].id
    BY DEF Works
  <2>2. Linked(c, s)
    BY <1>1, <2>1 DEF ServedAt
  <2>3. slot[s].at = "read" =>
          Serving(Stream(c), client[c].id, slot[s].next, slot[s].seen, lapsed', stirred')
    <3>. SUFFICES ASSUME slot[s].at = "read"
                  PROVE  Serving(Stream(c), client[c].id, slot[s].next, slot[s].seen, lapsed', stirred')
      OBVIOUS
    <3>1. Serving(Stream(c), client[c].id, slot[s].next, slot[s].seen, lapsed, stirred)
      BY <2>2 DEF Linked
    <3>2. /\ client[c].id \in lapsed => client[c].id \in lapsed'
          /\ client[c].id \in stirred => client[c].id \in stirred'
      OBVIOUS
    <3>. QED
      BY <3>1, <3>2, ServingWeaker
  <2>4. slot'[s].at = "read" =>
          Serving(Stream(c)', client'[c].id, slot'[s].next, slot'[s].seen, lapsed', stirred')
    BY <2>1, <2>3
  <2>. QED
    BY <2>1, <2>2, <2>4 DEF Linked
<1>4. QueuedAt(c)' /\ KeptAt(c)'
  BY <1>1 DEF QueuedAt, KeptAt
<1>. QED
  BY <1>2, <1>3, <1>4

(* What a slot may push keeps what has arrived in order.                   *)
LEMMA PushedIsSound ==
  ASSUME Ordered, NEW c \in Client, Active(c), FlowAt(c),
         NEW s \in Slot, Works(s), slot[s].id = client[c].id, NEW frame \in Frame,
         \/ frame = Plain(s, "error")
         \/ slot[s].at \in {"header", "read", "end"} /\ frame = Following(s)
  PROVE  /\ Sound(Append(Stream(c), frame), client[c].id, asked[client[c].id], lapsed, stirred)
         /\ slot[s].at = "header" /\ frame = Following(s) =>
              Serving(Append(Stream(c), frame), client[c].id, slot[s].next, slot[s].seen, lapsed, stirred)
         /\ slot[s].at = "read" /\ Left(s) /\ frame = Following(s) =>
              Serving(Append(Stream(c), frame), client[c].id, slot[s].next + 1, slot[s].seen, lapsed, stirred)
<1> DEFINE id  == client[c].id
           A   == Stream(c)
           req == asked[id]
<1>0. TypeInv /\ SeenAt(s) /\ Linked(c, s) /\ Sound(A, id, req, lapsed, stirred) /\ A \in Seq(Frame)
  BY StreamIs DEF Ordered, SeenInv, FlowAt, SoundAt, ServedAt
<1>1. req \in Asking /\ Of(s) = req /\ req.file \in File /\ req.cap \in Nat
  BY <1>0, OfOK, AskingIs DEF TypeInv, Of
<1>2. Is(c, "first") /\ slot[s].at \in {"connect", "header"} => A = <<>>
  <2>1. slot[s].at \in {"connect", "header"} => Frames(id) = <<>>
    BY DEF Ordered, FreshInv
  <2>. QED
    BY <2>1 DEF Stream
<1>3. slot[s].at \in Busy
  BY DEF Works
<1> HIDE DEF id, A, req
<1>4. CASE slot[s].at \in {"connect", "header"} /\ frame.is = "error"
  <2>0. Is(c, "first")
    BY <1>0, <1>4 DEF Linked
  <2>1. A = <<>> /\ Append(A, frame) = <<frame>>
    <3>1. A = <<>>
      BY <1>2, <1>4, <2>0
    <3>. QED
      BY <3>1
  <2>2. Sound(<<frame>>, id, req, lapsed, stirred)
    BY <1>4 DEF Sound
  <2>3. slot[s].at = "header" => frame # Following(s)
    BY <1>0, <1>4, FollowingIs DEF TypeInv
  <2>. QED
    BY <1>4, <2>1, <2>2, <2>3 DEF id, A, req
<1>5. CASE slot[s].at = "header" /\ frame = Following(s)
  <2>0. Is(c, "first")
    BY <1>0, <1>5 DEF Linked
  <2>1. A = <<>> /\ Append(A, frame) = <<frame>>
    <3>1. A = <<>>
      BY <1>2, <1>5, <2>0
    <3>. QED
      BY <3>1
  <2>2. frame = [is |-> "header", file |-> Of(s).file, n |-> slot[s].seen.length,
                 number |-> slot[s].seen.number, cut |-> Cut(s)]
    BY <1>0, <1>5, FollowingIs DEF TypeInv
  <2>3. slot[s].seen \in Version /\ slot[s].next = 1
    BY <1>0, <1>5, SlotIs DEF TypeInv, SeenAt
  <2>4. /\ frame.is = "header" /\ frame.file = req.file /\ frame.n = slot[s].seen.length
        /\ frame.number = slot[s].seen.number /\ frame.cut = (frame.n > req.cap)
    BY <1>1, <2>2 DEF Cut
  <2>5. Sound(<<frame>>, id, req, lapsed, stirred) /\ Serving(<<frame>>, id, 1, slot[s].seen, lapsed, stirred)
    BY <2>3, <2>4, SoundFirst
  <2>. QED
    BY <1>5, <2>1, <2>3, <2>5 DEF id, A, req
<1>6. CASE slot[s].at = "read"
  <2>1. /\ slot[s].seen \in Version /\ slot[s].next \in Nat \ {0}
        /\ Serving(A, id, slot[s].next, slot[s].seen, lapsed, stirred)
    BY <1>0, <1>6, SlotIs DEF TypeInv, Linked, A, id
  <2>2. /\ id \notin stirred => /\ slot[s].seen = disk[req.file]
                                /\ slot[s].next <= Smaller(slot[s].seen.length, req.cap) + 1
    BY <1>0, <1>1, <1>6 DEF SeenAt, id
  <2>3. Smaller(slot[s].seen.length, req.cap) \in Nat
    BY <1>1, <2>1, VersionIs, SmallerIs
  <2>4. CASE frame = Plain(s, "error")
    <3>1. frame.is = "error"
      BY <2>4 DEF Plain
    <3>2. Sound(Append(A, frame), id, req, lapsed, stirred)
      BY <1>0, <1>1, <2>1, <3>1, SoundLast
    <3>3. frame # Following(s)
      BY <1>0, <1>6, <3>1, FollowingIs DEF TypeInv, Plain
    <3>. QED
      BY <1>6, <3>2, <3>3 DEF id, A, req
  <2>5. CASE frame = Following(s) /\ Left(s)
    <3>1. frame = [is |-> "chunk", file |-> Of(s).file, n |-> slot[s].next,
                              number |-> disk[Of(s).file].number, cut |-> FALSE]
      BY <1>0, <1>6, <2>5, FollowingIs DEF TypeInv
    <3>2. /\ frame.is = "chunk" /\ frame.file = req.file /\ frame.n = slot[s].next /\ frame.cut = FALSE
          /\ frame.number = disk[req.file].number
      BY <1>1, <3>1
    <3>3. id \notin stirred => frame.number = slot[s].seen.number
                               /\ slot[s].next <= Smaller(slot[s].seen.length, req.cap)
      BY <1>1, <2>2, <2>5, <3>2 DEF Left
    <3>4. Sound(Append(A, frame), id, req, lapsed, stirred)
          /\ Serving(Append(A, frame), id, slot[s].next + 1, slot[s].seen, lapsed, stirred)
      BY <1>0, <1>1, <2>1, <3>2, <3>3, SoundChunk
    <3>. QED
      BY <1>6, <3>4 DEF id, A, req
  <2>6. CASE frame = Following(s) /\ ~Left(s)
    <3>1. frame.is = "end"
      BY <1>0, <1>6, <2>6, FollowingIs DEF TypeInv, Plain
    <3>2. id \notin stirred => ~(slot[s].next <= Smaller(slot[s].seen.length, req.cap))
      BY <1>1, <2>2, <2>6 DEF Left
    <3>3. id \notin stirred => slot[s].next = Smaller(slot[s].seen.length, req.cap) + 1
      BY <2>1, <2>2, <2>3, <3>2
    <3>4. Sound(Append(A, frame), id, req, lapsed, stirred)
      BY <1>0, <1>1, <2>1, <3>1, <3>3, SoundLast
    <3>. QED
      BY <1>6, <2>6, <3>4 DEF id, A, req
  <2>. QED
    BY <1>6, <2>4, <2>5, <2>6
<1>7. CASE slot[s].at = "end"
  <2>1. A # <<>> /\ A[1].is = "error"
    BY <1>0, <1>7 DEF Linked, A
  <2>2. Sound(Append(A, frame), id, req, lapsed, stirred)
    BY <1>0, <2>1, SoundAfterError
  <2>. QED
    BY <1>7, <2>2 DEF id, A, req
<1>. QED
  BY <1>3, <1>4, <1>5, <1>6, <1>7 DEF Busy, Plain

(* A browser whose request one slot deals with.                            *)
LEMMA FlowTouched ==
  ASSUME NEW c \in Client, Active(c), FlowAt(c), UNCHANGED <<client, asked, lapsed, stirred>>,
         NEW s \in Slot, \A t \in Slot : t # s => slot'[t] = slot[t],
         \A t \in Slot : t # s /\ Works(t) => slot[t].id # client[c].id,
         \A i \in 1..Len(queue') : queue'[i] = client[c].id =>
           \E j \in 1..Len(queue) : queue[j] = client[c].id,
         Sound(Stream(c)', client[c].id, asked[client[c].id], lapsed, stirred),
         Works(s)' /\ slot'[s].id = client[c].id => Linked(c, s)'
  PROVE  FlowAt(c)'
<1>1. SoundAt(c)'
  BY DEF SoundAt
<1>2. ServedAt(c)'
  <2>. SUFFICES ASSUME NEW t \in Slot, Works(t)', slot'[t].id = client'[c].id PROVE Linked(c, t)'
    BY DEF ServedAt
  <2>1. t = s
    BY DEF Works
  <2>. QED
    BY <2>1
<1>3. QueuedAt(c) /\ KeptAt(c)
  BY DEF FlowAt
<1>4. QueuedAt(c)' /\ KeptAt(c)'
  BY <1>3 DEF QueuedAt, KeptAt, Is
<1>. QED
  BY <1>1, <1>2, <1>4 DEF FlowAt

(* A browser whose request nobody deals with.                              *)
LEMMA FlowAside ==
  ASSUME TypeInv, NEW c \in Client, FlowAt(c), UNCHANGED <<client, asked>>,
         lapsed \subseteq lapsed', stirred \subseteq stirred',
         client[c].id \in lapsed' => client[c].id \in lapsed,
         Active(c) => reply'[client[c].id].frames = Frames(client[c].id),
         \A s \in Slot : Works(s)' /\ slot'[s].id = client[c].id => slot'[s] = slot[s],
         \A i \in 1..Len(queue') : queue'[i] = client[c].id =>
           \E j \in 1..Len(queue) : queue[j] = client[c].id
  PROVE  FlowAt(c)'
<1>1. Active(c)' => Active(c)
  BY DEF Active
<1>2. Active(c) => Stream(c)' = Stream(c)
  BY StreamSame
<1>3. Is(c, "first")' <=> Is(c, "first")
  BY DEF Is
<1>4. Is(c, "audit")' => Is(c, "audit")
  BY DEF Is
<1>. QED
  BY <1>1, <1>2, <1>3, <1>4, FlowKept

(* A slot that takes the request of a browser finds it waiting for the     *)
(* first frame.                                                            *)
LEMMA FlowTake ==
  ASSUME Ordered, FlowInv, NEW s \in Slot, Take(s), NEW c \in Client PROVE FlowAt(c)'
<1>1. /\ queue \in Seq(Id) /\ queue # <<>> /\ queue' = Tail(queue)
      /\ UNCHANGED <<client, asked, reply, lapsed, stirred>>
  BY DEF Take, Ordered, TypeInv, LineOK, ghosts
<1>2. /\ Head(queue) = queue[1] /\ 1 \in 1..Len(queue)
      /\ \A i \in 1..Len(queue') : queue'[i] = queue[i + 1] /\ i + 1 \in 1..Len(queue)
  <2>1. /\ Head(queue) = queue[1] /\ Len(queue) \in Nat /\ 1 <= Len(queue)
        /\ Len(queue') = Len(queue) - 1
        /\ \A i \in 1..Len(queue') : queue'[i] = queue[i + 1]
    BY <1>1, HeadTailProperties, EmptySeq
  <2>. QED
    BY <2>1
<1>3. /\ slot'[s] = [at |-> "connect", id |-> Head(queue)] /\ Works(s)'
      /\ \A t \in Slot : t # s => slot'[t] = slot[t]
  BY TakeStep DEF Ordered
<1>4. \A i \in 1..Len(queue') : queue'[i] = client[c].id =>
        \E j \in 1..Len(queue) : queue[j] = client[c].id
  BY <1>2
<1>5. TypeInv /\ FlowAt(c)
  BY DEF Ordered, FlowInv
<1>6. CASE client[c].id = Head(queue) /\ Active(c)
  <2>1. Stream(c)' = Stream(c)
    BY <1>1, <1>5, <1>6, StreamSame DEF Frames
  <2>2. Sound(Stream(c)', client[c].id, asked[client[c].id], lapsed, stirred)
    BY <1>5, <1>6, <2>1 DEF FlowAt, SoundAt
  <2>3. Is(c, "first")
    BY <1>2, <1>5, <1>6 DEF FlowAt, QueuedAt
  <2>4. Linked(c, s)'
    BY <1>1, <1>3, <2>3 DEF Linked, Is
  <2>5. ASSUME NEW t \in Slot, t # s, Works(t) PROVE slot[t].id # client[c].id
    <3>1. slot[t].id < queue[1] /\ slot[t].id \in Nat
      BY <1>2, <1>5, <2>5, OfOK DEF Ordered, SlotIds, TypeInv, Id
    <3>. QED
      BY <1>2, <1>6, <3>1
  <2>. QED
    BY <1>1, <1>3, <1>4, <1>5, <1>6, <2>2, <2>4, <2>5, FlowTouched
<1>7. CASE client[c].id # Head(queue) \/ ~Active(c)
  <2>1. CASE ~Active(c)
    BY <1>1, <2>1 DEF FlowAt, Active
  <2>2. CASE client[c].id # Head(queue)
    <3>1. \A t \in Slot : Works(t)' /\ slot'[t].id = client[c].id => slot'[t] = slot[t]
      BY <1>3, <2>2
    <3>. QED
      BY <1>1, <1>4, <1>5, <3>1, FlowAside DEF Frames
  <2>. QED
    BY <1>7, <2>1, <2>2
<1>. QED
  BY <1>6, <1>7

(* The slot that has the request is the only one.                          *)
LEMMA OnlyServer ==
  ASSUME SlotIds, NEW s \in Slot, Works(s)
  PROVE  \A t \in Slot : t # s /\ Works(t) => slot[t].id # slot[s].id
  BY DEF SlotIds

(* A push by the slot that has the request of a browser, or by another.    *)
LEMMA FlowPush ==
  ASSUME Ordered, FlowInv, NEW c \in Client, NEW s \in Slot, Works(s), NEW frame \in Frame,
         UNCHANGED <<client, asked, queue, lapsed, stirred>>,
         \A t \in Slot : t # s => slot'[t] = slot[t],
         \/ reply' = [reply EXCEPT ![slot[s].id] = Put(slot[s].id, frame)]
         \/ reply' = [reply EXCEPT ![slot[s].id] = Stripped(slot[s].id, frame)],
         Works(s)' => slot'[s].id = slot[s].id,
         Active(c) /\ slot[s].id = client[c].id /\ Stream(c)' = Append(Stream(c), frame) =>
           /\ Sound(Append(Stream(c), frame), client[c].id, asked[client[c].id], lapsed, stirred)
           /\ Works(s)' => Linked(c, s)'
  PROVE  FlowAt(c)'
<1>1. TypeInv /\ SlotIds /\ FlowAt(c) /\ slot[s].id \in Id
  BY OfOK DEF Ordered, FlowInv, TypeInv
<1>2. /\ reply'[slot[s].id].frames = Append(Frames(slot[s].id), frame)
      /\ \A j \in Id : j # slot[s].id => reply'[j].frames = Frames(j)
  BY <1>1, PushOK DEF TypeInv
<1>3. \A i \in 1..Len(queue') : queue'[i] = client[c].id =>
        \E j \in 1..Len(queue) : queue[j] = client[c].id
  OBVIOUS
<1>4. CASE ~Active(c)
  BY <1>4 DEF FlowAt, Active
<1>5. CASE Active(c) /\ slot[s].id = client[c].id
  <2>1. Stream(c)' = Append(Stream(c), frame)
    BY <1>1, <1>2, <1>5, StreamPushed
  <2>2. Sound(Stream(c)', client[c].id, asked[client[c].id], lapsed, stirred)
    BY <1>5, <2>1
  <2>3. \A t \in Slot : t # s /\ Works(t) => slot[t].id # client[c].id
    BY <1>1, <1>5, OnlyServer
  <2>4. Works(s)' => Linked(c, s)'
    BY <1>5, <2>1
  <2>. QED
    BY <1>1, <1>3, <1>5, <2>2, <2>3, <2>4, FlowTouched
<1>6. CASE Active(c) /\ slot[s].id # client[c].id
  <2>1. client[c].id \in Id
    BY <1>1, <1>6, StreamIs
  <2>2. reply'[client[c].id].frames = Frames(client[c].id)
    BY <1>2, <1>6, <2>1
  <2>3. \A t \in Slot : Works(t)' /\ slot'[t].id = client[c].id => slot'[t] = slot[t]
    BY <1>6
  <2>. QED
    BY <1>1, <1>3, <2>2, <2>3, FlowAside
<1>. QED
  BY <1>4, <1>5, <1>6

LEMMA FlowLook ==
  ASSUME Ordered, FlowInv, NEW s \in Slot, Look(s), NEW c \in Client PROVE FlowAt(c)'
<1>1. /\ TypeInv /\ SlotIds /\ FlowAt(c) /\ Works(s) /\ slot'[s].id = slot[s].id
      /\ \A t \in Slot : t # s => slot'[t] = slot[t]
  BY LookIs DEF Ordered, FlowInv
<1>2. UNCHANGED <<client, asked, queue, lapsed, stirred>> /\ slot[s].at = "connect"
  BY DEF Look, ghosts
<1>3. CASE /\ slot'[s].at = "end"
           /\ Plain(s, "error") \in Frame
           /\ reply' = [reply EXCEPT ![slot[s].id] = Put(slot[s].id, Plain(s, "error"))]
  <2> DEFINE frame == Plain(s, "error")
  <2>1. frame \in Frame /\ frame.is = "error"
    BY <1>3 DEF Plain
  <2>2. ASSUME Active(c), slot[s].id = client[c].id, Stream(c)' = Append(Stream(c), frame)
        PROVE  /\ Sound(Append(Stream(c), frame), client[c].id, asked[client[c].id], lapsed, stirred)
               /\ Linked(c, s)'
    <3>1. Sound(Append(Stream(c), frame), client[c].id, asked[client[c].id], lapsed, stirred)
      BY <1>1, <2>1, <2>2, PushedIsSound
    <3>2. Linked(c, s)
      BY <1>1, <2>2 DEF FlowAt, ServedAt
    <3>3. Is(c, "first") /\ Stream(c) = <<>>
      <4>1. Is(c, "first")
        BY <1>2, <3>2 DEF Linked
      <4>2. Frames(client[c].id) = <<>>
        BY <1>2, <2>2 DEF Ordered, FreshInv
      <4>. QED
        BY <4>1, <4>2 DEF Stream
    <3>4. Stream(c)' # <<>> /\ Stream(c)'[1].is = "error"
      <4>1. Append(<<>>, frame) # <<>> /\ Append(<<>>, frame)[1] = frame
        OBVIOUS
      <4> HIDE DEF frame
      <4>. QED
        BY <2>1, <2>2, <3>3, <4>1
    <3>5. Is(c, "first")'
      BY <1>2, <3>3 DEF Is
    <3>. QED
      BY <1>3, <3>1, <3>4, <3>5 DEF Linked
  <2> HIDE DEF frame
  <2>3. reply' = [reply EXCEPT ![slot[s].id] = Put(slot[s].id, frame)]
    BY <1>3 DEF frame
  <2>. QED
    BY <1>1, <1>2, <2>1, <2>2, <2>3, FlowPush
<1>4. CASE /\ slot'[s] = [at |-> "header", id |-> slot[s].id, seen |-> disk[Of(s).file], next |-> 1]
           /\ UNCHANGED reply
  <2>1. \A i \in 1..Len(queue') : queue'[i] = client[c].id =>
          \E j \in 1..Len(queue) : queue[j] = client[c].id
    BY <1>2
  <2>2. CASE ~Active(c)
    BY <1>2, <2>2 DEF FlowAt, Active
  <2>3. CASE Active(c) /\ slot[s].id = client[c].id
    <3>1. Stream(c)' = Stream(c)
      BY <1>1, <1>2, <1>4, <2>3, StreamSame DEF Frames
    <3>2. Sound(Stream(c)', client[c].id, asked[client[c].id], lapsed, stirred)
      BY <1>1, <2>3, <3>1 DEF FlowAt, SoundAt
    <3>3. Linked(c, s)
      BY <1>1, <2>3 DEF FlowAt, ServedAt
    <3>4. Is(c, "first")
      BY <1>2, <3>3 DEF Linked
    <3>5. Linked(c, s)'
      BY <1>2, <1>4, <3>4 DEF Linked, Is
    <3>6. \A t \in Slot : t # s /\ Works(t) => slot[t].id # client[c].id
      BY <1>1, <2>3, OnlyServer
    <3>. QED
      BY <1>1, <1>2, <2>1, <2>3, <3>2, <3>5, <3>6, FlowTouched
  <2>4. CASE slot[s].id # client[c].id
    <3>1. \A t \in Slot : Works(t)' /\ slot'[t].id = client[c].id => slot'[t] = slot[t]
      BY <1>1, <2>4
    <3>. QED
      BY <1>1, <1>2, <1>4, <2>1, <3>1, FlowAside DEF Frames
  <2>. QED
    BY <2>2, <2>3, <2>4
<1>. QED
  BY <1>3, <1>4, LookIs DEF Ordered

LEMMA FlowSend ==
  ASSUME Ordered, FlowInv, NEW s \in Slot, Send(s), NEW c \in Client PROVE FlowAt(c)'
<1> DEFINE frame == Following(s)
<1>1. /\ TypeInv /\ FlowAt(c) /\ Works(s) /\ slot[s].at \in {"header", "read", "end"}
      /\ \A t \in Slot : t # s => slot'[t] = slot[t]
      /\ Works(s)' => slot'[s].id = slot[s].id
      /\ reply' = [reply EXCEPT ![slot[s].id] = Put(slot[s].id, frame)]
  BY SendIs DEF Ordered, FlowInv
<1>2. UNCHANGED <<client, asked, queue, lapsed, stirred>>
  BY DEF Send, ghosts
<1>3. frame \in Frame
  BY <1>1, FollowingIs DEF TypeInv
<1>4. \/ slot[s].at = "header" /\ slot'[s] = [slot[s] EXCEPT !.at = "read"]
      \/ slot[s].at = "read" /\ Left(s) /\ slot'[s] = [slot[s] EXCEPT !.next = slot[s].next + 1]
      \/ slot'[s] = IdleSlot
  BY <1>1, SendIs
<1> DEFINE B == Append(Stream(c), frame)
<1>5. ASSUME Active(c), slot[s].id = client[c].id, Stream(c)' = B
      PROVE  /\ Sound(B, client[c].id, asked[client[c].id], lapsed, stirred)
             /\ Works(s)' => Linked(c, s)'
  <2>0. /\ Sound(B, client[c].id, asked[client[c].id], lapsed, stirred)
        /\ slot[s].at = "header" => Serving(B, client[c].id, slot[s].next, slot[s].seen, lapsed, stirred)
        /\ slot[s].at = "read" /\ Left(s) =>
             Serving(B, client[c].id, slot[s].next + 1, slot[s].seen, lapsed, stirred)
    BY <1>1, <1>3, <1>5, PushedIsSound
  <2> HIDE DEF B
  <2>1. CASE slot[s].at = "header" /\ slot'[s] = [slot[s] EXCEPT !.at = "read"]
    <3>1. /\ slot'[s].at = "read" /\ slot'[s].seen = slot[s].seen /\ slot'[s].next = slot[s].next
      BY <1>1, <2>1, SlotIs DEF TypeInv
    <3>2. Serving(Stream(c)', client'[c].id, slot'[s].next, slot'[s].seen, lapsed', stirred')
      BY <1>2, <1>5, <2>0, <2>1, <3>1
    <3>. QED
      BY <2>0, <3>1, <3>2 DEF Linked
  <2>2. CASE slot[s].at = "read" /\ Left(s) /\ slot'[s] = [slot[s] EXCEPT !.next = slot[s].next + 1]
    <3>1. /\ slot'[s].at = "read" /\ slot'[s].seen = slot[s].seen /\ slot'[s].next = slot[s].next + 1
      BY <1>1, <2>2, SlotIs DEF TypeInv
    <3>2. Serving(Stream(c)', client'[c].id, slot'[s].next, slot'[s].seen, lapsed', stirred')
      BY <1>2, <1>5, <2>0, <2>2, <3>1
    <3>. QED
      BY <2>0, <3>1, <3>2 DEF Linked
  <2>3. CASE slot'[s] = IdleSlot
    BY <2>0, <2>3 DEF Works, IdleSlot, Busy
  <2>. QED
    BY <1>4, <2>1, <2>2, <2>3
<1>. QED
  <2> HIDE DEF frame
  <2>. QED
    BY <1>1, <1>2, <1>3, <1>5, FlowPush

LEMMA FlowThrows ==
  ASSUME Ordered, FlowInv, NEW s \in Slot, ServeThrows(s), NEW c \in Client PROVE FlowAt(c)'
<1> DEFINE frame == Plain(s, "error")
<1>1. /\ TypeInv /\ FlowAt(c) /\ Works(s) /\ ~Works(s)' /\ frame \in Frame
      /\ \A t \in Slot : t # s => slot'[t] = slot[t]
      /\ reply' = [reply EXCEPT ![slot[s].id] = Put(slot[s].id, frame)]
  BY ThrowsIs DEF Ordered, FlowInv
<1>2. UNCHANGED <<client, asked, queue, lapsed, stirred>>
  BY DEF ServeThrows, ghosts
<1>3. Active(c) /\ slot[s].id = client[c].id =>
        Sound(Append(Stream(c), frame), client[c].id, asked[client[c].id], lapsed, stirred)
  BY <1>1, PushedIsSound
<1> HIDE DEF frame
<1>. QED
  BY <1>1, <1>2, <1>3, FlowPush

(* A crash leaves no slot at work, and perhaps one frame.                  *)
LEMMA FlowCrash ==
  ASSUME Ordered, FlowInv, Crash, NEW c \in Client PROVE FlowAt(c)'
<1>1. /\ TypeInv /\ FlowAt(c) /\ (\A t \in Slot : ~Works(t)')
      /\ UNCHANGED <<client, asked, queue, lapsed, stirred>>
  BY CrashIs DEF Ordered, FlowInv
<1>2. CASE ~Active(c)
  BY <1>1, <1>2 DEF FlowAt, Active
<1>3. CASE Active(c) /\ reply'[client[c].id].frames = Frames(client[c].id)
  BY <1>1, <1>3, FlowAside
<1>4. ASSUME NEW s \in Slot, slot[s].at \in {"header", "read", "end"}, Works(s),
             reply' = [reply EXCEPT ![slot[s].id] = Stripped(slot[s].id, Following(s))],
             Active(c), slot[s].id = client[c].id
      PROVE  FlowAt(c)'
  <2> DEFINE frame == Following(s)
  <2>1. frame \in Frame /\ slot[s].id \in Id
    BY <1>1, <1>4, FollowingIs, OfOK DEF TypeInv
  <2>2. Sound(Append(Stream(c), frame), client[c].id, asked[client[c].id], lapsed, stirred)
    BY <1>1, <1>4, <2>1, PushedIsSound
  <2>3. reply' = [reply EXCEPT ![slot[s].id] = Stripped(slot[s].id, frame)]
    BY <1>4
  <2> HIDE DEF frame
  <2>4. reply'[slot[s].id].frames = Append(Frames(slot[s].id), frame)
    BY <1>1, <2>1, <2>3, PushOK DEF TypeInv
  <2>5. Stream(c)' = Append(Stream(c), frame)
    BY <1>1, <1>4, <2>1, <2>4, StreamPushed
  <2>6. SoundAt(c)'
    BY <1>1, <2>2, <2>5 DEF SoundAt
  <2>7. ServedAt(c)' /\ QueuedAt(c)' /\ KeptAt(c)'
    BY <1>1, <1>4 DEF FlowAt, ServedAt, QueuedAt, KeptAt, Is
  <2>. QED
    BY <2>6, <2>7 DEF FlowAt
<1>5. ASSUME NEW s \in Slot, slot[s].at \in {"header", "read", "end"}, Works(s),
             reply' = [reply EXCEPT ![slot[s].id] = Stripped(slot[s].id, Following(s))],
             Active(c), slot[s].id # client[c].id
      PROVE  FlowAt(c)'
  <2>1. Following(s) \in Frame /\ slot[s].id \in Id /\ client[c].id \in Id
    BY <1>1, <1>5, FollowingIs, OfOK, StreamIs DEF TypeInv
  <2>2. reply'[client[c].id].frames = Frames(client[c].id)
    BY <1>1, <1>5, <2>1, PushOK DEF TypeInv
  <2>. QED
    BY <1>3, <1>5, <2>2
<1>6. CASE UNCHANGED reply
  BY <1>2, <1>3, <1>6 DEF Frames
<1>. QED
  BY <1>1, <1>2, <1>4, <1>5, <1>6, CrashIs

(* A part of a reply that expired: what came before it has arrived, and    *)
(* what comes after it has a gap before it.                                *)
LEMMA FlowLapse ==
  ASSUME Ordered, FlowInv, NEW id \in Id, Lapse(id), NEW c \in Client PROVE FlowAt(c)'
<1>1. /\ TypeInv /\ FlowAt(c) /\ UNCHANGED <<disk, queue, asked, slot, client, stirred>>
      /\ lapsed' = lapsed \cup {id}
      /\ reply'[id].frames = <<>> /\ \A j \in Id : j # id => reply'[j].frames = Frames(j)
  BY LapseIs DEF Ordered, FlowInv
<1>2. CASE ~Active(c)
  BY <1>1, <1>2 DEF FlowAt, Active
<1>3. CASE Active(c) /\ client[c].id # id
  <2>1. client[c].id \in Id
    BY <1>1, <1>3, StreamIs
  <2>2. reply'[client[c].id].frames = Frames(client[c].id)
    BY <1>1, <1>3, <2>1
  <2>3. client[c].id \in lapsed' => client[c].id \in lapsed
    BY <1>1, <1>3
  <2>. QED
    BY <1>1, <2>2, <2>3, FlowAside
<1>4. CASE Active(c) /\ client[c].id = id
  <2>1. ~Is(c, "first") /\ (Is(c, "body") => client[c].kind # "preview")
    BY <1>4 DEF Lapse
  <2>2. KeptAt(c) /\ SoundAt(c) /\ ServedAt(c) /\ QueuedAt(c)
    BY <1>1, <1>4 DEF FlowAt
  <2>3. client[c].kind # "preview"
    BY <1>4, <2>1, <2>2 DEF KeptAt, Active, Is
  <2>4. PICK B \in Seq(Frame), C \in Seq(Frame) : Stream(c) = B \o C /\ Stream(c)' = B /\ B # <<>>
    BY <1>1, <1>4, <2>1, StreamLapsed
  <2>5. Stream(c) \in Seq(Frame) /\ id \in lapsed'
    BY <1>1, <1>4, StreamIs
  <2>6. SoundAt(c)'
    <3>1. Sound(Stream(c), id, asked[id], lapsed, stirred)
      BY <1>4, <2>2 DEF SoundAt
    <3>2. Sound(B, id, asked[id], lapsed', stirred)
      BY <2>4, <2>5, <3>1, SoundPrefix
    <3>. QED
      BY <1>1, <1>4, <2>4, <3>2 DEF SoundAt
  <2>7. ServedAt(c)'
    <3>. SUFFICES ASSUME NEW s \in Slot, Works(s)', slot'[s].id = client'[c].id PROVE Linked(c, s)'
      BY DEF ServedAt
    <3>1. Linked(c, s) /\ Works(s)
      BY <1>1, <2>2 DEF ServedAt, Works
    <3>2. slot[s].at \notin {"connect", "header", "end"}
      BY <2>1, <3>1 DEF Linked
    <3>3. slot[s].at = "read"
      BY <3>1, <3>2 DEF Works, Busy
    <3>4. slot[s].next \in Nat /\ slot[s].seen \in Version
      BY <1>1, <3>3, SlotIs DEF TypeInv
    <3>5. Serving(Stream(c), id, slot[s].next, slot[s].seen, lapsed, stirred)
      BY <1>4, <3>1, <3>3 DEF Linked
    <3>6. Serving(B, id, slot[s].next, slot[s].seen, lapsed', stirred)
      <4> DEFINE next == slot[s].next
                 seen == slot[s].seen
      <4>1. next \in Nat /\ seen \in Version /\ Serving(Stream(c), id, next, seen, lapsed, stirred)
        BY <3>4, <3>5
      <4> HIDE DEF next, seen
      <4>2. Serving(B, id, next, seen, lapsed', stirred)
        BY <2>4, <2>5, <4>1, SoundPrefix
      <4>. QED
        BY <4>2 DEF next, seen
    <3>7. Serving(Stream(c)', client'[c].id, slot'[s].next, slot'[s].seen, lapsed', stirred')
      BY <1>1, <1>4, <2>4, <3>6
    <3>. QED
      BY <1>1, <3>2, <3>7 DEF Linked
  <2>8. QueuedAt(c)' /\ KeptAt(c)'
    BY <1>1, <2>1, <2>2, <2>3 DEF QueuedAt, KeptAt, Is
  <2>. QED
    BY <2>6, <2>7, <2>8 DEF FlowAt
<1>. QED
  BY <1>2, <1>3, <1>4

(* A browser that goes on with what it has.                                *)
LEMMA FlowSame ==
  ASSUME NEW c \in Client, FlowAt(c), Active(c), UNCHANGED <<queue, asked, slot, lapsed, stirred>>,
         Stream(c)' = Stream(c), client'[c].id = client[c].id, client'[c].kind = client[c].kind,
         ~Is(c, "first")',
         \A s \in Slot : Works(s) /\ slot[s].id = client[c].id => slot[s].at = "read",
         \A i \in 1..Len(queue) : queue[i] # client[c].id,
         client[c].kind = "preview" => client[c].id \notin lapsed,
         Is(c, "audit")' => client[c].kind = "download"
  PROVE  FlowAt(c)'
<1>1. SoundAt(c)' /\ QueuedAt(c)' /\ KeptAt(c)'
  BY DEF FlowAt, SoundAt, QueuedAt, KeptAt
<1>2. ServedAt(c)'
  <2>. SUFFICES ASSUME NEW s \in Slot, Works(s)', slot'[s].id = client'[c].id PROVE Linked(c, s)'
    BY DEF ServedAt
  <2>1. Works(s) /\ slot[s].at = "read"
    BY DEF Works
  <2>2. Linked(c, s)
    BY <2>1 DEF FlowAt, ServedAt
  <2>. QED
    BY <2>1, <2>2 DEF Linked
<1>. QED
  BY <1>1, <1>2 DEF FlowAt

(* The header is of the file that was asked for, and the slot has gone on  *)
(* to read.                                                                *)
LEMMA FlowFirstFrame ==
  ASSUME Ordered, FlowInv, NEW c \in Client, FirstFrame(c) PROVE FlowAt(c)'
<1> DEFINE id == client[c].id
           F  == Frames(id)
<1>1. /\ TypeInv /\ FlowAt(c) /\ Is(c, "first") /\ Active(c) /\ id \in Id
      /\ F \in Seq(Frame) /\ F # <<>> /\ UNCHANGED <<queue, asked, slot, lapsed, stirred>>
  BY FirstFrameIs DEF Ordered, FlowInv, Active, Is, ghosts
<1>2. CASE ~Active(c)'
  BY <1>2 DEF FlowAt
<1>3. CASE Active(c)'
  <2>0. /\ Head(F).is = "header"
        /\ client'[c] = [at |-> IF client[c].kind = "download" THEN "audit" ELSE "body",
                     kind |-> client[c].kind, wanted |-> client[c].wanted,
                     parts |-> client[c].parts, id |-> client[c].id,
                     file |-> client[c].file, n |-> Head(F).n, number |-> Head(F).number,
                     cut |-> Head(F).cut, got |-> <<>>]
    BY <1>3, FirstFrameIs DEF Ordered, Active
  <2>1. Stream(c) = F /\ Head(F) = F[1]
    BY <1>1, OneOff DEF Stream
  <2> HIDE DEF F
  <2>2. SoundAt(c) /\ ServedAt(c) /\ QueuedAt(c) /\ KeptAt(c)
    BY <1>1 DEF FlowAt
  <2>3. Opened(F, asked[id])
    BY <1>1, <2>0, <2>1, <2>2 DEF SoundAt, Sound
  <2>4. Head(F).file = client[c].file
    BY <1>1, <2>1, <2>3 DEF Opened, Ordered, ClientIds
  <2>5. Stream(c)' = Stream(c)
    BY <1>1, <1>3, <2>4, StreamOpened DEF F
  <2>6. client'[c].id = id /\ client'[c].kind = client[c].kind /\ ~Is(c, "first")'
        /\ (Is(c, "audit")' => client[c].kind = "download")
    BY <2>0 DEF Is
  <2>7. ASSUME NEW s \in Slot, Works(s), slot[s].id = id PROVE slot[s].at = "read"
    <3>1. Linked(c, s)
      BY <2>2, <2>7 DEF ServedAt
    <3>2. slot[s].at # "end"
      BY <2>0, <2>1, <3>1 DEF Linked
    <3>3. slot[s].at \notin {"connect", "header"}
      BY <1>1, <2>7 DEF Ordered, FreshInv, F
    <3>. QED
      BY <2>7, <3>2, <3>3 DEF Works, Busy
  <2>8. \A i \in 1..Len(queue) : queue[i] # id
    BY <1>1 DEF Ordered, FreshInv, F
  <2>9. id \notin lapsed
    BY <1>1, <2>2 DEF KeptAt
  <2>. QED
    BY <1>1, <2>5, <2>6, <2>7, <2>8, <2>9, FlowSame
<1>. QED
  BY <1>2, <1>3

(* Once the first frame has been taken, the slot reads.                    *)
LEMMA ReadsOn ==
  ASSUME NEW c \in Client, FlowAt(c), Active(c), ~Is(c, "first")
  PROVE  /\ \A s \in Slot : Works(s) /\ slot[s].id = client[c].id => slot[s].at = "read"
         /\ \A i \in 1..Len(queue) : queue[i] # client[c].id
         /\ client[c].kind = "preview" => client[c].id \notin lapsed
<1>1. ServedAt(c) /\ QueuedAt(c) /\ KeptAt(c)
  BY DEF FlowAt
<1>2. ASSUME NEW s \in Slot, Works(s), slot[s].id = client[c].id PROVE slot[s].at = "read"
  BY <1>1, <1>2 DEF ServedAt, Linked, Works, Busy
<1>. QED
  BY <1>1, <1>2 DEF QueuedAt, KeptAt

(* A browser that drains its reply keeps the stream as it is.              *)
LEMMA FlowGoesOn ==
  ASSUME Ordered, FlowInv, NEW c \in Client, Pull(c) \/ Stops(c) PROVE FlowAt(c)'
<1>1. /\ TypeInv /\ FlowAt(c) /\ UNCHANGED <<queue, asked, slot, lapsed, stirred>>
      /\ \A d \in Client : ~Request(d)
  <2>1. TypeInv
    BY DEF Ordered
  <2>2. UNCHANGED <<queue, asked, slot, lapsed, stirred>>
    BY <2>1, PullIs, StopsIs DEF ghosts
  <2>3. Len(asked) \in Nat
    BY <2>1, LenProperties DEF TypeInv, LineOK
  <2>4. \A d \in Client : ~Request(d)
    BY <2>1, <2>2, <2>3, RequestIs
  <2>. QED
    BY <2>1, <2>2, <2>4 DEF FlowInv
<1>2. CASE ~Active(c)'
  BY <1>2 DEF FlowAt
<1>3. CASE Active(c)'
  <2>1. Stream(c)' = Stream(c) /\ ~Is(c, "first") /\ Active(c) /\ client'[c].at = "body"
        /\ client'[c].id = client[c].id /\ client'[c].kind = client[c].kind
    <3>1. CASE Pull(c)
      <4>1. Stream(c)' = Stream(c)
        BY <1>1, <1>3, <3>1, StreamPulled
      <4>2. client[c].at = "body" /\ client[c] \in Reading
        BY <1>1, <3>1, PullIs DEF Is
      <4>3. client'[c].at = "body" /\ client'[c].id = client[c].id /\ client'[c].kind = client[c].kind
        <5>1. CASE client'[c] = [client[c] EXCEPT !.got = Append(client[c].got, Head(Frames(client[c].id)))]
          BY <4>2, <5>1 DEF Reading
        <5>2. CASE client'[c] = [at |-> IF ~Accepts(client[c]) THEN "failed"
                              ELSE IF client[c].kind = "archive" THEN "next" ELSE "complete",
                       kind |-> client[c].kind, wanted |-> client[c].wanted,
                       parts |-> client[c].parts \cup {AsPart(client[c])}]
          BY <1>3, <5>2 DEF Active
        <5>3. CASE client'[c].at = "failed"
          BY <1>3, <5>3 DEF Active
        <5>. QED
          BY <1>1, <3>1, <5>1, <5>2, <5>3, PullIs
      <4>. QED
        BY <4>1, <4>2, <4>3 DEF Is, Active
    <3>2. CASE Stops(c)
      <4>1. Is(c, "audit") /\ client'[c] = [client[c] EXCEPT !.at = "body"] /\ UNCHANGED reply
        <5>1. CASE client'[c].at \in {"failed", "cancelled"}
          BY <1>3, <5>1 DEF Active
        <5>2. CASE Is(c, "next") /\ client'[c] = [client[c] EXCEPT !.at = "complete"]
          <6>1. client'[c].at = "complete"
            BY <1>1, <5>2, ClientIs DEF Is, TypeInv, Choosing
          <6>. QED
            BY <1>3, <6>1 DEF Active
        <5>. QED
          BY <1>1, <3>2, <5>1, <5>2, StopsIs
      <4>2. client[c] \in Reading
        BY <1>1, <4>1, ClientIs DEF Is, TypeInv
      <4>. QED
        BY <1>1, <4>1, <4>2, StreamAudited DEF Reading, Is, Active
    <3>. QED
      BY <3>1, <3>2
  <2>2. ~Is(c, "first")' /\ ~Is(c, "audit")'
    BY <2>1 DEF Is
  <2>. QED
    BY <1>1, <2>1, <2>2, ReadsOn, FlowSame
<1>. QED
  BY <1>2, <1>3

-----------------------------------------------------------------------------
\* Every step keeps the flow

(* What another browser does.                                              *)
LEMMA FlowOther ==
  ASSUME TypeInv, ClientIds, FlowInv, NEW c \in Client, NEW d \in Client, c # d,
         Ask(d) \/ Request(d) \/ FirstFrame(d) \/ Pull(d) \/ Stops(d)
  PROVE  FlowAt(c)'
<1>1. /\ FlowAt(c) /\ client'[c] = client[c] /\ UNCHANGED <<slot, lapsed, stirred>>
  <2>1. CASE Ask(d) \/ Request(d)
    BY <2>1, AskIs, RequestIs DEF FlowInv, ghosts
  <2>2. CASE FirstFrame(d) \/ Pull(d)
    BY <2>2, FirstFrameIs, PullIs DEF FlowInv, ghosts
  <2>3. CASE Stops(d)
    BY <2>3, StopsIs DEF FlowInv, ghosts
  <2>. QED
    BY <2>1, <2>2, <2>3
<1>2. CASE ~Active(c)
  BY <1>1, <1>2 DEF FlowAt, Active
<1>3. CASE Active(c)
  <2>1. client[c].id \in Id /\ client[c].id \in 1..Len(asked) /\ Len(asked) \in Nat
    BY <1>3, StreamIs, LenProperties DEF ClientIds, TypeInv, LineOK
  <2>2. asked'[client[c].id] = asked[client[c].id]
    BY <2>1, AskIs, RequestIs, FirstFrameIs, PullIs, StopsIs
  <2>3. ASSUME NEW i \in 1..Len(queue'), queue'[i] = client[c].id
        PROVE  \E j \in 1..Len(queue) : queue[j] = client[c].id
    <3>1. CASE UNCHANGED queue
      BY <2>3, <3>1
    <3>2. CASE Request(d)
      <4>1. /\ Len(asked') = Len(asked) + 1
            /\ Len(queue') = Len(queue) + 1 /\ queue'[Len(queue) + 1] = Len(asked')
            /\ Len(queue) \in Nat
            /\ \A k \in 1..Len(queue) : queue'[k] = queue[k]
        BY <3>2, RequestIs, LenProperties DEF TypeInv, LineOK
      <4>2. i # Len(queue) + 1
        BY <2>1, <2>3, <4>1
      <4>. QED
        BY <2>3, <4>1, <4>2
    <3>. QED
      BY <3>1, <3>2, AskIs, FirstFrameIs, PullIs, StopsIs
  <2>4. reply'[client[c].id].frames = Frames(client[c].id)
    <3>1. CASE UNCHANGED reply
      BY <3>1 DEF Frames
    <3>2. CASE FirstFrame(d) \/ Pull(d)
      <4>1. Active(d) /\ \A j \in Id : j # client[d].id => reply'[j].frames = Frames(j)
        BY <3>2, FirstFrameIs, PullIs DEF Active, Is
      <4>2. client[c].id # client[d].id
        BY <1>3, <4>1 DEF ClientIds
      <4>. QED
        BY <2>1, <4>1, <4>2
    <3>. QED
      BY <3>1, <3>2, AskIs, RequestIs, StopsIs
  <2>5. Stream(c)' = Stream(c)
    BY <1>1, <1>3, <2>4, StreamSame
  <2>6. (Is(c, "first")' <=> Is(c, "first")) /\ (Is(c, "audit")' => Is(c, "audit"))
    BY <1>1 DEF Is
  <2>7. \A s \in Slot : Works(s)' /\ slot'[s].id = client[c].id => slot'[s] = slot[s]
    BY <1>1
  <2>. QED
    BY <1>1, <1>3, <2>2, <2>3, <2>5, <2>6, <2>7, FlowKept
<1>. QED
  BY <1>2, <1>3

(* Nothing is there for a new request.                                     *)
LEMMA FlowRequest ==
  ASSUME Ordered, NEW c \in Client, Request(c) PROVE FlowAt(c)'
<1> DEFINE id == Len(asked')
<1>1. /\ client'[c].id = id /\ client'[c].at = "first" /\ id \in Id /\ id = Len(asked) + 1
      /\ UNCHANGED <<slot, reply, lapsed>> /\ Len(asked) \in Nat /\ TypeInv
  BY RequestIs, LenProperties DEF Ordered, TypeInv, LineOK, ghosts
<1>2. Frames(id) = <<>> /\ id \notin lapsed
  BY <1>1 DEF Ordered, FreshInv
<1> HIDE DEF id
<1>3. Is(c, "first")' /\ ~Is(c, "audit")'
  BY <1>1 DEF Is
<1>4. Stream(c)' = <<>>
  BY <1>1, <1>2, <1>3 DEF Stream, Frames, Is
<1>5. SoundAt(c)' /\ QueuedAt(c)' /\ KeptAt(c)'
  BY <1>1, <1>2, <1>3, <1>4 DEF SoundAt, Sound, QueuedAt, KeptAt
<1>6. ServedAt(c)'
  <2>1. \A s \in Slot : Works(s)' => slot'[s].id \in 1..Len(asked)
    BY <1>1 DEF TypeInv, LineOK, Works
  <2>2. id \notin 1..Len(asked)
    BY <1>1
  <2>. QED
    BY <1>1, <2>1, <2>2 DEF ServedAt
<1>. QED
  BY <1>5, <1>6 DEF FlowAt

(* Every step keeps the flow.                                              *)
LEMMA FlowStep ==
  ASSUME Ordered, FlowInv, [Next]_vars PROVE FlowInv'
<1>0. TypeInv /\ ClientIds
  BY DEF Ordered
<1>. SUFFICES ASSUME NEW c \in Client PROVE FlowAt(c)'
  BY DEF FlowInv
<1>1. ASSUME NEW s \in Slot, Take(s) \/ Look(s) \/ Send(s) \/ ServeThrows(s) PROVE FlowAt(c)'
  BY <1>1, FlowTake, FlowLook, FlowSend, FlowThrows
<1>2. CASE Crash \/ \E id \in Id : Lapse(id)
  BY <1>2, FlowCrash, FlowLapse
<1>3. ASSUME NEW d \in Client, Ask(d) \/ Request(d) \/ FirstFrame(d) \/ Pull(d) \/ Stops(d) PROVE FlowAt(c)'
  <2>1. CASE c # d
    BY <1>0, <1>3, <2>1, FlowOther
  <2>2. CASE c = d /\ Ask(c)
    BY <1>0, <2>2, AskIs DEF FlowAt, Active
  <2>3. CASE c = d /\ ~Ask(c)
    BY <1>3, <2>3, FlowRequest, FlowFirstFrame, FlowGoesOn
  <2>. QED
    BY <2>1, <2>2, <2>3
<1>4. ASSUME NEW f \in File, NEW length \in 0..MaxLength, Change(f, length) PROVE FlowAt(c)'
  <2>1. UNCHANGED <<queue, asked, slot, reply, client, lapsed>> /\ stirred \subseteq stirred'
    BY <1>0, <1>4, ChangeIs
  <2>. QED
    BY <1>0, <2>1, FlowAside DEF FlowInv, Frames
<1>5. CASE UNCHANGED vars
  <2>1. UNCHANGED <<queue, asked, slot, reply, client, lapsed, stirred>>
    BY <1>5 DEF vars, ghosts
  <2>. QED
    BY <1>0, <2>1, FlowAside DEF FlowInv, Frames
<1>. QED
  BY <1>1, <1>2, <1>3, <1>4, <1>5, NextCases

-----------------------------------------------------------------------------
\* What a browser holds when the end comes

(* A part that is all there, or of which it is known why it need not be.   *)
WholeOf(p, req) == [i \in 1..Smaller(p.n, req.cap) |->
                      [is |-> "chunk", file |-> p.file, n |-> i, number |-> p.number, cut |-> FALSE]]
Good(p, kind, A, L, T) ==
  /\ p.id \in 1..Len(A)
  /\ p.cut = (p.n > A[p.id].cap)
  /\ \/ p.id \in T
     \/ p.id \in L /\ (p.cut \/ kind = "archive")
     \/ p.got = WholeOf(p, A[p.id])

(* What a header, and the chunks after it, make when the end comes.        *)
Drained(h, g, F, id, req, L, T) == F[1].is = "end" /\ Sound((<<h>> \o g) \o F, id, req, L, T)
Known(h, g, id, req, L, T) ==
  /\ h.file = req.file /\ h.cut = (h.n > req.cap)
  /\ \A i \in 1..Len(g) :
       /\ g[i].is = "chunk" /\ g[i].file = req.file /\ g[i].cut = FALSE
       /\ g[i].n >= i /\ (id \notin L => g[i].n = i)
       /\ id \notin T => g[i].number = h.number /\ g[i].n <= Smaller(h.n, req.cap)
  /\ \A i, j \in 1..Len(g) : i < j => g[j].n - g[i].n >= j - i
  /\ id \notin T /\ id \notin L => Len(g) = Smaller(h.n, req.cap)

LEMMA ChunksAre ==
  ASSUME NEW h \in Frame, NEW g \in Seq(Frame), NEW F \in Seq(Frame), F # <<>>,
         h.is = "header", NEW id, NEW req, NEW L, NEW T, Drained(h, g, F, id, req, L, T)
  PROVE  Known(h, g, id, req, L, T)
<1> DEFINE A == (<<h>> \o g) \o F
<1>1. <<h>> \in Seq(Frame) /\ Len(<<h>>) = 1 /\ <<h>>[1] = h /\ Len(g) \in Nat /\ Len(F) \in Nat /\ Len(F) >= 1
  BY LenProperties, EmptySeq
<1>2. /\ <<h>> \o g \in Seq(Frame) /\ Len(<<h>> \o g) = 1 + Len(g)
      /\ \A i \in 1..1 + Len(g) : (<<h>> \o g)[i] = IF i <= 1 THEN <<h>>[i] ELSE g[i - 1]
  BY <1>1, ConcatProperties
<1>3. /\ A \in Seq(Frame) /\ Len(A) = 1 + Len(g) + Len(F)
      /\ \A i \in 1..1 + Len(g) + Len(F) :
           A[i] = IF i <= 1 + Len(g) THEN (<<h>> \o g)[i] ELSE F[i - (1 + Len(g))]
  BY <1>1, <1>2, ConcatProperties
<1>4. A # <<>> /\ A[1] = h
  BY <1>1, <1>2, <1>3
<1>5. A[Len(g) + 2] = F[1] /\ Len(g) + 2 \in 2..Len(A)
  BY <1>1, <1>3
<1>6. \A i \in 1..Len(g) : A[i + 1] = g[i] /\ i + 1 \in 2..Len(A) /\ i + 1 # Len(A)
  <2>. SUFFICES ASSUME NEW i \in 1..Len(g) PROVE A[i + 1] = g[i] /\ i + 1 \in 2..Len(A) /\ i + 1 # Len(A)
    OBVIOUS
  <2>1. i + 1 \in 1..1 + Len(g) /\ ~(i + 1 <= 1) /\ (i + 1) - 1 = i /\ i + 1 \in 1..1 + Len(g) + Len(F)
    BY <1>1
  <2>2. (<<h>> \o g)[i + 1] = g[i]
    BY <1>2, <2>1
  <2>. QED
    BY <1>1, <1>3, <2>1, <2>2
<1>7. Sound(A, id, req, L, T) /\ F[1].is = "end"
  BY DEF Drained
<1> HIDE DEF A
<1>8. Opened(A, req) /\ Apart(A) /\ \A i \in 2..Len(A) : Entry(A, i, id, req, L, T)
  BY <1>4, <1>7 DEF Sound
<1>9. ASSUME NEW i \in 1..Len(g)
      PROVE  /\ g[i].is = "chunk" /\ g[i].file = req.file /\ g[i].cut = FALSE
             /\ g[i].n >= i /\ (id \notin L => g[i].n = i)
             /\ id \notin T => g[i].number = h.number /\ g[i].n <= Smaller(h.n, req.cap)
  <2> DEFINE j == i + 1
  <2>1. A[j] = g[i] /\ j # Len(A) /\ j - 1 = i /\ j \in 2..Len(A)
    BY <1>6
  <2> HIDE DEF j
  <2>2. Entry(A, j, id, req, L, T)
    BY <1>8, <2>1
  <2>. QED
    BY <1>4, <2>1, <2>2 DEF Entry
<1>10. ASSUME NEW i \in 1..Len(g), NEW j \in 1..Len(g), i < j PROVE g[j].n - g[i].n >= j - i
  <2>1. A[i + 1] = g[i] /\ A[j + 1] = g[j] /\ i + 1 \in 2..Len(A) /\ j + 1 \in 2..Len(A)
        /\ i + 1 < j + 1 /\ (j + 1) - (i + 1) = j - i
    BY <1>6, <1>10
  <2>2. g[i].is = "chunk" /\ g[j].is = "chunk"
    BY <1>9
  <2>3. A[j + 1].n - A[i + 1].n >= (j + 1) - (i + 1)
    BY <1>8, <2>1, <2>2 DEF Apart
  <2>. QED
    BY <2>1, <2>3
<1>11. id \notin T /\ id \notin L => Len(g) = Smaller(h.n, req.cap)
  <2> DEFINE j == Len(g) + 2
  <2>1. A[j].is = "end" /\ j \in 2..Len(A) /\ j - 2 = Len(g)
    BY <1>1, <1>5, <1>7
  <2> HIDE DEF j
  <2>2. Entry(A, j, id, req, L, T)
    BY <1>8, <2>1
  <2>. QED
    BY <1>4, <2>1, <2>2 DEF Entry
<1>12. h.file = req.file /\ h.cut = (h.n > req.cap)
  BY <1>4, <1>8 DEF Opened
<1>. QED
  BY <1>9, <1>10, <1>11, <1>12 DEF Known

(* The chunks of one version of one file, none missing before the last.    *)
Follow(g, p) ==
  \A i \in 1..Len(g) : /\ g[i].is = "chunk" /\ g[i].file = p.file /\ g[i].cut = FALSE
                       /\ g[i].number = p.number /\ g[i].n = i

(* Chunks that follow each other, none twice, all there are.               *)
LEMMA WholeIs ==
  ASSUME NEW g \in Seq(Frame), NEW p, NEW req, Len(g) = Smaller(p.n, req.cap), Follow(g, p)
  PROVE  g = WholeOf(p, req)
<1> DEFINE m == Smaller(p.n, req.cap)
<1> HIDE DEF m
<1>0. m = Len(g) /\ m \in Nat
  BY LenProperties DEF m
<1>1. g = [i \in 1..m |-> g[i]]
  BY <1>0
<1>2. \A i \in 1..m : g[i] = [is |-> "chunk", file |-> p.file, n |-> i, number |-> p.number, cut |-> FALSE]
  <2>. SUFFICES ASSUME NEW i \in 1..m
                PROVE  g[i] = [is |-> "chunk", file |-> p.file, n |-> i, number |-> p.number, cut |-> FALSE]
    OBVIOUS
  <2>1. g[i] \in Frame
    BY <1>0, ElementOfSeq
  <2>2. g[i] = [is |-> g[i].is, file |-> g[i].file, n |-> g[i].n, number |-> g[i].number, cut |-> g[i].cut]
    BY <2>1 DEF Frame
  <2>3. /\ g[i].is = "chunk" /\ g[i].file = p.file /\ g[i].cut = FALSE
        /\ g[i].number = p.number /\ g[i].n = i
    BY <1>0 DEF Follow
  <2>. QED
    BY <2>2, <2>3
<1>3. WholeOf(p, req) = [i \in 1..m |->
         [is |-> "chunk", file |-> p.file, n |-> i, number |-> p.number, cut |-> FALSE]]
  BY DEF WholeOf, m
<1>. QED
  BY <1>1, <1>2, <1>3

(* When the end comes to a browser that accepts it, all chunks are there:  *)
(* nothing expired, or the length it was told shows that nothing is        *)
(* missing.                                                                *)
LEMMA EndIsWhole ==
  ASSUME Ordered, FlowInv, NEW c \in Client, Pull(c), Head(Frames(client[c].id)).is = "end",
         Accepts(client[c])
  PROVE  Good(AsPart(client[c]), client[c].kind, asked, lapsed, stirred)
<1> DEFINE r   == client[c]
           id  == r.id
           g   == r.got
           F   == Frames(id)
           h   == HeaderOf(r)
           req == asked[id]
           p   == AsPart(r)
<1>1. /\ TypeInv /\ FlowAt(c) /\ Is(c, "body") /\ r \in Reading /\ F \in Seq(Frame) /\ F # <<>>
      /\ Active(c)
  BY PullIs DEF Ordered, FlowInv, Is, Active
<1>2. h \in Frame /\ g \in Seq(Frame) /\ Stream(c) = (<<h>> \o g) \o F
  BY <1>1, StreamIs DEF Reading, Is
<1>3. /\ p.id = id /\ p.file = r.file /\ p.n = r.n /\ p.number = r.number /\ p.cut = r.cut /\ p.got = g
      /\ h.is = "header" /\ h.file = r.file /\ h.n = r.n /\ h.number = r.number /\ h.cut = r.cut
      /\ r.n \in Nat /\ r.kind \in Kind
  BY <1>1 DEF AsPart, HeaderOf, Reading
<1>4. id \in 1..Len(asked) /\ req \in Asking
  BY <1>1 DEF Ordered, ClientIds, TypeInv, LineOK
<1>5. req.cap \in Nat
  BY <1>4, AskingIs
<1>6. SoundAt(c) /\ KeptAt(c)
  BY <1>1 DEF FlowAt
<1>7. Sound((<<h>> \o g) \o F, id, req, lapsed, stirred)
  BY <1>2, <1>6 DEF SoundAt
<1>8. Drained(h, g, F, id, req, lapsed, stirred)
  <2> HIDE DEF F
  <2>1. Head(F) = F[1]
    BY <1>1, OneOff
  <2>. QED
    BY <1>7, <2>1 DEF F, Drained
<1>9. r.kind = "download" /\ ~r.cut => Len(g) = r.n
  BY DEF Accepts
<1>10. r.kind = "preview" => id \notin lapsed
  BY <1>6 DEF KeptAt
<1> HIDE DEF r, id, g, F, h, req
<1>known. Known(h, g, id, req, lapsed, stirred)
  <2>1. g \in Seq(Frame) /\ F \in Seq(Frame) /\ F # <<>> /\ h \in Frame /\ h.is = "header"
    BY <1>1, <1>2, <1>3
  <2>. QED
    BY <1>8, <2>1, ChunksAre
<1>11. /\ h.file = req.file /\ h.cut = (h.n > req.cap)
       /\ \A i \in 1..Len(g) :
            /\ g[i].is = "chunk" /\ g[i].file = req.file /\ g[i].cut = FALSE
            /\ g[i].n >= i /\ (id \notin lapsed => g[i].n = i)
            /\ id \notin stirred => g[i].number = h.number /\ g[i].n <= Smaller(h.n, req.cap)
       /\ \A i, j \in 1..Len(g) : i < j => g[j].n - g[i].n >= j - i
       /\ id \notin stirred /\ id \notin lapsed => Len(g) = Smaller(h.n, req.cap)
  BY <1>known DEF Known
<1> DEFINE m == Smaller(r.n, req.cap)
<1>12. m \in Nat /\ (r.n <= req.cap => m = r.n)
  BY <1>3, <1>5, SmallerIs
<1>13. ASSUME id \notin stirred, ~(id \in lapsed /\ (r.cut \/ r.kind = "archive"))
       PROVE  g = WholeOf(p, req)
  <2>1. Len(g) = m /\ \A i \in 1..Len(g) : g[i].n = i
    <3>1. CASE id \notin lapsed
      BY <1>3, <1>11, <1>13, <3>1
    <3>2. CASE id \in lapsed
      <4>1. r.kind = "download" /\ ~r.cut
        BY <1>3, <1>10, <1>13, <3>2 DEF Kind
      <4>2. Len(g) = r.n /\ r.n <= req.cap /\ m = r.n
        <5>1. Len(g) = r.n
          BY <1>9, <4>1
        <5>2. ~(r.n > req.cap)
          BY <1>3, <1>11, <4>1
        <5>3. r.n <= req.cap
          BY <1>3, <1>5, <5>2
        <5>. QED
          BY <1>12, <5>1, <5>3
      <4>3. \A i \in 1..Len(g) : g[i].n \in Nat /\ g[i].n >= i /\ g[i].n <= r.n
        <5>1. \A i \in 1..Len(g) : g[i].n \in Nat
          BY <1>2, ElementOfSeq, FrameIs
        <5>. QED
          BY <1>3, <1>11, <1>13, <4>2, <5>1
      <4>4. ASSUME NEW i \in 1..Len(g) PROVE g[i].n = i
        <5>1. r.n \in 1..Len(g)
          BY <1>3, <4>2, <4>4
        <5>2. CASE i = r.n
          BY <4>3, <5>1, <5>2
        <5>3. CASE i < r.n
          <6>1. g[r.n].n - g[i].n >= r.n - i
            BY <1>11, <4>4, <5>1, <5>3
          <6>. QED
            BY <1>3, <4>3, <5>1, <6>1
        <5>. QED
          BY <1>3, <4>2, <5>2, <5>3
      <4>. QED
        BY <4>2, <4>4
    <3>. QED
      BY <3>1, <3>2
  <2> HIDE DEF m, p
  <2>2. m = Smaller(p.n, req.cap)
    BY <1>3 DEF m
  <2>3. Follow(g, p)
    BY <1>3, <1>11, <1>13, <2>1 DEF Follow
  <2>. QED
    BY <1>2, <2>1, <2>2, <2>3, WholeIs
<1> HIDE DEF p, m
<1>14. Good(p, r.kind, asked, lapsed, stirred)
  <2>1. asked[p.id] = req
    BY <1>3 DEF req
  <2>. QED
    BY <1>3, <1>4, <1>11, <1>13, <2>1 DEF Good
<1>. QED
  BY <1>14 DEF p, r

-----------------------------------------------------------------------------
\* The parts of a browser

(* What a browser that was told of no error has so far.                    *)
Holds(c)   == Active(c) \/ client[c].at \in {"next", "complete"}
PartsAt(c) ==
  Holds(c) =>
    /\ \A p \in client[c].parts : p.file \in client[c].wanted /\ Good(p, client[c].kind, asked, lapsed, stirred)
    /\ client[c].kind # "archive" => \A f, g \in client[c].wanted : f = g
    /\ Active(c) => client[c].file \in client[c].wanted
    /\ Is(c, "complete") => {p.file : p \in client[c].parts} = client[c].wanted
PartsInv == \A c \in Client : PartsAt(c)

(* What is whole stays so.                                                 *)
LEMMA GoodKept ==
  ASSUME TypeInv, [Next]_vars, NEW p, NEW kind, Good(p, kind, asked, lapsed, stirred)
  PROVE  Good(p, kind, asked', lapsed', stirred')
<1>1. lapsed \subseteq lapsed' /\ stirred \subseteq stirred'
      /\ p.id \in 1..Len(asked') /\ asked'[p.id] = asked[p.id]
  <2>0. p.id \in 1..Len(asked)
    BY DEF Good
  <2>1. CASE UNCHANGED <<asked, lapsed, stirred>>
    BY <2>0, <2>1
  <2>2. CASE \E id \in Id : Lapse(id)
    BY <2>0, <2>2, LapseIs
  <2>3. CASE \E f \in File, length \in 0..MaxLength : Change(f, length)
    BY <2>0, <2>3, ChangeIs
  <2>4. ASSUME NEW c \in Client, Request(c)
        PROVE  /\ UNCHANGED <<lapsed, stirred>>
               /\ p.id \in 1..Len(asked') /\ asked'[p.id] = asked[p.id]
    <3>1. Len(asked) \in Nat
      BY LenProperties DEF TypeInv, LineOK
    <3>. QED
      BY <2>0, <2>4, <3>1, RequestIs DEF ghosts
  <2>5. CASE \E s \in Slot : Take(s) \/ Look(s) \/ Send(s) \/ ServeThrows(s)
    BY <2>1, <2>5 DEF Take, Look, Send, ServeThrows, ghosts
  <2>6. ASSUME NEW c \in Client, Ask(c) \/ FirstFrame(c) \/ Pull(c) \/ Stops(c)
        PROVE  UNCHANGED <<asked, lapsed, stirred>>
    BY <2>6, AskIs, FirstFrameIs, PullIs, StopsIs DEF ghosts
  <2>. QED
    BY <2>1, <2>2, <2>3, <2>4, <2>5, <2>6, CrashIs, NextCases DEF vars, ghosts
<1>. QED
  BY <1>1 DEF Good, WholeOf

(* A browser that goes on with the parts it has.                           *)
LEMMA PartsKept ==
  ASSUME TypeInv, [Next]_vars, NEW c \in Client, PartsAt(c), Holds(c)' => Holds(c),
         client'[c].parts = client[c].parts, client'[c].wanted = client[c].wanted,
         client'[c].kind = client[c].kind,
         Active(c)' => client'[c].file \in client[c].wanted,
         Is(c, "complete")' => {p.file : p \in client[c].parts} = client[c].wanted
  PROVE  PartsAt(c)'
<1>1. ASSUME Holds(c), NEW p \in client[c].parts
      PROVE  /\ p.file \in client'[c].wanted
             /\ Good(p, client'[c].kind, asked', lapsed', stirred')
  <2>1. p.file \in client[c].wanted /\ Good(p, client[c].kind, asked, lapsed, stirred)
    BY <1>1 DEF PartsAt
  <2>2. Good(p, client[c].kind, asked', lapsed', stirred')
    BY <2>1, GoodKept
  <2>. QED
    BY <2>1, <2>2
<1>2. Holds(c)' /\ client'[c].kind # "archive" => \A f, g \in client'[c].wanted : f = g
  BY DEF PartsAt
<1>. QED
  BY <1>1, <1>2 DEF PartsAt

(* The steps of a browser, one by one.                                     *)
LEMMA PartsSame ==
  ASSUME TypeInv, [Next]_vars, NEW c \in Client, PartsAt(c), client'[c] = client[c] PROVE PartsAt(c)'
<1>1. Holds(c)' => Holds(c)
  BY DEF Holds, Active
<1>2. CASE Holds(c)
  <2>1. Active(c)' => client'[c].file \in client[c].wanted
    BY <1>2 DEF PartsAt, Active
  <2>2. Is(c, "complete")' => {p.file : p \in client[c].parts} = client[c].wanted
    BY <1>2 DEF PartsAt, Is
  <2>. QED
    BY <1>1, <2>1, <2>2, PartsKept
<1>3. CASE ~Holds(c)
  BY <1>1, <1>3 DEF PartsAt
<1>. QED
  BY <1>2, <1>3

LEMMA PartsRequest ==
  ASSUME TypeInv, [Next]_vars, NEW c \in Client, PartsAt(c), Request(c) PROVE PartsAt(c)'
<1>1. /\ Is(c, "next") /\ client'[c].at = "first"
      /\ client'[c].parts = client[c].parts /\ client'[c].wanted = client[c].wanted
      /\ client'[c].kind = client[c].kind /\ client'[c].file \in client[c].wanted
  BY RequestIs
<1>2. Holds(c) /\ ~Is(c, "complete")'
  BY <1>1 DEF Holds, Is
<1>. QED
  BY <1>1, <1>2, PartsKept

LEMMA PartsFirst ==
  ASSUME TypeInv, [Next]_vars, NEW c \in Client, PartsAt(c), FirstFrame(c) PROVE PartsAt(c)'
<1>1. Is(c, "first") /\ client[c] \in Waiting
  BY FirstFrameIs
<1>2. CASE client'[c].at = "failed"
  BY <1>2 DEF PartsAt, Holds, Active
<1>3. ASSUME NEW frame,
             client'[c] = [at |-> IF client[c].kind = "download" THEN "audit" ELSE "body",
                     kind |-> client[c].kind, wanted |-> client[c].wanted,
                     parts |-> client[c].parts, id |-> client[c].id,
                     file |-> client[c].file, n |-> frame.n, number |-> frame.number,
                     cut |-> frame.cut, got |-> <<>>]
      PROVE  PartsAt(c)'
  <2>1. /\ client'[c].at \in {"audit", "body"} /\ client'[c].file = client[c].file
        /\ client'[c].parts = client[c].parts /\ client'[c].wanted = client[c].wanted
        /\ client'[c].kind = client[c].kind
    BY <1>3
  <2>2. Holds(c) /\ Active(c) /\ ~Is(c, "complete")'
    BY <1>1, <2>1 DEF Holds, Active, Is
  <2>3. client[c].file \in client[c].wanted
    BY <2>2 DEF PartsAt
  <2>. QED
    BY <2>1, <2>2, <2>3, PartsKept
<1>. QED
  BY <1>2, <1>3, FirstFrameIs

(* A part is added when its end has come, and it is whole then.            *)
LEMMA PartsPull ==
  ASSUME Ordered, FlowInv, [Next]_vars, NEW c \in Client, PartsAt(c), Pull(c) PROVE PartsAt(c)'
<1>0. TypeInv
  BY DEF Ordered
<1>1. Is(c, "body") /\ client[c] \in Reading /\ Holds(c) /\ Active(c)
  BY <1>0, PullIs DEF Is, Holds, Active
<1>2. CASE client'[c].at = "failed"
  BY <1>2 DEF PartsAt, Holds, Active
<1>3. CASE client'[c] = [client[c] EXCEPT !.got = Append(client[c].got, Head(Frames(client[c].id)))]
  <2>1. /\ client'[c].at = "body" /\ client'[c].file = client[c].file
        /\ client'[c].parts = client[c].parts /\ client'[c].wanted = client[c].wanted
        /\ client'[c].kind = client[c].kind
    BY <1>1, <1>3 DEF Reading, Is
  <2>2. ~Is(c, "complete")' /\ client[c].file \in client[c].wanted
    BY <1>1, <2>1 DEF Is, PartsAt
  <2>. QED
    BY <1>0, <1>1, <2>1, <2>2, PartsKept
<1>4. CASE /\ Head(Frames(client[c].id)).is = "end"
           /\ client'[c] = [at |-> IF ~Accepts(client[c]) THEN "failed"
                              ELSE IF client[c].kind = "archive" THEN "next" ELSE "complete",
                       kind |-> client[c].kind, wanted |-> client[c].wanted,
                       parts |-> client[c].parts \cup {AsPart(client[c])}]
  <2> DEFINE q == AsPart(client[c])
  <2>1. /\ client'[c].at = IF ~Accepts(client[c]) THEN "failed"
                              ELSE IF client[c].kind = "archive" THEN "next" ELSE "complete"
        /\ client'[c].kind = client[c].kind /\ client'[c].wanted = client[c].wanted
        /\ client'[c].parts = client[c].parts \cup {q}
    BY <1>4
  <2>2. q.file = client[c].file
    BY DEF AsPart
  <2>3. CASE ~Accepts(client[c])
    BY <1>2, <2>1, <2>3
  <2>4. CASE Accepts(client[c])
    <3>1. Good(q, client[c].kind, asked, lapsed, stirred)
      BY <1>4, <2>4, EndIsWhole
    <3>2. client[c].file \in client[c].wanted
      BY <1>1 DEF PartsAt
    <3> HIDE DEF q
    <3>3. ASSUME NEW p \in client'[c].parts
          PROVE  /\ p.file \in client'[c].wanted
                 /\ Good(p, client'[c].kind, asked', lapsed', stirred')
      <4>1. p.file \in client[c].wanted /\ Good(p, client[c].kind, asked, lapsed, stirred)
        BY <1>1, <2>1, <2>2, <3>1, <3>2, <3>3 DEF PartsAt
      <4>2. Good(p, client[c].kind, asked', lapsed', stirred')
        BY <1>0, <4>1, GoodKept
      <4>. QED
        BY <2>1, <4>1, <4>2
    <3>4. client[c].kind # "archive" => \A f, g \in client[c].wanted : f = g
      BY <1>1 DEF PartsAt
    <3>5. ~Active(c)'
      BY <2>1, <2>4 DEF Active
    <3>6. Is(c, "complete")' => {p.file : p \in client'[c].parts} = client'[c].wanted
      <4>. SUFFICES ASSUME client[c].kind # "archive"
                    PROVE  {p.file : p \in client'[c].parts} = client[c].wanted
        BY <2>1, <2>4 DEF Is
      <4>1. q \in client'[c].parts /\ q.file = client[c].file
        BY <2>1, <2>2
      <4>2. \A f \in client[c].wanted : f = client[c].file
        BY <3>2, <3>4
      <4>3. \A p \in client'[c].parts : p.file \in client[c].wanted
        BY <2>1, <3>3
      <4>. QED
        BY <4>1, <4>2, <4>3
    <3>. QED
      BY <2>1, <3>3, <3>4, <3>5, <3>6 DEF PartsAt
  <2>. QED
    BY <2>3, <2>4
<1>. QED
  BY <1>0, <1>2, <1>3, <1>4, PullIs

(* An archive is complete when no file is missing.                         *)
LEMMA PartsStops ==
  ASSUME TypeInv, [Next]_vars, NEW c \in Client, PartsAt(c), Stops(c) PROVE PartsAt(c)'
<1>1. CASE client'[c].at \in {"failed", "cancelled"}
  BY <1>1 DEF PartsAt, Holds, Active
<1>2. CASE Is(c, "next") /\ Missing(c) = {} /\ client'[c] = [client[c] EXCEPT !.at = "complete"]
  <2>1. client[c] \in Choosing /\ Holds(c)
    BY <1>2, ClientIs DEF Is, TypeInv, Holds
  <2>2. /\ client'[c].at = "complete" /\ client'[c].parts = client[c].parts
        /\ client'[c].wanted = client[c].wanted /\ client'[c].kind = client[c].kind
    BY <1>2, <2>1 DEF Choosing
  <2>3. {p.file : p \in client[c].parts} = client[c].wanted
    BY <1>2, <2>1 DEF PartsAt, Missing
  <2>4. ~Active(c)'
    BY <2>2 DEF Active
  <2>. QED
    BY <2>1, <2>2, <2>3, <2>4, PartsKept
<1>3. CASE Is(c, "audit") /\ client'[c] = [client[c] EXCEPT !.at = "body"]
  <2>1. client[c] \in Reading /\ Holds(c) /\ Active(c)
    BY <1>3, ClientIs DEF Is, TypeInv, Holds, Active
  <2>2. /\ client'[c].at = "body" /\ client'[c].parts = client[c].parts /\ client'[c].file = client[c].file
        /\ client'[c].wanted = client[c].wanted /\ client'[c].kind = client[c].kind
    BY <1>3, <2>1 DEF Reading
  <2>3. client[c].file \in client[c].wanted /\ ~Is(c, "complete")'
    BY <2>1, <2>2 DEF PartsAt, Is
  <2>. QED
    BY <2>1, <2>2, <2>3, PartsKept
<1>. QED
  BY <1>1, <1>2, <1>3, StopsIs

LEMMA PartsStep ==
  ASSUME Ordered, FlowInv, PartsInv, [Next]_vars PROVE PartsInv'
<1>0. TypeInv
  BY DEF Ordered
<1>. SUFFICES ASSUME NEW c \in Client PROVE PartsAt(c)'
  BY DEF PartsInv
<1>1. PartsAt(c)
  BY DEF PartsInv
<1>2. CASE client'[c] = client[c]
  BY <1>0, <1>1, <1>2, PartsSame
<1>3. CASE Ask(c)
  <2>1. /\ client'[c].at = "next" /\ client'[c].parts = {}
        /\ client'[c].kind # "archive" => \A f, g \in client'[c].wanted : f = g
    BY <1>0, <1>3, AskIs
  <2>. QED
    BY <2>1 DEF PartsAt, Active, Is
<1>4. CASE Request(c) \/ FirstFrame(c) \/ Pull(c) \/ Stops(c)
  BY <1>0, <1>1, <1>4, PartsRequest, PartsFirst, PartsPull, PartsStops
<1>5. ASSUME NEW d \in Client, d # c, Ask(d) \/ Request(d) \/ FirstFrame(d) \/ Pull(d) \/ Stops(d)
      PROVE  client'[c] = client[c]
  <2>1. CASE Ask(d) \/ Request(d) \/ Stops(d)
    BY <1>0, <1>5, <2>1, AskIs, RequestIs, StopsIs
  <2>2. CASE FirstFrame(d) \/ Pull(d)
    BY <1>0, <1>5, <2>2, FirstFrameIs, PullIs
  <2>. QED
    BY <1>5, <2>1, <2>2
<1>6. CASE UNCHANGED client
  BY <1>2, <1>6
<1>7. ASSUME NEW s \in Slot, Take(s) \/ Look(s) \/ Send(s) \/ ServeThrows(s) PROVE UNCHANGED client
  BY <1>7 DEF Take, Look, Send, ServeThrows
<1>. QED
  BY <1>0, <1>2, <1>3, <1>4, <1>5, <1>6, <1>7, NextCases, CrashIs, LapseIs, ChangeIs DEF vars

-----------------------------------------------------------------------------

(* The invariant.                                                          *)
TransferInv == Ordered /\ FlowInv /\ PartsInv

(* The invariant holds at first, and every step keeps it.                  *)
LEMMA InvStart == Init => TransferInv
<1>. SUFFICES ASSUME Init PROVE TransferInv
  OBVIOUS
<1>1. TypeInv
  BY TypesStart
<1>2. (\A c \in Client : client[c].at = "idle") /\ (\A s \in Slot : slot[s].at = "idle")
      /\ queue = <<>> /\ (\A id \in Id : Frames(id) = <<>>) /\ lapsed = {}
  BY DEF Init, Ready, IdleSlot, Frames, NoReply
<1>3. SlotIds /\ ClientIds
  BY <1>2 DEF SlotIds, QueueInOrder, ClientIds, Works, Busy, Active
<1>4. FreshInv /\ SeenInv
  BY <1>2 DEF FreshInv, SeenInv, SeenAt
<1>5. FlowInv /\ PartsInv
  BY <1>2 DEF FlowInv, FlowAt, PartsInv, PartsAt, Holds, Active
<1>. QED
  BY <1>1, <1>3, <1>4, <1>5 DEF TransferInv, Ordered

LEMMA InvStep == TransferInv /\ [Next]_vars => TransferInv'
  BY TypesStep, IdsStep, FreshStep, SeenStep, FlowStep, PartsStep DEF TransferInv, Ordered

(* Every variable keeps its type, and a slot or the queue only ever holds  *)
(* the number of a request that was made (serve, Reply, resultService).    *)
THEOREM TransferTypes == Spec => []TypeInv
<1>1. Init => TypeInv
  BY TypesStart
<1>2. TypeInv /\ [Next]_vars => TypeInv'
  BY TypesStep
<1>. QED
  BY <1>1, <1>2, PTL DEF Spec

(* What the invariant says of a browser that is complete.                  *)
LEMMA WholeNow == TransferInv => CompleteIsWhole
<1>. SUFFICES ASSUME TransferInv, NEW c \in Client, Is(c, "complete")
              PROVE  /\ {p.file : p \in client[c].parts} = client[c].wanted
                     /\ \A p \in client[c].parts :
                          LET r == asked[p.id] IN
                          /\ p.cut = (p.n > r.cap)
                          /\ \/ p.id \in stirred
                             \/ p.id \in lapsed /\ (p.cut \/ client[c].kind = "archive")
                             \/ p.got = [i \in 1..Smaller(p.n, r.cap) |->
                                           [is |-> "chunk", file |-> p.file, n |-> i,
                                            number |-> p.number, cut |-> FALSE]]
  BY DEF CompleteIsWhole
<1>1. PartsAt(c) /\ Holds(c)
  BY DEF TransferInv, PartsInv, Holds, Is
<1>2. {p.file : p \in client[c].parts} = client[c].wanted
  BY <1>1 DEF PartsAt
<1>3. \A p \in client[c].parts : Good(p, client[c].kind, asked, lapsed, stirred)
  BY <1>1 DEF PartsAt
<1>. QED
  BY <1>2, <1>3 DEF Good, WholeOf

(* Whatever slots, crashes, expiries and changes of files do: a browser    *)
(* that was told of no error has every file it asked for, each chunk once, *)
(* in order, from the first to the last that was promised, of the version  *)
(* that was looked at; or a part expired and no length was promised, or    *)
(* the file changed under the slot (readFile, and its client in the        *)
(* control plane).                                                         *)
THEOREM TransfersAreWhole == Spec => []CompleteIsWhole
<1>1. Init => TransferInv
  BY InvStart
<1>2. TransferInv /\ [Next]_vars => TransferInv'
  BY InvStep
<1>3. TransferInv => CompleteIsWhole
  BY WholeNow
<1>. QED
  BY <1>1, <1>2, <1>3, PTL DEF Spec

================================================================================

