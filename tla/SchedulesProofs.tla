---------------------------- MODULE SchedulesProofs ----------------------------
(***************************************************************************)
(* What holds of every crontab, of every number of updates and of every    *)
(* order in which they are served.                                         *)
(***************************************************************************)
EXTENDS Schedules, TLAPS, FiniteSetTheorems, WellFoundedInduction

-----------------------------------------------------------------------------
\* Places in a file

(* A set of naturals that is not empty has a least element.                *)
LEMMA LeastOf ==
  ASSUME NEW S \in SUBSET Nat, S # {}
  PROVE  \E m \in S : \A n \in S : m <= n
<1>1. IsWellFoundedOn(OpToRel(<, Nat), Nat)
  BY NatLessThanWellFounded
<1>2. PICK m \in S : \A n \in S : ~(<<n, m>> \in OpToRel(<, Nat))
  <2> HIDE DEF OpToRel
  <2>. QED
    BY <1>1, WFMin
<1>3. \A n \in S : ~(n < m)
  BY <1>2 DEF OpToRel
<1>4. m \in Nat /\ \A n \in S : n \in Nat
  OBVIOUS
<1>5. \A n \in S : m <= n
  BY <1>3, <1>4
<1>. QED
  BY <1>2, <1>5

Counted(P, i) == {j \in P : j <= i}

LEMMA CountOne ==
  ASSUME NEW n \in Nat, NEW P \in SUBSET (1 .. n), NEW i \in Nat
  PROVE  /\ IsFiniteSet(P) /\ IsFiniteSet(Counted(P, i))
         /\ Cardinality(P) \in Nat /\ UpTo(P, i) \in Nat /\ UpTo(P, i) <= Cardinality(P)
         /\ UpTo(P, i) = Cardinality(Counted(P, i))
         /\ UpTo(P, 0) = 0 /\ (i >= n => UpTo(P, i) = Cardinality(P))
         /\ UpTo(P, i + 1) = IF i + 1 \in P THEN UpTo(P, i) + 1 ELSE UpTo(P, i)
<1>0. \A j \in P : j \in Nat /\ 1 <= j /\ j <= n
  OBVIOUS
<1>1. IsFiniteSet(P)
  <2>1. IsFiniteSet(1 .. n)
    BY FS_Interval
  <2>. QED
    BY <2>1, FS_Subset
<1>2. Counted(P, i) \in SUBSET P /\ IsFiniteSet(Counted(P, i))
  <2>1. Counted(P, i) \in SUBSET P
    BY DEF Counted
  <2>. QED
    BY <1>1, <2>1, FS_Subset
<1>3. UpTo(P, i) = Cardinality(Counted(P, i))
  BY DEF UpTo, Counted
<1>4. Cardinality(P) \in Nat /\ UpTo(P, i) \in Nat /\ UpTo(P, i) <= Cardinality(P)
  BY <1>1, <1>2, <1>3, FS_CardinalityType, FS_Subset
<1>5. UpTo(P, 0) = 0
  <2>0. \A j \in P : ~(j <= 0)
    BY <1>0
  <2>1. Counted(P, 0) = {}
    BY <2>0, Zenon DEF Counted
  <2>. QED
    BY <2>1, FS_EmptySet DEF UpTo, Counted
<1>6. i >= n => UpTo(P, i) = Cardinality(P)
  <2>0. i >= n => \A j \in P : j <= i
    BY <1>0
  <2>1. i >= n => Counted(P, i) = P
    BY <2>0, Zenon DEF Counted
  <2>. QED
    BY <1>3, <2>1
<1>7. UpTo(P, i + 1) = IF i + 1 \in P THEN UpTo(P, i) + 1 ELSE UpTo(P, i)
  <2>1. UpTo(P, i + 1) = Cardinality(Counted(P, i + 1))
    BY DEF UpTo, Counted
  <2>2. CASE i + 1 \in P
    <3>0. \A j \in P : j <= i + 1 <=> (j <= i \/ j = i + 1)
      BY <1>0
    <3>1. Counted(P, i + 1) = Counted(P, i) \cup {i + 1}
      BY <2>2, <3>0, Zenon DEF Counted
    <3>2. i + 1 \notin Counted(P, i)
      BY DEF Counted
    <3>. QED
      BY <1>2, <1>3, <2>1, <2>2, <3>1, <3>2, FS_AddElement
  <2>3. CASE i + 1 \notin P
    <3>0. \A j \in P : j <= i + 1 <=> j <= i
      BY <1>0, <2>3
    <3>1. Counted(P, i + 1) = Counted(P, i)
      BY <3>0, Zenon DEF Counted
    <3>. QED
      BY <1>3, <2>1, <2>3, <3>1
  <2>. QED
    BY <2>2, <2>3
<1>. QED
  BY <1>1, <1>2, <1>3, <1>4, <1>5, <1>6, <1>7

(* Each place of a set has a number, each number a place, and only one.    *)
LEMMA PlaceOf ==
  ASSUME NEW n \in Nat, NEW P \in SUBSET (1 .. n), NEW k \in 1 .. Cardinality(P)
  PROVE  \E i \in P : UpTo(P, i) = k
<1> DEFINE Reached == {m \in 0 .. n : UpTo(P, m) >= k}
<1>1. UpTo(P, n) = Cardinality(P) /\ UpTo(P, 0) = 0 /\ Cardinality(P) \in Nat
  BY CountOne
<1>2. Reached \in SUBSET Nat /\ Reached # {}
  BY <1>1
<1>3. PICK m \in Reached : \A l \in Reached : m <= l
  <2> HIDE DEF Reached
  <2>. QED
    BY <1>2, LeastOf
<1>4. m # 0 /\ m \in 1 .. n /\ UpTo(P, m) >= k
  BY <1>1, <1>3
<1>5. m - 1 \in Nat /\ m - 1 \in 0 .. n /\ (m - 1) + 1 = m
  BY <1>4
<1>6. ~(UpTo(P, m - 1) >= k)
  BY <1>3, <1>5
<1>7. UpTo(P, m) = IF m \in P THEN UpTo(P, m - 1) + 1 ELSE UpTo(P, m - 1)
  BY <1>5, CountOne
<1>8. UpTo(P, m - 1) \in Nat
  BY <1>5, CountOne
<1>. QED
  BY <1>4, <1>6, <1>7, <1>8

LEMMA CountGrows ==
  ASSUME NEW n \in Nat, NEW P \in SUBSET (1 .. n), NEW i \in P, NEW j \in P, i < j
  PROVE  UpTo(P, i) < UpTo(P, j)
<1>0. /\ j <= j /\ ~(j <= i)
      /\ \A p \in P : p <= i => p <= j
  OBVIOUS
<1>1. Counted(P, i) \cup {j} \in SUBSET Counted(P, j) /\ j \notin Counted(P, i)
  BY <1>0, Zenon DEF Counted
<1>2. IsFiniteSet(Counted(P, i)) /\ IsFiniteSet(Counted(P, j))
  <2>1. i \in Nat /\ j \in Nat
    OBVIOUS
  <2>. QED
    BY <2>1, CountOne
<1>3. Cardinality(Counted(P, i) \cup {j}) = Cardinality(Counted(P, i)) + 1
  BY <1>1, <1>2, FS_AddElement
<1>4. Cardinality(Counted(P, i) \cup {j}) <= Cardinality(Counted(P, j))
  BY <1>1, <1>2, FS_Subset
<1>5. /\ UpTo(P, i) \in Nat /\ UpTo(P, j) \in Nat
      /\ UpTo(P, i) = Cardinality(Counted(P, i)) /\ UpTo(P, j) = Cardinality(Counted(P, j))
  <2>1. \A p \in P : p \in Nat
    OBVIOUS
  <2>2. UpTo(P, i) \in Nat /\ UpTo(P, j) \in Nat
    BY <2>1, CountOne
  <2>3. UpTo(P, i) = Cardinality(Counted(P, i)) /\ UpTo(P, j) = Cardinality(Counted(P, j))
    BY DEF UpTo, Counted
  <2>. QED
    BY <2>2, <2>3
<1>. QED
  BY <1>3, <1>4, <1>5

LEMMA OnePlace ==
  ASSUME NEW n \in Nat, NEW P \in SUBSET (1 .. n), NEW i \in P
  PROVE  (CHOOSE p \in P : UpTo(P, p) = UpTo(P, i)) = i
<1>1. PICK p \in P : p = CHOOSE q \in P : UpTo(P, q) = UpTo(P, i)
  OBVIOUS
<1>2. UpTo(P, p) = UpTo(P, i)
  BY <1>1
<1>3. p \in Nat /\ i \in Nat /\ UpTo(P, p) \in Nat /\ UpTo(P, i) \in Nat
  <2>1. p \in Nat /\ i \in Nat
    OBVIOUS
  <2>. QED
    BY <2>1, CountOne
<1>4. ~(p < i)
  <2> SUFFICES ASSUME p < i PROVE FALSE
    OBVIOUS
  <2>1. UpTo(P, p) < UpTo(P, i)
    BY CountGrows
  <2>. QED
    BY <1>2, <1>3, <2>1
<1>5. ~(i < p)
  <2> SUFFICES ASSUME i < p PROVE FALSE
    OBVIOUS
  <2>1. UpTo(P, i) < UpTo(P, p)
    BY CountGrows
  <2>. QED
    BY <1>2, <1>3, <2>1
<1>. QED
  BY <1>1, <1>3, <1>4, <1>5

LEMMA NumberOf ==
  ASSUME NEW n \in Nat, NEW P \in SUBSET (1 .. n), NEW i \in P
  PROVE  UpTo(P, i) \in 1 .. Cardinality(P)
<1>1. i \in Nat /\ i <= i
  OBVIOUS
<1>2. i \in Counted(P, i)
  BY <1>1, Zenon DEF Counted
<1>3. IsFiniteSet(Counted(P, i)) /\ UpTo(P, i) \in Nat
  BY <1>1, CountOne
<1>4. Cardinality(Counted(P, i)) # 0
  BY <1>2, <1>3, FS_EmptySet
<1>5. UpTo(P, i) = Cardinality(Counted(P, i))
  BY DEF UpTo, Counted
<1>6. Cardinality(P) \in Nat
  BY CountOne
<1>7. UpTo(P, i) <= Cardinality(P)
  BY <1>1, CountOne
<1>. QED
  BY <1>3, <1>4, <1>5, <1>6, <1>7

-----------------------------------------------------------------------------
\* What is read from a crontab, and what is written

LEMMA InOrderType ==
  ASSUME NEW T, NEW lines \in Seq(T), NEW P \in SUBSET (1 .. Len(lines))
  PROVE  /\ InOrder(lines, P) \in Seq(T) /\ Cardinality(P) \in Nat
         /\ Len(InOrder(lines, P)) = Cardinality(P)
         /\ \A k \in 1 .. Cardinality(P) : \E i \in P : InOrder(lines, P)[k] = lines[i]
<1>1. Len(lines) \in Nat /\ Cardinality(P) \in Nat
  <2>1. Len(lines) \in Nat /\ 0 \in Nat
    OBVIOUS
  <2>. QED
    BY <2>1, CountOne
<1>2. \A k \in 1 .. Cardinality(P) : (CHOOSE i \in P : UpTo(P, i) = k) \in P
  BY <1>1, PlaceOf
<1>3. \A i \in P : lines[i] \in T
  OBVIOUS
<1>4. InOrder(lines, P) = [k \in 1 .. Cardinality(P) |-> lines[CHOOSE i \in P : UpTo(P, i) = k]]
  BY DEF InOrder
<1>5. \A k \in 1 .. Cardinality(P) : \E i \in P : InOrder(lines, P)[k] = lines[i]
  BY <1>2, <1>4
<1>6. InOrder(lines, P) \in [1 .. Cardinality(P) -> T]
  BY <1>2, <1>3, <1>4
<1>. QED
  BY <1>1, <1>5, <1>6

LEMMA JobLine ==
  ASSUME NEW lines \in Seq(Line), NEW i \in JobsAt(lines)
  PROVE  i \in 1 .. Len(lines) /\ lines[i].entry \in Entry
<1>1. i \in 1 .. Len(lines) /\ lines[i] \in Line /\ lines[i].is = "job"
  BY DEF JobsAt, IsJob
<1>2. PICK e \in Entry : lines[i] = Job(e)
  BY <1>1 DEF Line, Begin, End, Blank, Remark
<1>. QED
  BY <1>1, <1>2 DEF Job

LEMMA ManagedType ==
  ASSUME NEW lines \in Seq(Line)
  PROVE  /\ ManagedJobs(lines) \in Seq(Entry)
         /\ ManagedAt(lines) \in SUBSET (1 .. Len(lines))
         /\ Len(ManagedJobs(lines)) = Cardinality(ManagedAt(lines))
         /\ Cardinality(ManagedAt(lines)) \in Nat
<1> DEFINE P == ManagedAt(lines)
<1>1. P \in SUBSET JobsAt(lines) /\ P \in SUBSET (1 .. Len(lines))
  BY JobLine DEF ManagedAt
<1>2. /\ Cardinality(P) \in Nat /\ InOrder(lines, P) \in Seq(Line)
      /\ Len(InOrder(lines, P)) = Cardinality(P)
      /\ \A k \in 1 .. Cardinality(P) : \E i \in P : InOrder(lines, P)[k] = lines[i]
  <2> HIDE DEF P
  <2>. QED
    BY <1>1, InOrderType
<1>3. DOMAIN InOrder(lines, P) = 1 .. Cardinality(P)
  BY <1>2
<1>4. \A k \in 1 .. Cardinality(P) : InOrder(lines, P)[k].entry \in Entry
  <2> HIDE DEF P
  <2> TAKE k \in 1 .. Cardinality(P)
  <2>1. PICK i \in P : InOrder(lines, P)[k] = lines[i]
    BY <1>2
  <2>2. lines[i].entry \in Entry
    BY <1>1, JobLine
  <2>. QED
    BY <2>1, <2>2
<1>5. ManagedJobs(lines) = [k \in 1 .. Cardinality(P) |-> InOrder(lines, P)[k].entry]
  BY <1>3 DEF ManagedJobs, Entries
<1>6. ManagedJobs(lines) \in [1 .. Cardinality(P) -> Entry]
  <2> HIDE DEF P
  <2>. QED
    BY <1>4, <1>5
<1>. QED
  <2> HIDE DEF P
  <2>1. ManagedJobs(lines) \in Seq(Entry) /\ Len(ManagedJobs(lines)) = Cardinality(P)
    BY <1>2, <1>6
  <2>. QED
    BY <1>1, <1>2, <2>1 DEF P

LEMMA FirstAtType ==
  ASSUME NEW T, NEW lines \in Seq(T), NEW line
  PROVE  /\ FirstAt(lines, line) \in 0 .. Len(lines)
         /\ FirstAt(lines, line) # 0 => lines[FirstAt(lines, line)] = line
         /\ \A i \in 1 .. Len(lines) : lines[i] = line => FirstAt(lines, line) # 0 /\ FirstAt(lines, line) <= i
<1> DEFINE S == {i \in 1 .. Len(lines) : lines[i] = line}
           First(i) == lines[i] = line /\ \A j \in 1 .. i - 1 : lines[j] # line
<1>1. CASE S = {}
  BY <1>1 DEF FirstAt
<1>2. CASE S # {}
  <2>1. PICK m \in S : \A i \in S : m <= i
    <3>1. S \in SUBSET Nat
      OBVIOUS
    <3> HIDE DEF S
    <3>. QED
      BY <1>2, <3>1, LeastOf
  <2>2. m \in DOMAIN lines /\ First(m)
    BY <2>1
  <2>3. FirstAt(lines, line) = CHOOSE i \in DOMAIN lines : First(i)
    BY <2>2 DEF FirstAt
  <2>4. PICK f : f = FirstAt(lines, line)
    OBVIOUS
  <2>5. f \in DOMAIN lines /\ First(f)
    <3> HIDE DEF First
    <3>. QED
      BY <2>2, <2>3, <2>4
  <2>6. \A i \in 1 .. Len(lines) : lines[i] = line => f <= i
    BY <2>5
  <2>. QED
    BY <2>4, <2>5, <2>6
<1>. QED
  BY <1>1, <1>2

LEMMA BodyType ==
  ASSUME NEW entries \in Seq(Entry)
  PROVE  Body(entries) \in Seq(Line) /\ Len(Body(entries)) = Len(entries)
<1>1. \A k \in 1 .. Len(entries) : Job(entries[k]) \in Line
  BY DEF Line
<1>. QED
  BY <1>1 DEF Body

LEMMA WrittenType ==
  ASSUME NEW lines \in Seq(Line), NEW entries \in Seq(Entry)
  PROVE  WriteManagedBlock(lines, entries) \in Seq(Line)
<1>1. Body(entries) \in Seq(Line)
  BY BodyType
<1>2. Begin \in Line /\ End \in Line /\ Blank \in Line
  BY DEF Line
<1>3. FirstAt(lines, Begin) \in 0 .. Len(lines) /\ FirstAt(lines, End) \in 0 .. Len(lines)
  BY FirstAtType
<1>4. \A n \in 0 .. Len(lines) : SubSeq(lines, 1, n) \in Seq(Line)
  OBVIOUS
<1>5. \A n \in 1 .. Len(lines) : SubSeq(lines, n, Len(lines)) \in Seq(Line)
  OBVIOUS
<1>6. Closing(lines, FirstAt(lines, Begin)) \in Seq(Line)
  BY <1>2, <1>3, <1>5 DEF Closing
<1>7. Appended(lines, Body(entries)) \in Seq(Line)
  BY <1>1, <1>2, <1>4 DEF Appended
<1>. QED
  BY <1>1, <1>3, <1>4, <1>6, <1>7 DEF WriteManagedBlock

-----------------------------------------------------------------------------
\* What the steps have in common

Result == {"none", "ok", "conflict", "notFound", "error"}
Await  == {"idle", "listed", "read", "write", "again", "done"}
Pages  == page \in [Update -> Page] /\ text \in [Update -> Seq(Line)] /\ edited \in [Update -> Seq(Line)]

LEMMA NothingType ==
  NoPage \in Page /\ <<>> \in Seq(Line)
  BY DEF NoPage, Page

LEMMA FinishType ==
  ASSUME TypeOK, NEW u \in Update, NEW result \in Result, Finish(u, result)
  PROVE  at' \in [Update -> Await] /\ answer' \in [Update -> Result] /\ Pages'
<1>1. at' \in [Update -> Await] /\ answer' \in [Update -> Result]
  <2>1. at' = [at EXCEPT ![u] = "done"] /\ answer' = [answer EXCEPT ![u] = result]
    BY DEF Finish, Goto
  <2>2. at \in [Update -> Await] /\ answer \in [Update -> Result] /\ "done" \in Await
    BY DEF TypeOK, Await, Result
  <2>. QED
    BY <2>1, <2>2
<1>2. CASE Sending(u)
  BY <1>1, <1>2 DEF TypeOK, Finish, Pages, local
<1>3. CASE ~Sending(u)
  <2>1. /\ page' = [page EXCEPT ![u] = NoPage]
        /\ text' = [text EXCEPT ![u] = <<>>]
        /\ edited' = [edited EXCEPT ![u] = <<>>]
    BY <1>3 DEF Finish
  <2>2. page' \in [Update -> Page]
    BY <2>1, NothingType DEF TypeOK
  <2>3. text' \in [Update -> Seq(Line)]
    BY <2>1, NothingType DEF TypeOK
  <2>4. edited' \in [Update -> Seq(Line)]
    BY <2>1, NothingType DEF TypeOK
  <2>. QED
    BY <1>1, <2>2, <2>3, <2>4 DEF Pages
<1>. QED
  BY <1>1, <1>2, <1>3

LEMMA PushType ==
  ASSUME TypeOK, NEW u \in Update, NEW kind \in {"read", "write"}, Push(u, kind)
  PROVE  call' \in [Update -> Call] /\ queue' \in Seq(Update)
<1>1. [kind |-> kind, is |-> "queued"] \in Call
  BY DEF Call
<1>. QED
  BY <1>1 DEF TypeOK, Push

LEMMA BecameType ==
  ASSUME TypeOK, NEW u \in Update, NEW is \in {"taken", "ok", "error", "lost"}, Became(u, is)
  PROVE  call' \in [Update -> Call]
<1>1. PICK c \in Call : c = call[u]
  BY DEF TypeOK
<1>2. [c EXCEPT !.is = is] \in Call
  BY <1>1 DEF Call
<1>. QED
  BY <1>1, <1>2 DEF TypeOK, Became

LEMMA EventType ==
  ASSUME TypeOK, Event \/ UNCHANGED events
  PROVE  events' \in 0 .. MaxEvents
  BY BoundAssumption DEF TypeOK, Event

LEMMA ServedType ==
  ASSUME TypeOK, NEW u \in Update, NEW kind, Served(u, kind)
  PROVE  call' \in [Update -> Call] /\ events' \in 0 .. MaxEvents
<1>1. PICK is \in {"ok", "error", "lost"} : Became(u, is) /\ (Event \/ UNCHANGED events)
  BY DEF Served
<1>. QED
  BY <1>1, BecameType, EventType

LEMMA ChooseType ==
  ASSUME TypeOK, NEW u \in Update, NEW i \in ManagedAt(page[u].shown),
         NEW x \in Expression \cup {Keep}, Choose(u, i, x)
  PROVE  page' \in [Update -> Page]
<1> DEFINE shown == page[u].shown
<1>1. shown \in Seq(Line) /\ page \in [Update -> Page]
  BY DEF TypeOK, Page
<1>2. Len(shown) \in Nat /\ ManagedAt(shown) \in SUBSET (1 .. Len(shown)) /\ i \in JobsAt(shown)
  <2>1. Len(shown) \in Nat /\ i \in JobsAt(shown)
    BY <1>1 DEF ManagedAt
  <2> HIDE DEF shown
  <2>2. ManagedAt(shown) \in SUBSET (1 .. Len(shown))
    BY <1>1, ManagedType
  <2>. QED
    BY <2>1, <2>2
<1>3. i \in 1 .. Len(shown) /\ shown[i].entry \in Entry
  BY <1>1, <1>2, JobLine
<1>4. UpTo(ManagedAt(shown), i) \in Nat
  <2> HIDE DEF shown
  <2>0. PICK P \in SUBSET (1 .. Len(shown)) : P = ManagedAt(shown) /\ i \in P
    BY <1>2 DEF shown
  <2>1. UpTo(P, i) \in 1 .. Cardinality(P)
    BY <1>2, <2>0, NumberOf
  <2>2. Cardinality(P) \in Nat
    BY <1>1, <2>0, ManagedType
  <2>. QED
    BY <2>0, <2>1, <2>2
<1>5. ScheduleId(shown, i) \in Command \X Nat
  <2> DEFINE Above == {j \in JobsAt(shown) : j < i /\ shown[j].entry.command = shown[i].entry.command}
  <2>1. JobsAt(shown) \in SUBSET (1 .. Len(shown))
    BY <1>1, JobLine
  <2>2. Above \in SUBSET (1 .. Len(shown))
    BY <2>1
  <2>3. Cardinality(Above) \in Nat
    <3> HIDE DEF Above, shown
    <3>1. 0 \in Nat
      OBVIOUS
    <3>. QED
      BY <1>2, <2>2, <3>1, CountOne
  <2>4. shown[i].entry.command \in Command
    BY <1>3 DEF Entry
  <2>5. PICK key \in Command \X Nat : ScheduleId(shown, i) = Digest(key)
    BY <2>3, <2>4 DEF ScheduleId
  <2>. QED
    BY <2>5, AliasAssumption DEF Digest
<1>6. (~shown[i].entry.enabled) \in BOOLEAN
  BY <1>3 DEF Entry
<1>. QED
  <2>1. PICK p \in Page : page' = [page EXCEPT ![u] = p]
    BY <1>1, <1>4, <1>5, <1>6 DEF Choose, Page
  <2>. QED
    BY <1>1, <2>1

(* The file that an update sends is one.                                   *)
LEMMA EditType ==
  ASSUME TypeOK, NEW u \in Update, Edit(u)
  PROVE  edited' \in [Update -> Seq(Line)]
<1> DEFINE lines == text[u]
<1>1. PICK i \in ManagedAt(lines) :
        LET index == UpTo(ManagedAt(lines), i)
            next  == [ManagedJobs(lines) EXCEPT ![index] = Changed(@, page[u])]
        IN  edited' = [edited EXCEPT ![u] = WriteManagedBlock(lines, next)]
  BY DEF Edit, EditAt
<1>2. lines \in Seq(Line) /\ page[u] \in Page
  BY DEF TypeOK
<1>3. PICK index : index = UpTo(ManagedAt(lines), i)
  OBVIOUS
<1>4. /\ ManagedJobs(lines) \in Seq(Entry)
      /\ index \in 1 .. Len(ManagedJobs(lines))
  <2> HIDE DEF lines
  <2>1. Len(lines) \in Nat
    BY <1>2
  <2>. QED
    BY <1>2, <1>3, <2>1, ManagedType, NumberOf
<1>5. PICK job \in Entry : job = ManagedJobs(lines)[index]
  BY <1>4
<1>6. Changed(job, page[u]) \in Entry
  BY <1>2, <1>5 DEF Changed, Page, Entry
<1>7. PICK next : next = [ManagedJobs(lines) EXCEPT ![index] = Changed(@, page[u])]
  OBVIOUS
<1>8. next \in Seq(Entry)
  BY <1>4, <1>5, <1>6, <1>7
<1>9. WriteManagedBlock(lines, next) \in Seq(Line)
  BY <1>2, <1>8, WrittenType
<1>. QED
  BY <1>1, <1>3, <1>7, <1>9 DEF TypeOK

-----------------------------------------------------------------------------
\* Types

LEMMA TypeRequest ==
  ASSUME TypeOK, NEW u \in Update,
         List(u) \/ Click(u) \/ ClickInvalid(u) \/ Handle(u) \/ CutShort(u)
  PROVE  TypeOK'
<1> USE DEF TypeOK, done, local
<1>1. CASE List(u)
  <2>1. page[u] \in Page /\ file \in Seq(Line)
    OBVIOUS
  <2>2. [page[u] EXCEPT !.shown = file] \in Page
    BY <2>1 DEF Page
  <2>3. page' = [page EXCEPT ![u] = [page[u] EXCEPT !.shown = file]]
    BY <1>1 DEF List
  <2>4. page' \in [Update -> Page]
    BY <2>2, <2>3
  <2>. QED
    BY <1>1, <2>4 DEF List, Goto
<1>2. CASE Click(u)
  <2>1. PICK i \in ManagedAt(page[u].shown), x \in Expression \cup {Keep} : Choose(u, i, x)
    BY <1>2 DEF Click
  <2>2. page' \in [Update -> Page]
    BY <2>1, ChooseType
  <2>3. call' \in [Update -> Call] /\ queue' \in Seq(Update)
    BY <1>2, PushType DEF Click
  <2>. QED
    BY <1>2, <2>2, <2>3 DEF Click, Goto
<1>3. CASE ClickInvalid(u)
  BY <1>3, FinishType DEF ClickInvalid, Await, Result, Pages
<1>4. CASE Edit(u)
  <2>1. edited' \in [Update -> Seq(Line)]
    BY <1>4, EditType
  <2>2. call' \in [Update -> Call] /\ queue' \in Seq(Update)
    BY <1>4, PushType DEF Edit, EditAt
  <2>. QED
    BY <1>4, <2>1, <2>2 DEF Edit, EditAt, Goto
<1>5. CASE Refuse(u)
  <2>1. PICK result \in Result : Finish(u, result)
    BY <1>5 DEF Refuse, Result
  <2>. QED
    BY <1>5, <2>1, FinishType DEF Refuse, Await, Result, Pages
<1>6. CASE Record(u)
  <2>1. call' \in [Update -> Call] /\ queue' \in Seq(Update)
    BY <1>6, PushType DEF Record
  <2>. QED
    BY <1>6, <2>1 DEF Record, Goto
<1>7. CASE Confirm(u)
  <2>1. PICK result \in Result : Finish(u, result)
    BY <1>7 DEF Confirm, Result
  <2>. QED
    BY <1>7, <2>1, FinishType DEF Confirm, Await, Result, Pages
<1>8. CASE NoReply(u)
  <2>1. PICK result \in Result : Finish(u, result)
    BY <1>8 DEF NoReply, Result
  <2>. QED
    BY <1>8, <2>1, FinishType DEF NoReply, Await, Result, Pages
<1>9. CASE CutShort(u)
  <2>1. at' \in [Update -> Await] /\ answer' \in [Update -> Result] /\ Pages'
    BY <1>9, FinishType DEF CutShort, Result
  <2>2. events' \in 0 .. MaxEvents
    BY <1>9, EventType DEF CutShort
  <2>. QED
    BY <1>9, <2>1, <2>2 DEF CutShort, Await, Result, Pages
<1>. QED
  BY <1>1, <1>2, <1>3, <1>4, <1>5, <1>6, <1>7, <1>8, <1>9 DEF Handle

LEMMA TypeRunner ==
  ASSUME TypeOK, (\E u \in Update : Serve(u) \/ Break(u)) \/ Take \/ RunnerDies
  PROVE  TypeOK'
<1> USE DEF TypeOK, done, local
<1>1. ASSUME NEW u \in Update, ReadCrontab(u)
      PROVE  TypeOK'
  <2>1. call' \in [Update -> Call] /\ events' \in 0 .. MaxEvents
    BY <1>1, ServedType DEF ReadCrontab
  <2>. QED
    BY <1>1, <2>1 DEF ReadCrontab
<1>2. ASSUME NEW u \in Update, WriteCrontab(u)
      PROVE  TypeOK'
  <2>1. call' \in [Update -> Call] /\ events' \in 0 .. MaxEvents
    BY <1>2, ServedType DEF WriteCrontab
  <2>. QED
    BY <1>2, <2>1 DEF WriteCrontab
<1>3. ASSUME NEW u \in Update, RefuseCrontab(u)
      PROVE  TypeOK'
  <2>1. call' \in [Update -> Call]
    BY <1>3, BecameType DEF RefuseCrontab
  <2>. QED
    BY <1>3, <2>1 DEF RefuseCrontab
<1>4. ASSUME NEW u \in Update, Break(u)
      PROVE  TypeOK'
  <2>1. call' \in [Update -> Call] /\ events' \in 0 .. MaxEvents
    BY <1>4, BecameType, EventType DEF Break
  <2>. QED
    BY <1>4, <2>1 DEF Break
<1>5. CASE Take
  <2>1. Head(queue) \in Update /\ queue' \in Seq(Update)
    BY <1>5 DEF Take
  <2>2. call' \in [Update -> Call]
    BY <1>5, <2>1, BecameType DEF Take
  <2>. QED
    BY <1>5, <2>1, <2>2 DEF Take
<1>6. CASE RunnerDies
  <2>1. \A u \in Update : [call[u] EXCEPT !.is = "lost"] \in Call
    <3> TAKE u \in Update
    <3>1. PICK c \in Call : c = call[u]
      OBVIOUS
    <3>. QED
      BY <3>1 DEF Call
  <2>2. call' \in [Update -> Call]
    BY <1>6, <2>1 DEF RunnerDies
  <2>3. events' \in 0 .. MaxEvents
    BY <1>6, EventType DEF RunnerDies
  <2>. QED
    BY <1>6, <2>2, <2>3 DEF RunnerDies
<1>. QED
  BY <1>1, <1>2, <1>3, <1>4, <1>5, <1>6 DEF Serve

LEMMA TypePeople ==
  ASSUME TypeOK, HandEdit
  PROVE  TypeOK'
<1>1. ASSUME NEW line \in HandLine, NEW i \in HandPlace \cap 0 .. Len(file)
      PROVE  Inserted(line, i) \in Seq(Line)
  <2>1. file \in Seq(Line) /\ line \in Line /\ i \in Nat /\ i <= Len(file)
    BY <1>1, LinesAssumption DEF TypeOK
  <2>2. SubSeq(file, 1, i) \in Seq(Line) /\ SubSeq(file, i + 1, Len(file)) \in Seq(Line) /\ <<line>> \in Seq(Line)
    BY <2>1
  <2>. QED
    BY <2>2 DEF Inserted
<1>2. ASSUME NEW i \in DOMAIN file
      PROVE  Removed(i) \in Seq(Line)
  <2>1. file \in Seq(Line) /\ i \in 1 .. Len(file)
    BY <1>2 DEF TypeOK
  <2>2. SubSeq(file, 1, i - 1) \in Seq(Line) /\ SubSeq(file, i + 1, Len(file)) \in Seq(Line)
    BY <2>1
  <2>. QED
    BY <2>2 DEF Removed
<1>3. file' \in Seq(Line)
  BY <1>1, <1>2 DEF HandEdit
<1>4. events' \in 0 .. MaxEvents
  BY EventType DEF HandEdit
<1>. QED
  BY <1>3, <1>4 DEF HandEdit, TypeOK, done, local

(* Every variable has its type: whatever the file, what is read from it    *)
(* and what is written are crontabs, and every request is one of those     *)
(* that the runner serves.                                                 *)
THEOREM TypeCorrect == Spec => []TypeOK
<1>1. Init => TypeOK
  BY LinesAssumption, BoundAssumption, NothingType DEF Init, TypeOK, NoCall, Call
<1>2. TypeOK /\ [Next]_vars => TypeOK'
  <2> SUFFICES ASSUME TypeOK, [Next]_vars PROVE TypeOK'
    OBVIOUS
  <2>1. CASE Next
    BY <2>1, TypeRequest, TypeRunner, TypePeople DEF Next
  <2>2. CASE UNCHANGED vars
    BY <2>2 DEF TypeOK, vars, done, local
  <2>. QED
    BY <2>1, <2>2
<1>. QED
  BY <1>1, <1>2, PTL DEF Spec

-----------------------------------------------------------------------------
\* The audit log and the crontab

(* How far an update has come: nothing is sent before the edit; a write    *)
(* that is answered was installed; an update that ends while its write is  *)
(* on the way is answered with an error, since the write may follow.       *)
Progress(u) ==
  /\ at[u] \in {"idle", "listed", "read"} =>
       call[u].kind = "read" /\ u \notin written /\ u \notin recorded /\ answer[u] = "none"
  /\ at[u] = "write" => call[u].kind = "write" /\ answer[u] = "none"
  /\ at[u] = "again" => call[u].kind = "read" /\ u \in recorded /\ answer[u] = "none"
  /\ at[u] = "done" =>
       /\ call[u].kind = "write" => answer[u] = "error"
       /\ u \in written => u \in recorded \/ answer[u] = "error"
       /\ answer[u] = "ok" => u \in recorded
  /\ call[u].kind = "write" /\ call[u].is = "ok" => u \in written
  /\ u \in recorded => u \in written

Audited == \A u \in Update : Progress(u)

LEMMA AuditedIsEnough ==
  ASSUME TypeOK, Audited
  PROVE  AuditAgrees
<1>1. recorded \subseteq written
  BY DEF TypeOK, Audited, Progress
<1>2. \A u \in Update : at[u] = "done" /\ u \in written => u \in recorded \/ answer[u] = "error"
  BY DEF Audited, Progress
<1>3. \A u \in Update : answer[u] = "ok" => u \in recorded
  <2> TAKE u \in Update
  <2>1. at[u] \in {"idle", "listed", "read", "write", "again", "done"} /\ Progress(u)
    BY DEF TypeOK, Audited
  <2>. QED
    BY <2>1 DEF Progress
<1>. QED
  BY <1>1, <1>2, <1>3 DEF AuditAgrees

(* A step of one update, or of the runner for it, leaves the others where  *)
(* they are.                                                               *)
Untouched(v) ==
  /\ at'[v] = at[v] /\ answer'[v] = answer[v] /\ call'[v].kind = call[v].kind
  /\ (call'[v].is = "ok" => call[v].is = "ok")
  /\ (v \in written' <=> v \in written) /\ (v \in recorded' <=> v \in recorded)

LEMMA UntouchedStays ==
  ASSUME NEW v \in Update, Progress(v), Untouched(v)
  PROVE  Progress(v)'
  BY DEF Progress, Untouched

LEMMA AuditRequest ==
  ASSUME TypeOK, Audited, NEW u \in Update,
         List(u) \/ Click(u) \/ ClickInvalid(u) \/ Handle(u) \/ CutShort(u)
  PROVE  Audited'
<1> USE DEF Goto, Push, Finish, done, local
<1>1. Progress(u) /\ at[u] \in {"idle", "listed", "read", "write", "again", "done"}
  BY DEF Audited, TypeOK
<1>2. /\ at \in [Update -> {"idle", "listed", "read", "write", "again", "done"}]
      /\ answer \in [Update -> {"none", "ok", "conflict", "notFound", "error"}]
      /\ call \in [Update -> Call]
  BY DEF TypeOK
<1>3. ASSUME NEW v \in Update \ {u} PROVE Untouched(v)
  <2>1. at'[v] = at[v] /\ answer'[v] = answer[v] /\ call'[v] = call[v]
    BY <1>2 DEF List, Click, ClickInvalid, Handle, Edit, EditAt, Refuse, Record, Confirm, NoReply, CutShort
  <2>2. written' = written /\ (v \in recorded' <=> v \in recorded)
    BY DEF List, Click, ClickInvalid, Handle, Edit, EditAt, Refuse, Record, Confirm, NoReply, CutShort
  <2>. QED
    BY <2>1, <2>2 DEF Untouched
<1>4. Progress(u)'
  <2> USE DEF Progress
  <2>1. CASE List(u)
    BY <1>1, <1>2, <2>1 DEF List
  <2>2. CASE Click(u)
    BY <1>1, <1>2, <2>2 DEF Click
  <2>3. CASE ClickInvalid(u)
    BY <1>1, <1>2, <2>3 DEF ClickInvalid
  <2>4. CASE Edit(u)
    BY <1>1, <1>2, <2>4 DEF Edit, EditAt
  <2>5. CASE Refuse(u)
    BY <1>1, <1>2, <2>5 DEF Refuse
  <2>6. CASE Record(u)
    BY <1>1, <1>2, <2>6 DEF Record
  <2>7. CASE Confirm(u)
    BY <1>1, <1>2, <2>7 DEF Confirm
  <2>8. CASE NoReply(u)
    BY <1>1, <1>2, <2>8 DEF NoReply
  <2>9. CASE CutShort(u)
    BY <1>1, <1>2, <2>9 DEF CutShort
  <2>. QED
    BY <2>1, <2>2, <2>3, <2>4, <2>5, <2>6, <2>7, <2>8, <2>9 DEF Handle
<1>. QED
  BY <1>3, <1>4, UntouchedStays DEF Audited

LEMMA AuditRunner ==
  ASSUME TypeOK, Audited,
         (\E u \in Update : Serve(u) \/ Break(u)) \/ Take \/ RunnerDies \/ HandEdit
  PROVE  Audited'
<1> USE DEF Became, done, local
<1>1. call \in [Update -> Call] /\ queue \in Seq(Update)
  BY DEF TypeOK
<1>2. ASSUME NEW u \in Update, WriteCrontab(u)
      PROVE  Audited'
  <2>1. call[u].kind = "write" /\ written' = written \cup {u} /\ UNCHANGED <<at, answer, recorded>>
    BY <1>2 DEF WriteCrontab, Served
  <2>2. \A v \in Update \ {u} : call'[v] = call[v]
    BY <1>1, <1>2 DEF WriteCrontab, Served
  <2>3. \A v \in Update \ {u} : Untouched(v)
    BY <2>1, <2>2 DEF Untouched
  <2>4. call'[u].kind = "write"
    BY <1>1, <1>2, <2>1 DEF WriteCrontab, Served
  <2>5. Progress(u)'
    BY <2>1, <2>4 DEF Audited, Progress
  <2>. QED
    BY <2>3, <2>5, UntouchedStays DEF Audited
<1>3. ASSUME NEW u \in Update, ReadCrontab(u)
      PROVE  Audited'
  <2>1. call[u].kind = "read" /\ UNCHANGED <<at, answer, recorded, written>>
    BY <1>3 DEF ReadCrontab, Served
  <2>2. \A v \in Update \ {u} : call'[v] = call[v]
    BY <1>1, <1>3 DEF ReadCrontab, Served
  <2>3. \A v \in Update \ {u} : Untouched(v)
    BY <2>1, <2>2 DEF Untouched
  <2>4. call'[u].kind = "read"
    BY <1>1, <1>3, <2>1 DEF ReadCrontab, Served
  <2>5. Progress(u)'
    BY <2>1, <2>4 DEF Audited, Progress
  <2>. QED
    BY <2>3, <2>5, UntouchedStays DEF Audited
<1>4. ASSUME NEW u \in Update, RefuseCrontab(u) \/ Break(u)
      PROVE  Audited'
  <2>1. UNCHANGED <<at, answer, recorded, written>> /\ Became(u, "error")
    BY <1>4 DEF RefuseCrontab, Break
  <2>2. \A v \in Update : Untouched(v)
    BY <1>1, <2>1 DEF Untouched
  <2>. QED
    BY <2>2, UntouchedStays DEF Audited
<1>5. CASE Take
  <2>1. UNCHANGED <<at, answer, recorded, written>> /\ Became(Head(queue), "taken")
    BY <1>5 DEF Take
  <2>2. \A v \in Update : Untouched(v)
    BY <1>1, <2>1 DEF Untouched
  <2>. QED
    BY <2>2, UntouchedStays DEF Audited
<1>6. CASE RunnerDies
  <2>1. UNCHANGED <<at, answer, recorded, written>>
    BY <1>6 DEF RunnerDies
  <2>2. \A v \in Update : call'[v].kind = call[v].kind /\ (call'[v].is = "ok" => call[v].is = "ok")
    BY <1>1, <1>6 DEF RunnerDies
  <2>3. \A v \in Update : Untouched(v)
    BY <2>1, <2>2 DEF Untouched
  <2>. QED
    BY <2>3, UntouchedStays DEF Audited
<1>7. CASE HandEdit
  BY <1>7 DEF HandEdit, Audited, Progress
<1>. QED
  BY <1>2, <1>3, <1>4, <1>5, <1>6, <1>7 DEF Serve

LEMMA AuditedAlways == Spec => []Audited
<1>1. Init => Audited
  BY DEF Init, Audited, Progress, NoCall
<1>2. TypeOK /\ Audited /\ [Next]_vars => Audited'
  <2> SUFFICES ASSUME TypeOK, Audited, [Next]_vars PROVE Audited'
    OBVIOUS
  <2>1. CASE Next
    BY <2>1, AuditRequest, AuditRunner DEF Next
  <2>2. CASE UNCHANGED vars
    BY <2>2 DEF Audited, Progress, vars, done, local
  <2>. QED
    BY <2>1, <2>2
<1>. QED
  BY <1>1, <1>2, TypeCorrect, PTL DEF Spec

(* For any number of updates and slots, whatever fails: no change is on    *)
(* record that was not made, and a change that was made is on record once  *)
(* its update is answered, unless the answer is an error.                  *)
THEOREM AuditCorrect == Spec => []AuditAgrees
<1>1. TypeOK /\ Audited => AuditAgrees
  BY AuditedIsEnough
<1>. QED
  BY <1>1, AuditedAlways, TypeCorrect, PTL

-----------------------------------------------------------------------------
\* The managed block, and what is around it

(* The end of a sequence, and its beginning.                               *)
LEMMA Cut ==
  ASSUME NEW T, NEW s \in Seq(T), NEW m \in 1 .. Len(s), NEW n \in 0 .. Len(s)
  PROVE  /\ SubSeq(s, m, Len(s)) \in Seq(T) /\ Len(SubSeq(s, m, Len(s))) = Len(s) - m + 1
         /\ \A k \in 1 .. Len(s) - m + 1 : SubSeq(s, m, Len(s))[k] = s[m + k - 1]
         /\ SubSeq(s, 1, n) \in Seq(T) /\ Len(SubSeq(s, 1, n)) = n
         /\ \A k \in 1 .. n : SubSeq(s, 1, n)[k] = s[k]
  OBVIOUS

(* The opening delimiter of a block, and its closing one, which may be     *)
(* missing and is then behind the last line.                               *)
Block(lines, b, e) ==
  /\ b \in 1 .. Len(lines) /\ e \in b + 1 .. Len(lines) + 1
  /\ \A i \in 1 .. Len(lines) : (lines[i] = Begin <=> i = b) /\ (lines[i] = End <=> i = e)

LEMMA InsideBlock ==
  ASSUME NEW lines \in Seq(Line), NEW b, NEW e, Block(lines, b, e), NEW i \in 1 .. Len(lines)
  PROVE  InBlock(lines, i) <=> b < i /\ i < e
<1>1. b \in 1 .. Len(lines) /\ e \in b + 1 .. Len(lines) + 1 /\ Len(lines) \in Nat
  BY DEF Block
<1>2. ASSUME b < i, i < e PROVE InBlock(lines, i)
  <2>1. b \in 1 .. i - 1 /\ lines[b] = Begin
    BY <1>1, <1>2 DEF Block
  <2>2. \A j \in b .. i : lines[j] # End
    BY <1>1, <1>2 DEF Block
  <2>. QED
    BY <2>1, <2>2 DEF InBlock
<1>3. ASSUME InBlock(lines, i) PROVE b < i /\ i < e
  <2>1. PICK c \in 1 .. i - 1 : lines[c] = Begin /\ \A j \in c .. i : lines[j] # End
    BY <1>3 DEF InBlock
  <2>2. c = b
    BY <2>1 DEF Block
  <2>3. ~(e <= i)
    <3>. SUFFICES ASSUME e <= i PROVE FALSE
      OBVIOUS
    <3>1. e \in c .. i /\ e \in 1 .. Len(lines)
      BY <1>1, <2>2
    <3>. QED
      BY <2>1, <3>1 DEF Block
  <2>. QED
    BY <1>1, <2>1, <2>2, <2>3
<1>. QED
  BY <1>2, <1>3

LEMMA CountRange ==
  ASSUME NEW b \in Nat, NEW k \in Nat, NEW n \in Nat, b + k <= n
  PROVE  /\ Counted(b + 1 .. n, b + k) = b + 1 .. b + k
         /\ UpTo(b + 1 .. n, b + k) = k
<1>1. Counted(b + 1 .. n, b + k) = b + 1 .. b + k
  BY DEF Counted
<1>2. Cardinality(b + 1 .. b + k) = k
  <2>1. b + 1 \in Int /\ b + k \in Int
    OBVIOUS
  <2>. QED
    BY <2>1, FS_Interval
<1>. QED
  BY <1>1, <1>2 DEF UpTo, Counted

(* The places before the block with its opening delimiter, and those from  *)
(* the closing one on: the latter follow the former.                       *)
Around(n, b, e) == (1 .. b) \cup (e .. n)

Measures(n, b, e, c) ==
  /\ n \in Nat /\ b \in Nat /\ e \in Nat /\ c \in Nat
  /\ 1 <= b /\ b < e /\ e <= n + 1 /\ c = b + (n + 1 - e)

Numbered(P, n, b, e, c) ==
  /\ P \in SUBSET (1 .. n) /\ Cardinality(P) = c
  /\ \A k \in 1 .. b : UpTo(P, k) = k
  /\ \A k \in b + 1 .. c : UpTo(P, k + e - b - 1) = k

LEMMA CountAroundNat ==
  ASSUME NEW n \in Nat, NEW b \in Nat, NEW e \in Nat, NEW r \in Nat, NEW c \in Nat,
         1 <= b, b < e, e + r = n + 1, b + r = c
  PROVE  Numbered(Around(n, b, e), n, b, e, c)
<1>0. PICK P : P = (1 .. b) \cup (e .. n) /\ P = Around(n, b, e)
  BY DEF Around
<1>1. \A k \in 1 .. b : UpTo(P, k) = k
  <2>. TAKE k \in 1 .. b
  <2>1. Counted(P, k) = 1 .. k
    BY <1>0 DEF Counted
  <2>2. Cardinality(1 .. k) = k
    <3>1. 1 \in Int /\ k \in Int
      OBVIOUS
    <3>. QED
      BY <3>1, FS_Interval
  <2>. QED
    BY <2>1, <2>2 DEF UpTo, Counted
<1>2. \A k \in 0 .. r : UpTo(P, e - 1 + k) = b + k
  <2>. TAKE k \in 0 .. r
  <2>1. Counted(P, e - 1 + k) = (1 .. b) \cup (e .. e - 1 + k)
    BY <1>0 DEF Counted
  <2>2. (1 .. b) \cap (e .. e - 1 + k) = {}
    OBVIOUS
  <2>3. /\ IsFiniteSet(1 .. b) /\ Cardinality(1 .. b) = b
        /\ IsFiniteSet(e .. e - 1 + k) /\ Cardinality(e .. e - 1 + k) = k
    <3>1. 1 \in Int /\ b \in Int /\ e \in Int /\ e - 1 + k \in Int
      OBVIOUS
    <3>2. IsFiniteSet(1 .. b) /\ Cardinality(1 .. b) = IF 1 > b THEN 0 ELSE b - 1 + 1
      BY <3>1, FS_Interval
    <3>3. IsFiniteSet(e .. e - 1 + k)
          /\ Cardinality(e .. e - 1 + k) = IF e > e - 1 + k THEN 0 ELSE e - 1 + k - e + 1
      BY <3>1, FS_Interval
    <3>. QED
      BY <3>2, <3>3
  <2>4. Cardinality((1 .. b) \cup (e .. e - 1 + k)) = b + k - Cardinality((1 .. b) \cap (e .. e - 1 + k))
    BY <2>3, FS_Union
  <2>5. Cardinality((1 .. b) \cap (e .. e - 1 + k)) = 0
    BY <2>2, FS_EmptySet
  <2>6. Cardinality((1 .. b) \cup (e .. e - 1 + k)) = b + k
    BY <2>4, <2>5
  <2>. QED
    BY <2>1, <2>6 DEF UpTo, Counted
<1>3. P \in SUBSET (1 .. n)
  BY <1>0
<1>4. UpTo(P, n) = Cardinality(P)
  <2>1. n \in Nat /\ n >= n
    OBVIOUS
  <2>. QED
    BY ONLY <1>3, <2>1, CountOne
<1>5. r \in 0 .. r /\ e - 1 + r = n
  OBVIOUS
<1>6. UpTo(P, n) = b + r
  BY <1>2, <1>5
<1>. QED
  <2>1. Cardinality(P) = c
    BY <1>4, <1>6
  <2>2. \A k \in b + 1 .. c : UpTo(P, k + e - b - 1) = k
    <3>. TAKE k \in b + 1 .. c
    <3>1. k - b \in 0 .. r /\ b + (k - b) = k /\ k + e - b - 1 = e - 1 + (k - b)
      OBVIOUS
    <3>2. UpTo(P, e - 1 + (k - b)) = b + (k - b)
      BY <1>2, <3>1
    <3>. QED
      BY <3>1, <3>2
  <2>. QED
    BY <1>0, <1>1, <1>3, <2>1, <2>2 DEF Numbered

LEMMA CountAround ==
  ASSUME NEW n, NEW b, NEW e, NEW c, Measures(n, b, e, c)
  PROVE  Numbered(Around(n, b, e), n, b, e, c)
<1>1. n \in Nat /\ b \in Nat /\ e \in Nat /\ c \in Nat
  BY DEF Measures
<1>2. PICK r \in Nat : e + r = n + 1 /\ b + r = c
  <2>1. n + 1 - e \in Nat /\ e + (n + 1 - e) = n + 1 /\ b + (n + 1 - e) = c
    BY DEF Measures
  <2>. QED
    BY <2>1
<1>3. 1 <= b /\ b < e
  BY DEF Measures
<1>. QED
  BY ONLY <1>1, <1>2, <1>3, CountAroundNat

LEMMA ForeignOf ==
  ASSUME NEW lines \in Seq(Line), NEW b, NEW e, NEW c, Block(lines, b, e),
         Measures(Len(lines), b, e, c)
  PROVE  Foreign(lines) = [k \in 1 .. c |-> lines[IF k <= b THEN k ELSE k + e - b - 1]]
<1>1. PICK n, P : n = Len(lines) /\ P = Around(n, b, e)
  OBVIOUS
<1>0. /\ n \in Nat /\ b \in Nat /\ e \in Nat /\ c \in Nat
      /\ 1 <= b /\ b <= n /\ b < e /\ e <= n + 1 /\ c = b + (n + 1 - e)
  BY <1>1 DEF Measures, Block
<1>2. P = (1 .. b) \cup (e .. n)
  BY <1>1 DEF Around
<1>3. Outside(lines) = P
  <2>1. Outside(lines) = {i \in 1 .. n : ~(b < i /\ i < e)}
    BY <1>1, InsideBlock DEF Outside
  <2>. QED
    BY <1>0, <1>1, <1>2, <2>1
<1>4. /\ P \in SUBSET (1 .. n) /\ Cardinality(P) = c
      /\ \A k \in 1 .. b : UpTo(P, k) = k
      /\ \A k \in b + 1 .. c : UpTo(P, k + e - b - 1) = k
  <2>1. Numbered(P, n, b, e, c)
    BY <1>1, CountAround
  <2>. QED
    BY <2>1 DEF Numbered
<1>5. ASSUME NEW k \in 1 .. c
      PROVE  (CHOOSE i \in P : UpTo(P, i) = k) = IF k <= b THEN k ELSE k + e - b - 1
  <2>1. PICK p : p = IF k <= b THEN k ELSE k + e - b - 1
    OBVIOUS
  <2>2. p \in P /\ UpTo(P, p) = k
    <3>1. CASE k <= b
      <4>1. k \in 1 .. b /\ p = k
        BY <1>0, <2>1, <3>1
      <4>. QED
        BY <1>2, <1>4, <4>1
    <3>2. CASE ~(k <= b)
      <4>1. k \in b + 1 .. c /\ p = k + e - b - 1 /\ p \in e .. n
        BY <1>0, <2>1, <3>2
      <4>. QED
        BY <1>2, <1>4, <4>1
    <3>. QED
      BY <3>1, <3>2
  <2>3. (CHOOSE i \in P : UpTo(P, i) = UpTo(P, p)) = p
    BY ONLY <1>0, <1>4, <2>2, OnePlace
  <2>. QED
    BY <2>1, <2>2, <2>3
<1>6. Foreign(lines) = [k \in 1 .. c |-> lines[CHOOSE i \in P : UpTo(P, i) = k]]
  BY <1>3, <1>4 DEF Foreign, InOrder
<1>. QED
  BY <1>5, <1>6, Zenon

(* A block that holds nothing but entries lists them all, in their order.  *)
LEMMA ManagedOf ==
  ASSUME NEW lines \in Seq(Line), NEW entries \in Seq(Entry), NEW b,
         Block(lines, b, b + 1 + Len(entries)),
         \A k \in 1 .. Len(entries) : lines[b + k] = Job(entries[k]),
         \A k \in 1 .. Len(entries) : entries[k].expression \in Plain
  PROVE  ManagedJobs(lines) = entries
<1>0. PICK m \in Nat : m = Len(entries)
  OBVIOUS
<1>1. Len(lines) \in Nat /\ b \in 1 .. Len(lines) /\ b + m <= Len(lines)
  BY <1>0 DEF Block
<1>2. PICK P : P = b + 1 .. b + m
  OBVIOUS
<1>3. ManagedAt(lines) = P
  <2>1. ASSUME NEW i \in ManagedAt(lines) PROVE i \in P
    <3>1. i \in 1 .. Len(lines) /\ InBlock(lines, i)
      BY <2>1, JobLine DEF ManagedAt
    <3>2. b < i /\ i < b + 1 + m
      BY <1>0, <3>1, InsideBlock
    <3>. QED
      BY <1>1, <1>2, <3>1, <3>2
  <2>2. ASSUME NEW i \in P PROVE i \in ManagedAt(lines)
    <3>1. i \in 1 .. Len(lines) /\ b < i /\ i < b + 1 + m /\ i - b \in 1 .. m /\ b + (i - b) = i
      BY <1>1, <1>2
    <3>2. InBlock(lines, i)
      BY <1>0, <3>1, InsideBlock
    <3>3. lines[i] = Job(entries[i - b]) /\ entries[i - b].expression \in Plain
      BY <1>0, <3>1
    <3>. QED
      BY <3>1, <3>2, <3>3 DEF ManagedAt, JobsAt, IsJob, Job
  <2>. QED
    BY <2>1, <2>2
<1>4. \A k \in 0 .. m : UpTo(P, b + k) = k
  <2>. TAKE k \in 0 .. m
  <2>1. b \in Nat /\ k \in Nat /\ b + m \in Nat /\ b + k <= b + m
    BY <1>1
  <2>. QED
    BY <1>2, <2>1, CountRange
<1>5. P \in SUBSET (1 .. Len(lines)) /\ Cardinality(P) = m
  <2>1. P \in SUBSET (1 .. Len(lines))
    BY <1>1, <1>2
  <2>2. P \in SUBSET (1 .. b + m) /\ b + m \in Nat /\ b + m >= b + m
    BY <1>1, <1>2
  <2>3. UpTo(P, b + m) = Cardinality(P)
    BY ONLY <2>2, CountOne
  <2>. QED
    BY <1>4, <2>1, <2>3
<1>6. ASSUME NEW k \in 1 .. m PROVE (CHOOSE i \in P : UpTo(P, i) = k) = b + k
  <2>1. b + k \in P /\ UpTo(P, b + k) = k
    BY <1>1, <1>2, <1>4
  <2>2. (CHOOSE i \in P : UpTo(P, i) = UpTo(P, b + k)) = b + k
    BY ONLY <1>1, <1>5, <2>1, OnePlace
  <2>. QED
    BY <2>1, <2>2
<1>7. InOrder(lines, P) = [k \in 1 .. m |-> lines[b + k]]
  <2>1. InOrder(lines, P) = [k \in 1 .. m |-> lines[CHOOSE i \in P : UpTo(P, i) = k]]
    BY <1>5 DEF InOrder
  <2>. QED
    BY <1>6, <2>1, Zenon
<1>8. ManagedJobs(lines) = [k \in 1 .. m |-> lines[b + k].entry]
  BY <1>3, <1>7 DEF ManagedJobs, Entries
<1>9. \A k \in 1 .. m : lines[b + k].entry = entries[k]
  <2>. TAKE k \in 1 .. m
  <2>1. lines[b + k] = Job(entries[k])
    BY <1>0
  <2>. QED
    BY <2>1 DEF Job
<1>10. entries = [k \in 1 .. m |-> entries[k]]
  BY <1>0
<1>. QED
  BY <1>8, <1>9, <1>10

LEMMA BlockIn ==
  ASSUME NEW lines \in Seq(Line), OneBlock(lines), FirstAt(lines, Begin) # 0
  PROVE  Block(lines, FirstAt(lines, Begin),
               IF FirstAt(lines, End) = 0 THEN Len(lines) + 1 ELSE FirstAt(lines, End))
<1>1. PICK n, b, f : n = Len(lines) /\ b = FirstAt(lines, Begin) /\ f = FirstAt(lines, End)
  OBVIOUS
<1>2. /\ n \in Nat /\ b \in 1 .. n /\ f \in 0 .. n
      /\ lines[b] = Begin /\ (f # 0 => lines[f] = End)
      /\ \A i \in 1 .. n : lines[i] = End => f # 0 /\ f <= i
  BY <1>1, FirstAtType
<1>3. \A i, j \in 1 .. n : i < j => /\ lines[i] = Begin => lines[j] # Begin
                                    /\ lines[i] = End => lines[j] # Begin /\ lines[j] # End
  BY <1>1 DEF OneBlock
<1>4. \A i \in 1 .. n : lines[i] = Begin <=> i = b
  BY <1>2, <1>3
<1>5. CASE f = 0
  <2>1. \A i \in 1 .. n : lines[i] = End <=> i = n + 1
    BY <1>2, <1>5
  <2>. QED
    BY <1>1, <1>2, <1>4, <1>5, <2>1 DEF Block
<1>6. CASE f # 0
  <2>1. \A i \in 1 .. n : lines[i] = End <=> i = f
    BY <1>2, <1>3, <1>6
  <2>2. b < f
    BY <1>2, <1>3, <1>6 DEF Begin, End
  <2>. QED
    BY <1>1, <1>2, <1>4, <1>6, <2>1, <2>2 DEF Block
<1>. QED
  BY <1>5, <1>6

LEMMA ClosingIs ==
  ASSUME NEW lines \in Seq(Line), NEW b, NEW e, Block(lines, b, e)
  PROVE  /\ Closing(lines, b) \in Seq(Line) /\ Len(Closing(lines, b)) >= 1
         /\ Closing(lines, b)[1] = End
         /\ \A k \in 2 .. Len(Closing(lines, b)) : Closing(lines, b)[k] \notin {Begin, End}
         /\ IF e <= Len(lines) THEN Closing(lines, b) = SubSeq(lines, e, Len(lines))
            ELSE Closing(lines, b) = <<End, Blank>> /\ FirstAt(lines, End) = 0
<1>1. PICK n, f : n = Len(lines) /\ f = FirstAt(lines, End)
  OBVIOUS
<1>2. /\ n \in Nat /\ b \in 1 .. n /\ e \in b + 1 .. n + 1
      /\ \A i \in 1 .. n : (lines[i] = Begin <=> i = b) /\ (lines[i] = End <=> i = e)
  BY <1>1 DEF Block
<1>3. /\ f \in 0 .. n /\ (f # 0 => lines[f] = End)
      /\ \A i \in 1 .. n : lines[i] = End => f # 0 /\ f <= i
  BY <1>1, FirstAtType
<1>4. CASE e <= n
  <2>1. f = e /\ Closing(lines, b) = SubSeq(lines, e, n)
    BY <1>1, <1>2, <1>3, <1>4 DEF Closing
  <2>2. /\ SubSeq(lines, e, n) \in Seq(Line) /\ Len(SubSeq(lines, e, n)) = n - e + 1
        /\ \A k \in 1 .. n - e + 1 : SubSeq(lines, e, n)[k] = lines[e + k - 1]
    <3>1. e \in 1 .. Len(lines) /\ 0 \in 0 .. Len(lines)
      BY <1>1, <1>2, <1>4
    <3>. QED
      BY <1>1, <3>1, Cut
  <2>3. \A k \in 2 .. n - e + 1 : lines[e + k - 1] \notin {Begin, End}
    BY <1>2, <1>4
  <2>4. e + 1 - 1 = e /\ lines[e] = End /\ n - e + 1 >= 1
    BY <1>2, <1>4
  <2>. QED
    BY <1>1, <1>2, <1>4, <2>1, <2>2, <2>3, <2>4
<1>5. CASE ~(e <= n)
  <2>1. f = 0 /\ Closing(lines, b) = <<End, Blank>>
    BY <1>1, <1>2, <1>3, <1>5 DEF Closing
  <2>2. End \in Line /\ Blank \in Line /\ Blank \notin {Begin, End}
    BY DEF Line, Begin, End, Blank
  <2>. QED
    BY <1>1, <1>5, <2>1, <2>2
<1>. QED
  BY <1>4, <1>5

Glued(new, head, body, tail, b, m, q) ==
  /\ new \in Seq(Line) /\ Len(new) = b + m + q
  /\ \A i \in 1 .. b + m + q :
       new[i] = IF i <= b THEN head[i] ELSE IF i <= b + m THEN body[i - b] ELSE tail[i - (b + m)]

LEMMA ThreeParts ==
  ASSUME NEW head \in Seq(Line), NEW body \in Seq(Line), NEW tail \in Seq(Line)
  PROVE  Glued((head \o body) \o tail, head, body, tail, Len(head), Len(body), Len(tail))
<1>1. /\ (head \o body) \o tail \in Seq(Line)
      /\ Len((head \o body) \o tail) = Len(head) + Len(body) + Len(tail)
  OBVIOUS
<1>2. \A i \in 1 .. Len(head) + Len(body) + Len(tail) : ((head \o body) \o tail)[i] =
        IF i <= Len(head) THEN head[i]
        ELSE IF i <= Len(head) + Len(body) THEN body[i - Len(head)]
        ELSE tail[i - (Len(head) + Len(body))]
  OBVIOUS
<1>. QED
  BY <1>1, <1>2 DEF Glued

LEMMA GluedIsBlock ==
  ASSUME NEW head, NEW body, NEW tail, NEW new, NEW b \in Nat, NEW m \in Nat, NEW q \in Nat,
         Glued(new, head, body, tail, b, m, q), 1 <= b, 1 <= q,
         \A k \in 1 .. b : (head[k] = Begin <=> k = b) /\ head[k] # End,
         \A k \in 1 .. m : body[k] \notin {Begin, End},
         tail[1] = End, \A k \in 2 .. q : tail[k] \notin {Begin, End}
  PROVE  Block(new, b, b + 1 + m)
<1>1. /\ Len(new) = b + m + q
      /\ \A i \in 1 .. b + m + q :
           new[i] = IF i <= b THEN head[i] ELSE IF i <= b + m THEN body[i - b] ELSE tail[i - (b + m)]
  BY DEF Glued
<1>2. ASSUME NEW i \in 1 .. b + m + q
      PROVE  (new[i] = Begin <=> i = b) /\ (new[i] = End <=> i = b + 1 + m)
  <2>1. CASE i <= b
    <3>1. i \in 1 .. b /\ new[i] = head[i] /\ i # b + 1 + m
      BY <1>1, <2>1
    <3>. QED
      BY <3>1
  <2>2. CASE b < i /\ i <= b + m
    <3>1. i - b \in 1 .. m /\ new[i] = body[i - b] /\ i # b /\ i # b + 1 + m
      BY <1>1, <2>2
    <3>. QED
      BY <3>1
  <2>3. CASE i = b + 1 + m
    <3>1. i - (b + m) = 1 /\ new[i] = tail[i - (b + m)] /\ i # b
      BY <1>1, <2>3
    <3>. QED
      BY <2>3, <3>1 DEF Begin, End
  <2>4. CASE b + 1 + m < i
    <3>1. i - (b + m) \in 2 .. q /\ new[i] = tail[i - (b + m)] /\ i # b /\ i # b + 1 + m
      BY <1>1, <2>4
    <3>. QED
      BY <3>1
  <2>. QED
    BY <2>1, <2>2, <2>3, <2>4
<1>3. b \in 1 .. Len(new) /\ b + 1 + m \in b + 1 .. Len(new) + 1
  BY <1>1
<1>. QED
  BY <1>1, <1>2, <1>3 DEF Block

(* What is written is the same up to the opening delimiter, then the       *)
(* entries, then what closes the block.                                    *)
LEMMA WrittenIs ==
  ASSUME NEW lines \in Seq(Line), NEW entries \in Seq(Entry), NEW b, NEW e, Block(lines, b, e)
  PROVE  \E new, head, body, tail :
           /\ new = WriteManagedBlock(lines, entries)
           /\ head = SubSeq(lines, 1, b) /\ body = Body(entries) /\ tail = Closing(lines, b)
           /\ Glued(new, head, body, tail, b, Len(entries), Len(tail))
           /\ Block(new, b, b + 1 + Len(entries))
<1>1. PICK n, m, q, head, body, tail :
        /\ n = Len(lines) /\ m = Len(entries) /\ q = Len(tail)
        /\ head = SubSeq(lines, 1, b) /\ body = Body(entries) /\ tail = Closing(lines, b)
  OBVIOUS
<1>2. n \in Nat /\ m \in Nat /\ b \in 1 .. n
  BY <1>1 DEF Block
<1>3. /\ tail \in Seq(Line) /\ q \in Nat /\ q >= 1 /\ tail[1] = End
      /\ \A k \in 2 .. q : tail[k] \notin {Begin, End}
  BY <1>1, ClosingIs
<1>4. /\ head \in Seq(Line) /\ Len(head) = b /\ \A k \in 1 .. b : head[k] = lines[k]
  <2>1. b \in 1 .. Len(lines) /\ b \in 0 .. Len(lines)
    BY <1>1, <1>2
  <2>. QED
    BY <1>1, <2>1, Cut
<1>5. /\ body \in Seq(Line) /\ Len(body) = m /\ \A k \in 1 .. m : body[k] \notin {Begin, End}
  <2>1. body \in Seq(Line) /\ Len(body) = m
    BY <1>1, BodyType
  <2>2. \A k \in 1 .. m : body[k] = Job(entries[k])
    BY <1>1 DEF Body
  <2>. QED
    BY <2>1, <2>2 DEF Job, Begin, End
<1>6. WriteManagedBlock(lines, entries) = (head \o body) \o tail
  <2>1. FirstAt(lines, Begin) = b
    <3>1. /\ \A i \in 1 .. Len(lines) : lines[i] = Begin <=> i = b
          /\ b \in 1 .. Len(lines)
      BY DEF Block
    <3>. QED
      BY <3>1, FirstAtType
  <2>2. b # 0
    BY <1>2
  <2>. QED
    BY <1>1, <2>1, <2>2 DEF WriteManagedBlock
<1>7. Glued((head \o body) \o tail, head, body, tail, b, m, q)
  <2>1. Glued((head \o body) \o tail, head, body, tail, Len(head), Len(body), Len(tail))
    BY <1>3, <1>4, <1>5, ThreeParts
  <2>2. Len(head) = b /\ Len(body) = m /\ Len(tail) = q
    BY <1>1, <1>4, <1>5
  <2>. QED
    BY <2>1, <2>2
<1>8. \A k \in 1 .. b : (head[k] = Begin <=> k = b) /\ head[k] # End
  <2>1. /\ \A k \in 1 .. n : (lines[k] = Begin <=> k = b) /\ (lines[k] = End <=> k = e)
        /\ e \in b + 1 .. n + 1
    BY <1>1 DEF Block
  <2>. QED
    BY <1>2, <1>4, <2>1
<1>9. Block((head \o body) \o tail, b, b + 1 + m)
  <2>1. b \in Nat /\ 1 <= b
    BY <1>2
  <2>. QED
    BY ONLY <1>2, <1>3, <1>5, <1>7, <1>8, <2>1, GluedIsBlock
<1>. QED
  BY <1>1, <1>6, <1>7, <1>9

LEMMA ForeignKept ==
  ASSUME NEW lines \in Seq(Line), NEW entries \in Seq(Entry),
         OneBlock(lines), FirstAt(lines, Begin) # 0
  PROVE  \/ Foreign(WriteManagedBlock(lines, entries)) = Foreign(lines)
         \/ /\ Foreign(WriteManagedBlock(lines, entries)) = Foreign(lines) \o <<End, Blank>>
            /\ FirstAt(lines, End) = 0
<1>1. PICK b, e : Block(lines, b, e)
  BY BlockIn
<1>2. PICK new, head, body, tail :
        /\ new = WriteManagedBlock(lines, entries)
        /\ head = SubSeq(lines, 1, b) /\ body = Body(entries) /\ tail = Closing(lines, b)
        /\ Glued(new, head, body, tail, b, Len(entries), Len(tail))
        /\ Block(new, b, b + 1 + Len(entries))
  BY <1>1, WrittenIs
<1>3. PICK n, m, q : n = Len(lines) /\ m = Len(entries) /\ q = Len(tail)
  OBVIOUS
<1>4. /\ n \in Nat /\ m \in Nat /\ b \in Nat /\ e \in Nat
      /\ 1 <= b /\ b <= n /\ b < e /\ e <= n + 1
  BY <1>1, <1>3 DEF Block
<1>5. /\ tail \in Seq(Line) /\ q \in Nat
      /\ IF e <= n THEN tail = SubSeq(lines, e, n) ELSE tail = <<End, Blank>> /\ FirstAt(lines, End) = 0
  <2>1. /\ Closing(lines, b) \in Seq(Line)
        /\ IF e <= Len(lines) THEN Closing(lines, b) = SubSeq(lines, e, Len(lines))
           ELSE Closing(lines, b) = <<End, Blank>> /\ FirstAt(lines, End) = 0
    BY <1>1, ClosingIs
  <2>2. tail \in Seq(Line) /\ q = Len(tail)
    BY <1>2, <1>3, <2>1
  <2>3. IF e <= n THEN tail = SubSeq(lines, e, n) ELSE tail = <<End, Blank>> /\ FirstAt(lines, End) = 0
    BY <1>2, <1>3, <2>1
  <2>. QED
    BY <2>2, <2>3
<1>6. /\ new \in Seq(Line) /\ Len(new) = b + m + q
      /\ \A i \in 1 .. b + m + q :
           new[i] = IF i <= b THEN head[i] ELSE IF i <= b + m THEN body[i - b] ELSE tail[i - (b + m)]
  BY <1>2, <1>3 DEF Glued
<1>7. \A k \in 1 .. b : head[k] = lines[k]
  <2>1. b \in 1 .. Len(lines) /\ b \in 0 .. Len(lines)
    BY <1>3, <1>4
  <2>. QED
    BY <1>2, <2>1, Cut
<1>8. PICK c, d : c = b + (n + 1 - e) /\ d = b + 1 + m
  OBVIOUS
<1>9. Foreign(lines) = [k \in 1 .. c |-> lines[IF k <= b THEN k ELSE k + e - b - 1]]
  <2>1. Measures(n, b, e, c)
    BY <1>4, <1>8 DEF Measures
  <2>. QED
    BY <1>1, <1>3, <2>1, ForeignOf
<1>10. PICK r : r = b + q
  OBVIOUS
<1>11. Foreign(new) = [k \in 1 .. r |-> new[IF k <= b THEN k ELSE k + d - b - 1]]
  <2>1. Measures(Len(new), b, d, r)
    BY <1>4, <1>5, <1>6, <1>8, <1>10 DEF Measures
  <2>2. Block(new, b, d)
    BY <1>2, <1>3, <1>8
  <2>. QED
    BY <1>6, <2>1, <2>2, ForeignOf
<1>12. Foreign(new) = [k \in 1 .. r |-> IF k <= b THEN lines[k] ELSE tail[k - b]]
  <2>1. ASSUME NEW k \in 1 .. r
        PROVE  new[IF k <= b THEN k ELSE k + d - b - 1] = IF k <= b THEN lines[k] ELSE tail[k - b]
    <3>1. CASE k <= b
      <4>1. k \in 1 .. b + m + q /\ k \in 1 .. b
        BY <1>4, <1>5, <1>10, <3>1
      <4>. QED
        BY <1>6, <1>7, <3>1, <4>1
    <3>2. CASE ~(k <= b)
      <4>1. /\ k + d - b - 1 = k + m /\ k + m \in 1 .. b + m + q
            /\ ~(k + m <= b) /\ ~(k + m <= b + m) /\ (k + m) - (b + m) = k - b
        BY <1>4, <1>5, <1>8, <1>10, <3>2
      <4>. QED
        BY <1>6, <3>2, <4>1
    <3>. QED
      BY <3>1, <3>2
  <2>. QED
    BY <1>11, <2>1
<1>13. CASE e <= n
  <2>1. /\ q = n - e + 1 /\ \A k \in 1 .. n - e + 1 : tail[k] = lines[e + k - 1]
    <3>1. e \in 1 .. Len(lines) /\ 0 \in 0 .. Len(lines)
      BY <1>3, <1>4, <1>13
    <3>2. tail = SubSeq(lines, e, Len(lines))
      BY <1>3, <1>5, <1>13
    <3>. QED
      BY <1>3, <3>1, <3>2, Cut
  <2>2. r = c
    BY <1>4, <1>8, <1>10, <2>1
  <2>3. ASSUME NEW k \in 1 .. r
        PROVE  (IF k <= b THEN lines[k] ELSE tail[k - b]) = lines[IF k <= b THEN k ELSE k + e - b - 1]
    <3>1. CASE k <= b
      BY <3>1
    <3>2. CASE ~(k <= b)
      <4>1. k - b \in 1 .. n - e + 1 /\ e + (k - b) - 1 = k + e - b - 1
        BY <1>4, <1>10, <2>1, <3>2
      <4>. QED
        BY <2>1, <3>2, <4>1
    <3>. QED
      BY <3>1, <3>2
  <2>4. Foreign(new) = Foreign(lines)
    BY <1>9, <1>12, <2>2, <2>3
  <2>. QED
    BY <1>2, <2>4
<1>14. CASE ~(e <= n)
  <2>1. tail = <<End, Blank>> /\ q = 2 /\ r = b + 2 /\ c = b
    <3>1. tail = <<End, Blank>> /\ e = n + 1
      BY <1>4, <1>5, <1>14
    <3>2. q = 2
      BY <1>3, <3>1
    <3>. QED
      BY <1>4, <1>8, <1>10, <3>1, <3>2
  <2>2. Foreign(lines) = [k \in 1 .. b |-> lines[k]]
    <3>1. \A k \in 1 .. b : (IF k <= b THEN k ELSE k + e - b - 1) = k
      BY <1>4
    <3>. QED
      BY <1>9, <2>1, <3>1
  <2>3. \A k \in 1 .. b : lines[k] \in Line
    BY <1>3, <1>4
  <2>4. Foreign(lines) \in Seq(Line) /\ Len(Foreign(lines)) = b
    BY <1>4, <2>2, <2>3
  <2>5. End \in Line /\ Blank \in Line
    BY DEF Line
  <2>6. Foreign(lines) \o <<End, Blank>> =
          [k \in 1 .. b + 2 |-> IF k <= b THEN Foreign(lines)[k] ELSE <<End, Blank>>[k - b]]
    BY <1>4, <2>4, <2>5
  <2>7. Foreign(new) = Foreign(lines) \o <<End, Blank>>
    BY <1>4, <1>12, <2>1, <2>2, <2>6
  <2>. QED
    BY <1>2, <1>5, <1>14, <2>7
<1>. QED
  BY <1>13, <1>14

LEMMA ManagedKept ==
  ASSUME NEW lines \in Seq(Line), NEW entries \in Seq(Entry),
         OneBlock(lines), FirstAt(lines, Begin) # 0,
         \A k \in 1 .. Len(entries) : entries[k].expression \in Plain
  PROVE  ManagedJobs(WriteManagedBlock(lines, entries)) = entries
<1>1. PICK b, e : Block(lines, b, e)
  BY BlockIn
<1>2. PICK new, head, body, tail :
        /\ new = WriteManagedBlock(lines, entries)
        /\ head = SubSeq(lines, 1, b) /\ body = Body(entries) /\ tail = Closing(lines, b)
        /\ Glued(new, head, body, tail, b, Len(entries), Len(tail))
        /\ Block(new, b, b + 1 + Len(entries))
  BY <1>1, WrittenIs
<1>3. PICK m, q : m = Len(entries) /\ q = Len(tail)
  OBVIOUS
<1>4. m \in Nat /\ b \in Nat /\ 1 <= b /\ q \in Nat
  BY <1>1, <1>2, <1>3, ClosingIs DEF Block
<1>5. /\ new \in Seq(Line)
      /\ \A i \in 1 .. b + m + q :
           new[i] = IF i <= b THEN head[i] ELSE IF i <= b + m THEN body[i - b] ELSE tail[i - (b + m)]
  BY <1>2, <1>3 DEF Glued
<1>6. \A k \in 1 .. m : new[b + k] = Job(entries[k])
  <2>. TAKE k \in 1 .. m
  <2>1. b + k \in 1 .. b + m + q /\ ~(b + k <= b) /\ b + k <= b + m /\ (b + k) - b = k
    BY <1>4
  <2>2. new[b + k] = body[k]
    BY <1>5, <2>1
  <2>3. body[k] = Job(entries[k])
    BY <1>2, <1>3 DEF Body
  <2>. QED
    BY <2>2, <2>3
<1>. QED
  BY <1>2, <1>3, <1>5, <1>6, ManagedOf

-----------------------------------------------------------------------------
\* Which job an id means

Numbers(P, S) == {UpTo(P, i) : i \in S}

(* Numbering keeps the order and tells the places apart.                   *)
LEMMA NumbersInOrder ==
  ASSUME NEW n \in Nat, NEW P \in SUBSET (1 .. n), NEW i \in P, NEW j \in P
  PROVE  (UpTo(P, i) <= UpTo(P, j) <=> i <= j) /\ (UpTo(P, i) = UpTo(P, j) <=> i = j)
<1>1. i \in Nat /\ j \in Nat
  OBVIOUS
<1>2. UpTo(P, i) \in Nat /\ UpTo(P, j) \in Nat
  BY <1>1, CountOne
<1>3. i < j => UpTo(P, i) < UpTo(P, j)
  BY CountGrows
<1>4. j < i => UpTo(P, j) < UpTo(P, i)
  BY CountGrows
<1>. QED
  BY <1>1, <1>2, <1>3, <1>4

LEMMA SameMany ==
  ASSUME NEW n \in Nat, NEW P \in SUBSET (1 .. n), NEW S \in SUBSET P
  PROVE  Cardinality(Numbers(P, S)) = Cardinality(S)
<1> DEFINE f == [i \in S |-> UpTo(P, i)]
<1>1. IsFiniteSet(S)
  <2>1. S \in SUBSET (1 .. n) /\ 0 \in Nat
    OBVIOUS
  <2>. QED
    BY <2>1, CountOne
<1>2. f \in Surjection(S, Numbers(P, S))
  <2>1. f \in [S -> Numbers(P, S)]
    BY DEF Numbers
  <2>2. \A k \in Numbers(P, S) : \E i \in S : f[i] = k
    BY DEF Numbers
  <2>. QED
    BY <2>1, <2>2 DEF Surjection
<1>3. f \in Injection(S, Numbers(P, S))
  <2>1. f \in [S -> Numbers(P, S)]
    BY DEF Numbers
  <2>2. \A i, j \in S : f[i] = f[j] => i = j
    BY NumbersInOrder
  <2>. QED
    BY <2>1, <2>2 DEF Injection, IsInjective
<1>. QED
  <2>. HIDE DEF f
  <2>. QED
    BY <1>1, <1>2, <1>3, FS_Surjection

LEMMA JobNumber ==
  ASSUME NEW lines \in Seq(Line), NEW i \in JobsAt(lines)
  PROVE  /\ UpTo(JobsAt(lines), i) \in 1 .. Len(AllJobs(lines))
         /\ Len(AllJobs(lines)) = Cardinality(JobsAt(lines))
         /\ AllJobs(lines)[UpTo(JobsAt(lines), i)] = lines[i].entry
<1>1. PICK n, P : n = Len(lines) /\ P = JobsAt(lines)
  OBVIOUS
<1>2. n \in Nat /\ P \in SUBSET (1 .. n) /\ i \in P
  BY <1>1, JobLine
<1>3. UpTo(P, i) \in 1 .. Cardinality(P) /\ Cardinality(P) \in Nat
  <2>1. 0 \in Nat
    OBVIOUS
  <2>. QED
    BY <1>2, <2>1, NumberOf, CountOne
<1>4. (CHOOSE p \in P : UpTo(P, p) = UpTo(P, i)) = i
  BY <1>2, OnePlace
<1>5. InOrder(lines, P) = [k \in 1 .. Cardinality(P) |-> lines[CHOOSE p \in P : UpTo(P, p) = k]]
  BY DEF InOrder
<1>6. InOrder(lines, P)[UpTo(P, i)] = lines[i]
  BY <1>3, <1>4, <1>5
<1>7. AllJobs(lines) = [k \in 1 .. Cardinality(P) |-> InOrder(lines, P)[k].entry]
  BY <1>1, <1>5 DEF AllJobs, Entries
<1>8. AllJobs(lines)[UpTo(P, i)] = lines[i].entry
  BY <1>3, <1>6, <1>7
<1>9. Len(AllJobs(lines)) = Cardinality(P)
  BY <1>3, <1>7
<1>. QED
  BY <1>1, <1>3, <1>8, <1>9

Before(jobs, k) == {l \in 1 .. k - 1 : jobs[l].command = jobs[k].command}

(* An id tells the number of its job, given all the jobs.                  *)
LEMMA IdOfNumber ==
  ASSUME NEW lines \in Seq(Line), NEW i \in JobsAt(lines),
         NEW k, k = UpTo(JobsAt(lines), i)
  PROVE  ScheduleId(lines, i) = Digest(<<AllJobs(lines)[k].command, Cardinality(Before(AllJobs(lines), k))>>)
<1>1. PICK n, P, A : n = Len(lines) /\ P = JobsAt(lines) /\ A = AllJobs(lines)
  OBVIOUS
<1>2. n \in Nat /\ P \in SUBSET (1 .. n) /\ i \in P
  BY <1>1, JobLine
<1>3. \A j \in P : UpTo(P, j) \in 1 .. Cardinality(P) /\ A[UpTo(P, j)] = lines[j].entry
  <2>. TAKE j \in P
  <2>1. j \in JobsAt(lines)
    BY <1>1
  <2>. QED
    BY <1>1, <2>1, JobNumber
<1>4. PICK Above : Above = {j \in P : j < i /\ lines[j].entry.command = lines[i].entry.command}
  OBVIOUS
<1>5. k = UpTo(P, i) /\ k \in 1 .. Cardinality(P) /\ A[k] = lines[i].entry /\ Cardinality(P) \in Nat
  <2>1. 0 \in Nat
    OBVIOUS
  <2>. QED
    BY <1>1, <1>2, <1>3, <2>1, CountOne
<1>6. Numbers(P, Above) \in SUBSET Before(A, k)
  <2>1. ASSUME NEW j \in Above PROVE UpTo(P, j) \in Before(A, k)
    <3>1. j \in P /\ j < i /\ lines[j].entry.command = lines[i].entry.command
      BY <1>4, <2>1
    <3>2. UpTo(P, j) < UpTo(P, i)
      BY <1>2, <3>1, CountGrows
    <3>3. UpTo(P, j) \in 1 .. k - 1
      BY <1>3, <1>5, <3>1, <3>2
    <3>. QED
      BY <1>3, <1>5, <3>1, <3>3 DEF Before
  <2>. QED
    BY <2>1 DEF Numbers
<1>7. Before(A, k) \in SUBSET Numbers(P, Above)
  <2>1. ASSUME NEW l \in Before(A, k) PROVE l \in Numbers(P, Above)
    <3>1. l \in 1 .. Cardinality(P) /\ l < k /\ A[l].command = A[k].command
      BY <1>5, <2>1 DEF Before
    <3>2. PICK j \in P : UpTo(P, j) = l
      BY <1>2, <3>1, PlaceOf
    <3>3. ~(UpTo(P, i) <= UpTo(P, j))
      BY <1>3, <1>5, <3>1, <3>2
    <3>4. ~(i <= j)
      BY <1>2, <3>3, NumbersInOrder
    <3>5. j < i
      BY <1>2, <3>4
    <3>6. lines[j].entry.command = lines[i].entry.command
      BY <1>3, <1>5, <3>1, <3>2
    <3>. QED
      BY <1>4, <3>2, <3>5, <3>6 DEF Numbers
  <2>. QED
    BY <2>1
<1>8. Cardinality(Above) = Cardinality(Before(A, k))
  <2>1. Above \in SUBSET P
    BY <1>4
  <2>2. Cardinality(Numbers(P, Above)) = Cardinality(Above)
    BY <1>2, <2>1, SameMany
  <2>3. Numbers(P, Above) = Before(A, k)
    BY <1>6, <1>7
  <2>. QED
    BY <2>2, <2>3
<1>9. ScheduleId(lines, i) = Digest(<<lines[i].entry.command, Cardinality(Above)>>)
  BY <1>1, <1>4 DEF ScheduleId
<1>. QED
  BY <1>1, <1>5, <1>8, <1>9

LEMMA RowOfNumber ==
  ASSUME NEW lines \in Seq(Line), NEW i \in ManagedAt(lines),
         NEW k, k = UpTo(JobsAt(lines), i)
  PROVE  UpTo(ManagedAt(lines), i) = Cardinality({l \in ManagedRows(lines) : l <= k})
<1>1. PICK n, P, M : n = Len(lines) /\ P = JobsAt(lines) /\ M = ManagedAt(lines)
  OBVIOUS
<1>2. n \in Nat /\ P \in SUBSET (1 .. n) /\ M \in SUBSET P /\ i \in M
  BY <1>1, JobLine DEF ManagedAt
<1>3. ManagedRows(lines) = {UpTo(P, j) : j \in M}
  BY <1>1 DEF ManagedRows
<1>4. \A j \in M : UpTo(P, j) <= k <=> j <= i
  <2>. TAKE j \in M
  <2>1. j \in P /\ i \in P
    BY <1>2
  <2>. QED
    BY <1>1, <1>2, <2>1, NumbersInOrder
<1>5. Numbers(P, Counted(M, i)) = {l \in ManagedRows(lines) : l <= k}
  BY <1>3, <1>4 DEF Numbers, Counted
<1>6. Cardinality(Numbers(P, Counted(M, i))) = Cardinality(Counted(M, i))
  <2>1. Counted(M, i) \in SUBSET P
    BY <1>2 DEF Counted
  <2>. QED
    BY <1>2, <2>1, SameMany
<1>7. UpTo(M, i) = Cardinality(Counted(M, i))
  BY DEF UpTo, Counted
<1>. QED
  BY <1>1, <1>5, <1>6, <1>7

(* Two crontabs that look alike have the jobs with an id in the same rows. *)
LEMMA SameRow ==
  ASSUME NEW one \in Seq(Line), NEW other \in Seq(Line), LooksLike(one, other),
         NEW i \in ManagedAt(one), NEW j \in ManagedAt(other),
         ScheduleId(one, i) = ScheduleId(other, j)
  PROVE  \/ UpTo(ManagedAt(one), i) = UpTo(ManagedAt(other), j)
         \/ Shared(other, ScheduleId(one, i))
<1>1. PICK k, A : k = UpTo(JobsAt(one), i) /\ A = AllJobs(one)
  OBVIOUS
<1>2. i \in JobsAt(one) /\ A = AllJobs(other) /\ k \in ManagedRows(other)
  BY <1>1 DEF ManagedAt, LooksLike, ManagedRows
<1>3. PICK l \in ManagedAt(other) : k = UpTo(JobsAt(other), l)
  BY <1>2 DEF ManagedRows
<1>4. l \in JobsAt(other)
  BY <1>3 DEF ManagedAt
<1>5. ScheduleId(other, l) = ScheduleId(one, i)
  <2>1. PICK id : id = Digest(<<A[k].command, Cardinality(Before(A, k))>>)
    OBVIOUS
  <2>2. ScheduleId(one, i) = id
    BY <1>1, <1>2, <2>1, IdOfNumber
  <2>3. ScheduleId(other, l) = id
    BY <1>2, <1>3, <1>4, <2>1, IdOfNumber
  <2>. QED
    BY <2>2, <2>3
<1>6. /\ UpTo(ManagedAt(one), i) = Cardinality({m \in ManagedRows(one) : m <= k})
      /\ UpTo(ManagedAt(other), l) = Cardinality({m \in ManagedRows(other) : m <= k})
  BY <1>1, <1>3, RowOfNumber
<1>7. UpTo(ManagedAt(one), i) = UpTo(ManagedAt(other), l)
  BY <1>6 DEF LooksLike
<1>. QED
  BY <1>5, <1>7 DEF Shared

-----------------------------------------------------------------------------
\* What an update sends

(* The request is about a row of the page.                                 *)
Chosen(u) == \E i \in ManagedAt(page[u].shown) :
  /\ page[u].row = UpTo(ManagedAt(page[u].shown), i)
  /\ page[u].id = ScheduleId(page[u].shown, i)

EditedAt(u, i) ==
  [ManagedJobs(text[u]) EXCEPT ![UpTo(ManagedAt(text[u]), i)] = Changed(@, page[u])]

(* What is sent is the text with the job that has the requested id changed.*)
Prepared(u) == \E i \in ManagedAt(text[u]) :
  /\ ScheduleId(text[u], i) = page[u].id
  /\ edited[u] = WriteManagedBlock(text[u], EditedAt(u, i))

Sent(u) ==
  /\ at[u] = "read" => Chosen(u)
  /\ Sending(u) => Chosen(u) /\ Prepared(u)

(* A request is in the queue once, and until a slot takes it.              *)
Queued ==
  /\ \A k \in 1 .. Len(queue) : call[queue[k]].is = "queued"
  /\ \A k, l \in 1 .. Len(queue) : queue[k] = queue[l] => k = l
  /\ \A u \in Update : at[u] \in {"idle", "listed"} => call[u].is = "none"

SentInv == Queued /\ \A u \in Update : Sent(u)

Kept(u) ==
  /\ page'[u] = page[u] /\ (at'[u] = "read" => at[u] = "read")
  /\ Sending(u)' => Sending(u) /\ text'[u] = text[u] /\ edited'[u] = edited[u]

LEMMA KeptStays ==
  ASSUME NEW u \in Update, Sent(u), Kept(u)
  PROVE  Sent(u)'
<1>1. Chosen(u) => Chosen(u)'
  BY DEF Chosen, Kept
<1>2. ASSUME Sending(u)', Prepared(u) PROVE Prepared(u)'
  BY <1>2 DEF Kept, Prepared, EditedAt
<1>. QED
  BY <1>1, <1>2 DEF Sent, Kept

(* A step that pushes nothing and takes nothing from the queue.            *)
Unqueued ==
  /\ queue' = queue
  /\ \A u \in Update : call[u].is = "queued" => call'[u].is = "queued"
  /\ \A u \in Update : at'[u] \in {"idle", "listed"} => at[u] \in {"idle", "listed"}
  /\ \A u \in Update : call[u].is = "none" => call'[u].is = "none"

LEMMA UnqueuedStays ==
  ASSUME TypeOK, Queued, Unqueued
  PROVE  Queued'
<1>1. \A k \in 1 .. Len(queue) : queue[k] \in Update
  BY DEF TypeOK
<1>. QED
  BY <1>1 DEF Queued, Unqueued

LEMMA PushStays ==
  ASSUME TypeOK, Queued, NEW u \in Update, NEW kind, Push(u, kind), call[u].is # "queued",
         NEW a \in {"read", "write", "again"}, Goto(u, a)
  PROVE  Queued'
<1>1. /\ queue \in Seq(Update) /\ call \in [Update -> Call] /\ at \in [Update -> Await]
      /\ Len(queue) \in Nat
  BY DEF TypeOK, Await
<1>2. queue' = Append(queue, u) /\ call' = [call EXCEPT ![u] = [kind |-> kind, is |-> "queued"]]
  BY DEF Push
<1>3. \A k \in 1 .. Len(queue) : queue[k] \in Update /\ queue[k] # u
  BY <1>1 DEF Queued
<1>4. /\ Len(queue') = Len(queue) + 1 /\ queue'[Len(queue) + 1] = u
      /\ \A k \in 1 .. Len(queue) : queue'[k] = queue[k]
  BY <1>1, <1>2
<1>5. \A k \in 1 .. Len(queue') : call'[queue'[k]].is = "queued"
  BY <1>1, <1>2, <1>3, <1>4 DEF Queued
<1>6. \A k, l \in 1 .. Len(queue') : queue'[k] = queue'[l] => k = l
  BY <1>1, <1>3, <1>4 DEF Queued
<1>7. \A v \in Update : at'[v] \in {"idle", "listed"} => call'[v].is = "none"
  BY <1>1, <1>2 DEF Queued, Goto
<1>. QED
  BY <1>5, <1>6, <1>7 DEF Queued

LEMMA FinishStays ==
  ASSUME TypeOK, SentInv, NEW u \in Update, NEW result, Finish(u, result), UNCHANGED <<call, queue>>
  PROVE  SentInv'
<1>1. /\ at \in [Update -> Await] /\ page \in [Update -> Page]
      /\ text \in [Update -> Seq(Line)] /\ edited \in [Update -> Seq(Line)]
  BY DEF TypeOK, Await
<1>2. at' = [at EXCEPT ![u] = "done"]
  BY DEF Finish, Goto
<1>3. Queued'
  <2>1. Unqueued
    BY <1>1, <1>2 DEF Unqueued
  <2>. QED
    BY <2>1, UnqueuedStays DEF SentInv
<1>4. ASSUME NEW v \in Update PROVE Sent(v)'
  <2>1. CASE v # u \/ Sending(u)
    <3>1. page'[v] = page[v] /\ text'[v] = text[v] /\ edited'[v] = edited[v]
      BY <1>1, <2>1 DEF Finish, local
    <3>2. Kept(v)
      BY <1>1, <1>2, <3>1 DEF Kept, Sending
    <3>. QED
      BY <3>2, KeptStays DEF SentInv
  <2>2. CASE v = u /\ ~Sending(u)
    BY <1>1, <1>2, <2>2 DEF Sent, Sending
  <2>. QED
    BY <2>1, <2>2
<1>. QED
  BY <1>3, <1>4 DEF SentInv

LEMMA SentRequest ==
  ASSUME TypeOK, Audited, SentInv, NEW u \in Update,
         List(u) \/ Click(u) \/ ClickInvalid(u) \/ Handle(u) \/ CutShort(u)
  PROVE  SentInv'
<1>1. /\ at \in [Update -> Await] /\ page \in [Update -> Page] /\ call \in [Update -> Call]
      /\ text \in [Update -> Seq(Line)] /\ edited \in [Update -> Seq(Line)]
  BY DEF TypeOK, Await
<1>2. CASE List(u)
  <2>1. at[u] = "idle" /\ call[u].is = "none"
    BY <1>2 DEF List, SentInv, Queued
  <2>2. Unqueued
    BY <1>1, <1>2 DEF List, Goto, Unqueued
  <2>3. ASSUME NEW v \in Update \ {u} PROVE Kept(v)
    BY <1>1, <1>2 DEF List, Goto, Kept, Sending
  <2>4. Sent(u)'
    BY <1>1, <1>2, <2>1 DEF List, Goto, Sent, Sending
  <2>. QED
    BY <2>2, <2>3, <2>4, UnqueuedStays, KeptStays DEF SentInv
<1>3. CASE Click(u)
  <2>1. at[u] = "listed" /\ call[u].is = "none"
    BY <1>3 DEF Click, SentInv, Queued
  <2>2. PICK i \in ManagedAt(page[u].shown), x \in Expression \cup {Keep} : Choose(u, i, x)
    BY <1>3 DEF Click
  <2>3. /\ page'[u].shown = page[u].shown /\ page'[u].row = UpTo(ManagedAt(page[u].shown), i)
        /\ page'[u].id = ScheduleId(page[u].shown, i)
        /\ \A v \in Update \ {u} : page'[v] = page[v]
    BY <1>1, <2>2 DEF Choose
  <2>4. Chosen(u)'
    BY <2>3 DEF Chosen
  <2>5. Push(u, "read") /\ Goto(u, "read") /\ UNCHANGED <<text, edited>>
    BY <1>3 DEF Click
  <2>6. Sent(u)'
    BY <1>1, <2>4, <2>5 DEF Push, Sent, Sending
  <2>7. ASSUME NEW v \in Update \ {u} PROVE Kept(v)
    BY <1>1, <2>3, <2>5 DEF Push, Goto, Kept, Sending
  <2>8. Queued'
    BY <2>1, <2>5, PushStays DEF SentInv
  <2>. QED
    BY <2>6, <2>7, <2>8, KeptStays DEF SentInv
<1>4. CASE ClickInvalid(u)
  BY <1>4, FinishStays DEF ClickInvalid
<1>5. CASE Edit(u)
  <2>1. at[u] = "read" /\ call[u].is = "ok" /\ Push(u, "write") /\ Goto(u, "write")
        /\ UNCHANGED <<page, text>>
    BY <1>5 DEF Edit, EditAt, Read
  <2>2. PICK i \in ManagedAt(text[u]) :
          /\ ScheduleId(text[u], i) = page[u].id
          /\ edited' = [edited EXCEPT ![u] = WriteManagedBlock(text[u], EditedAt(u, i))]
    BY <1>5 DEF Edit, EditAt, EditedAt
  <2>3. edited'[u] = WriteManagedBlock(text[u], EditedAt(u, i))
    BY <1>1, <2>2
  <2>4. Prepared(u)'
    BY <2>1, <2>2, <2>3 DEF Prepared, EditedAt
  <2>5. Chosen(u)'
    BY <2>1 DEF SentInv, Sent, Chosen
  <2>6. Sent(u)'
    BY <2>4, <2>5 DEF Sent
  <2>7. ASSUME NEW v \in Update \ {u} PROVE Kept(v)
    BY <1>1, <2>1, <2>2 DEF Push, Goto, Kept, Sending
  <2>8. Queued'
    BY <2>1, PushStays DEF SentInv
  <2>. QED
    BY <2>6, <2>7, <2>8, KeptStays DEF SentInv
<1>6. CASE Refuse(u)
  BY <1>6, FinishStays DEF Refuse
<1>7. CASE Record(u)
  <2>1. call[u].is = "ok" /\ Push(u, "read") /\ Goto(u, "again") /\ UNCHANGED <<page, text, edited>>
    BY <1>7 DEF Record, local
  <2>2. Sent(u)'
    BY <1>1, <2>1 DEF Push, Goto, Sent, Sending
  <2>3. ASSUME NEW v \in Update \ {u} PROVE Kept(v)
    BY <1>1, <2>1 DEF Push, Goto, Kept, Sending
  <2>4. Queued'
    BY <2>1, PushStays DEF SentInv
  <2>. QED
    BY <2>2, <2>3, <2>4, KeptStays DEF SentInv
<1>8. CASE Confirm(u)
  BY <1>8, FinishStays DEF Confirm
<1>9. CASE NoReply(u)
  BY <1>9, FinishStays DEF NoReply
<1>10. CASE CutShort(u)
  BY <1>10, FinishStays DEF CutShort
<1>. QED
  BY <1>2, <1>3, <1>4, <1>5, <1>6, <1>7, <1>8, <1>9, <1>10 DEF Handle

(* What a slot does to one request.                                        *)
LEMMA BecameStays ==
  ASSUME TypeOK, SentInv, NEW u \in Update, NEW is \in {"ok", "error", "lost"}, Became(u, is),
         call[u].is = "taken", UNCHANGED <<at, page, edited, queue>>,
         \A v \in Update : text'[v] = text[v] \/ ~Sending(v)
  PROVE  SentInv'
<1>1. call \in [Update -> Call]
  BY DEF TypeOK
<1>2. call'[u].is = is /\ call'[u].kind = call[u].kind /\ \A v \in Update \ {u} : call'[v] = call[v]
  BY <1>1 DEF Became, Call
<1>3. Unqueued
  BY <1>2 DEF Unqueued
<1>4. \A v \in Update : Kept(v)
  BY <1>2 DEF Kept, Sending
<1>. QED
  BY <1>3, <1>4, UnqueuedStays, KeptStays DEF SentInv

LEMMA SentRunner ==
  ASSUME TypeOK, SentInv,
         (\E u \in Update : Serve(u) \/ Break(u)) \/ Take \/ RunnerDies \/ HandEdit
  PROVE  SentInv'
<1>1. /\ at \in [Update -> Await] /\ page \in [Update -> Page] /\ call \in [Update -> Call]
      /\ text \in [Update -> Seq(Line)] /\ edited \in [Update -> Seq(Line)]
      /\ queue \in Seq(Update)
  BY DEF TypeOK, Await
<1>2. ASSUME NEW u \in Update, ReadCrontab(u) PROVE SentInv'
  <2>1. PICK is \in {"ok", "error", "lost"} : Became(u, is)
    BY <1>2 DEF ReadCrontab, Served
  <2>2. call[u].is = "taken" /\ call[u].kind = "read"
    BY <1>2 DEF ReadCrontab, Served
  <2>3. \A v \in Update : text'[v] = text[v] \/ ~Sending(v)
    BY <1>1, <1>2, <2>2 DEF ReadCrontab, Sending
  <2>. QED
    BY <1>2, <2>1, <2>2, <2>3, BecameStays DEF ReadCrontab
<1>3. ASSUME NEW u \in Update, WriteCrontab(u) PROVE SentInv'
  <2>1. PICK is \in {"ok", "error", "lost"} : Became(u, is)
    BY <1>3 DEF WriteCrontab, Served
  <2>2. call[u].is = "taken"
    BY <1>3 DEF WriteCrontab, Served
  <2>. QED
    BY <1>3, <2>1, <2>2, BecameStays DEF WriteCrontab, local
<1>4. ASSUME NEW u \in Update, RefuseCrontab(u) \/ Break(u) PROVE SentInv'
  <2>1. Became(u, "error") /\ call[u].is = "taken" /\ UNCHANGED <<at, page, text, edited, queue>>
    BY <1>4 DEF RefuseCrontab, Break, local
  <2>. QED
    BY <2>1, BecameStays
<1>5. CASE Take
  <2>1. /\ Len(queue) \in Nat /\ queue # <<>> /\ Head(queue) \in Update /\ Head(queue) = queue[1]
        /\ 1 \in 1 .. Len(queue)
    BY <1>1, <1>5 DEF Take
  <2>2. PICK u \in Update : u = Head(queue) /\ call[u].is = "queued" /\ Became(u, "taken")
    BY <1>5, <2>1 DEF Take, SentInv, Queued
  <2>3. call'[u].is = "taken" /\ call'[u].kind = call[u].kind /\ \A v \in Update \ {u} : call'[v] = call[v]
    BY <1>1, <2>2 DEF Became, Call
  <2>4. UNCHANGED <<at, page, text, edited>>
    BY <1>5 DEF Take, local
  <2>5. \A v \in Update : Kept(v)
    BY <2>2, <2>3, <2>4 DEF Kept, Sending
  <2>6. /\ Len(queue') = Len(queue) - 1
        /\ \A k \in 1 .. Len(queue') : queue'[k] = queue[k + 1] /\ k + 1 \in 1 .. Len(queue)
    <3>1. queue' = SubSeq(queue, 2, Len(queue))
      BY <1>5 DEF Take
    <3>2. CASE Len(queue) = 1
      <4>1. queue' = <<>>
        BY <1>1, <3>1, <3>2
      <4>. QED
        BY <3>2, <4>1
    <3>3. CASE Len(queue) # 1
      <4>1. 2 \in 1 .. Len(queue) /\ 0 \in 0 .. Len(queue)
        BY <2>1, <3>3
      <4>2. /\ Len(queue') = Len(queue) - 2 + 1
            /\ \A k \in 1 .. Len(queue) - 2 + 1 : queue'[k] = queue[2 + k - 1]
        BY <1>1, <3>1, <4>1, Cut
      <4>3. Len(queue') = Len(queue) - 1
        BY <2>1, <4>2
      <4>4. ASSUME NEW k \in 1 .. Len(queue') PROVE queue'[k] = queue[k + 1] /\ k + 1 \in 1 .. Len(queue)
        <5>1. k \in 1 .. Len(queue) - 2 + 1 /\ 2 + k - 1 = k + 1 /\ k + 1 \in 1 .. Len(queue)
          BY <2>1, <4>3
        <5>. QED
          BY <4>2, <5>1
      <4>. QED
        BY <4>3, <4>4
    <3>. QED
      BY <3>2, <3>3
  <2>7. \A k \in 1 .. Len(queue') : queue'[k] # u /\ queue'[k] \in Update
    <3>. TAKE k \in 1 .. Len(queue')
    <3>1. k + 1 \in 1 .. Len(queue) /\ k + 1 # 1 /\ queue'[k] = queue[k + 1]
      BY <2>6
    <3>2. queue[k + 1] # queue[1]
      BY <2>1, <3>1 DEF SentInv, Queued
    <3>. QED
      BY <1>1, <2>1, <2>2, <3>1, <3>2
  <2>8. \A k \in 1 .. Len(queue') : call'[queue'[k]].is = "queued"
    BY <2>3, <2>6, <2>7 DEF SentInv, Queued
  <2>9. \A k, l \in 1 .. Len(queue') : queue'[k] = queue'[l] => k = l
    <3>. TAKE k, l \in 1 .. Len(queue')
    <3>1. queue[k + 1] = queue[l + 1] => k + 1 = l + 1
      BY <2>6 DEF SentInv, Queued
    <3>. QED
      BY <2>6, <3>1
  <2>10. \A v \in Update : at'[v] \in {"idle", "listed"} => call'[v].is = "none"
    BY <2>2, <2>3, <2>4 DEF SentInv, Queued
  <2>. QED
    BY <2>5, <2>8, <2>9, <2>10, KeptStays DEF SentInv, Queued
<1>6. CASE RunnerDies
  <2>1. \A u \in Update :
          /\ call'[u].kind = call[u].kind
          /\ call'[u].is = call[u].is \/ (call[u].is = "taken" /\ call'[u].is = "lost")
    BY <1>1, <1>6 DEF RunnerDies, Call
  <2>2. UNCHANGED <<at, page, text, edited, queue>>
    BY <1>6 DEF RunnerDies, local
  <2>3. Unqueued
    BY <2>1, <2>2 DEF Unqueued
  <2>4. \A u \in Update : Kept(u)
    BY <2>1, <2>2 DEF Kept, Sending
  <2>. QED
    BY <2>3, <2>4, UnqueuedStays, KeptStays DEF SentInv
<1>7. CASE HandEdit
  <2>1. UNCHANGED <<at, page, text, edited, call, queue>>
    BY <1>7 DEF HandEdit, local
  <2>2. Unqueued /\ \A u \in Update : Kept(u)
    BY <2>1 DEF Unqueued, Kept, Sending
  <2>. QED
    BY <2>2, UnqueuedStays, KeptStays DEF SentInv
<1>. QED
  BY <1>2, <1>3, <1>4, <1>5, <1>6, <1>7 DEF Serve

LEMMA SentAlways == Spec => [](TypeOK /\ SentInv)
<1>1. Init => SentInv
  BY DEF Init, SentInv, Queued, Sent, Sending, NoCall
<1>2. TypeOK /\ Audited /\ SentInv /\ [Next]_vars => SentInv'
  <2>. SUFFICES ASSUME TypeOK, Audited, SentInv, [Next]_vars PROVE SentInv'
    OBVIOUS
  <2>1. CASE Next
    BY <2>1, SentRequest, SentRunner DEF Next
  <2>2. CASE UNCHANGED vars
    <3>1. UNCHANGED <<at, page, text, edited, call, queue>>
      BY <2>2 DEF vars, local
    <3>2. Unqueued /\ \A u \in Update : Kept(u)
      BY <3>1 DEF Unqueued, Kept, Sending
    <3>. QED
      BY <3>2, UnqueuedStays, KeptStays DEF SentInv
  <2>. QED
    BY <2>1, <2>2
<1>. QED
  BY <1>1, <1>2, TypeCorrect, AuditedAlways, PTL DEF Spec

(* The only step that installs a text is the one that sends it.            *)
LEMMA InstallIs ==
  ASSUME TypeOK, SentInv, [Next]_vars, NEW u \in Update, Installs(u)
  PROVE  /\ file' = edited[u] /\ Chosen(u) /\ text[u] \in Seq(Line) /\ page[u] \in Page
         /\ \E i \in ManagedAt(text[u]) :
              /\ ScheduleId(text[u], i) = page[u].id
              /\ edited[u] = WriteManagedBlock(text[u], EditedAt(u, i))
<1>1. PICK v \in Update : WriteCrontab(v)
  BY DEF Installs, Next, vars, Handle, Serve, List, Click, ClickInvalid, Edit, EditAt, Refuse,
         Record, Confirm, NoReply, CutShort, ReadCrontab, RefuseCrontab, Break, Take, RunnerDies,
         HandEdit
<1>2. v = u
  BY <1>1 DEF Installs, WriteCrontab
<1>3. file' = edited[u] /\ Sending(u)
  BY <1>1, <1>2 DEF WriteCrontab, Served, Sending
<1>4. Chosen(u) /\ Prepared(u)
  BY <1>3 DEF SentInv, Sent
<1>. QED
  BY <1>3, <1>4 DEF Prepared, TypeOK

LEMMA EntriesPlain ==
  ASSUME NEW lines \in Seq(Line), NEW k \in 1 .. Len(ManagedJobs(lines))
  PROVE  ManagedJobs(lines)[k].expression \in Plain
<1>1. PICK P : P = ManagedAt(lines)
  OBVIOUS
<1>2. /\ P \in SUBSET (1 .. Len(lines)) /\ Cardinality(P) \in Nat
      /\ Len(ManagedJobs(lines)) = Cardinality(P)
  BY <1>1, ManagedType
<1>3. PICK i \in P : InOrder(lines, P)[k] = lines[i]
  BY <1>2, InOrderType
<1>4. DOMAIN InOrder(lines, P) = 1 .. Cardinality(P)
  BY <1>2 DEF InOrder
<1>5. ManagedJobs(lines)[k] = InOrder(lines, P)[k].entry
  BY <1>1, <1>2, <1>4 DEF ManagedJobs, Entries
<1>6. lines[i].entry.expression \in Plain
  BY <1>1 DEF ManagedAt, JobsAt, IsJob
<1>. QED
  BY <1>3, <1>5, <1>6

LEMMA EditedType ==
  ASSUME NEW u \in Update, text[u] \in Seq(Line), page[u] \in Page, NEW i \in ManagedAt(text[u]),
         NEW m, m = UpTo(ManagedAt(text[u]), i)
  PROVE  /\ m \in 1 .. Len(ManagedJobs(text[u])) /\ ManagedJobs(text[u]) \in Seq(Entry)
         /\ EditedAt(u, i) \in Seq(Entry) /\ Len(EditedAt(u, i)) = Len(ManagedJobs(text[u]))
         /\ page[u].expression \notin Extended =>
              \A k \in 1 .. Len(EditedAt(u, i)) : EditedAt(u, i)[k].expression \in Plain
<1>1. PICK lines, jobs, p, next :
        /\ lines = text[u] /\ jobs = ManagedJobs(lines) /\ p = page[u] /\ next = EditedAt(u, i)
  OBVIOUS
<1>2. jobs \in Seq(Entry) /\ m \in 1 .. Len(jobs)
  <2>1. lines \in Seq(Line) /\ Len(lines) \in Nat /\ i \in ManagedAt(lines)
    BY <1>1
  <2>. QED
    BY <1>1, <2>1, ManagedType, NumberOf
<1>3. PICK job \in Entry : job = jobs[m]
  BY <1>2
<1>4. p \in Page
  BY <1>1
<1>5. Changed(job, p) \in Entry
  BY <1>3, <1>4 DEF Changed, Page, Entry
<1>6. next = [jobs EXCEPT ![m] = Changed(job, p)]
  BY <1>1, <1>3 DEF EditedAt
<1>7. next \in Seq(Entry) /\ Len(next) = Len(jobs)
  BY <1>2, <1>5, <1>6
<1>8. ASSUME p.expression \notin Extended, NEW k \in 1 .. Len(next) PROVE next[k].expression \in Plain
  <2>1. \A l \in 1 .. Len(jobs) : jobs[l].expression \in Plain
    BY <1>1, EntriesPlain
  <2>2. CASE k = m
    <3>1. next[k] = Changed(job, p)
      BY <1>2, <1>6, <2>2
    <3>2. CASE p.expression = Keep
      <4>1. Changed(job, p).expression = job.expression
        BY <1>3, <3>2 DEF Changed, Entry
      <4>. QED
        BY <1>2, <1>3, <2>1, <3>1, <4>1
    <3>3. CASE p.expression # Keep
      <4>1. Changed(job, p).expression = p.expression
        BY <1>3, <3>3 DEF Changed, Entry
      <4>2. p.expression \in Plain
        BY <1>4, <1>8, <3>3 DEF Page, Expression
      <4>. QED
        BY <3>1, <4>1, <4>2
    <3>. QED
      BY <3>2, <3>3
  <2>3. CASE k # m
    <3>1. k \in 1 .. Len(jobs) /\ next[k] = jobs[k]
      BY <1>2, <1>6, <1>7, <2>3
    <3>. QED
      BY <2>1, <3>1
  <2>. QED
    BY <2>2, <2>3
<1>. QED
  BY <1>1, <1>2, <1>7, <1>8

LEMMA ManagedHasBegin ==
  ASSUME NEW lines \in Seq(Line), NEW i \in ManagedAt(lines)
  PROVE  FirstAt(lines, Begin) # 0
<1>1. i \in 1 .. Len(lines) /\ InBlock(lines, i)
  BY JobLine DEF ManagedAt
<1>2. PICK b \in 1 .. i - 1 : lines[b] = Begin
  BY <1>1 DEF InBlock
<1>3. b \in 1 .. Len(lines)
  BY <1>1
<1>. QED
  BY <1>2, <1>3, FirstAtType

(* For every crontab and however many updates interleave: an update leaves *)
(* every line outside the block as it read it and adds at most the end of  *)
(* a block that had none (writeManagedBlock, ADR-005).                     *)
THEOREM NothingForeignChanges == Spec => ForeignLinesStay
<1>1. TypeOK /\ SentInv /\ [Next]_vars => [\A u \in Update :
        Installs(u) /\ OneBlock(text[u]) =>
          \/ Foreign(file') = Foreign(text[u])
          \/ Foreign(file') = Foreign(text[u]) \o <<End, Blank>> /\ FirstAt(text[u], End) = 0]_vars
  <2>. SUFFICES ASSUME TypeOK, SentInv, [Next]_vars, NEW u \in Update, Installs(u), OneBlock(text[u])
                PROVE  \/ Foreign(file') = Foreign(text[u])
                       \/ Foreign(file') = Foreign(text[u]) \o <<End, Blank>> /\ FirstAt(text[u], End) = 0
    OBVIOUS
  <2>1. file' = edited[u] /\ text[u] \in Seq(Line) /\ page[u] \in Page
    BY InstallIs
  <2>2. PICK i \in ManagedAt(text[u]) : edited[u] = WriteManagedBlock(text[u], EditedAt(u, i))
    BY InstallIs
  <2>3. EditedAt(u, i) \in Seq(Entry)
    BY <2>1, EditedType
  <2>4. FirstAt(text[u], Begin) # 0
    BY <2>1, ManagedHasBegin
  <2>. QED
    BY <2>1, <2>2, <2>3, <2>4, ForeignKept
<1>. QED
  BY <1>1, SentAlways, PTL DEF Spec, ForeignLinesStay

(* For every crontab and however many updates interleave: an update        *)
(* changes one job and keeps all the others, and it is the job in the row  *)
(* that was clicked if the jobs still look as the page shows them and no   *)
(* other of the block has its digest (updateSchedule, occurrenceIds).      *)
THEOREM TheJobClicked == Spec => OneJobChanges
<1>1. TypeOK /\ SentInv /\ [Next]_vars => [\A u \in Update :
        Installs(u) /\ OneBlock(text[u]) /\ page[u].expression \notin Extended =>
          LET before == ManagedJobs(text[u]) IN
          \E m \in DOMAIN before :
            /\ ManagedJobs(file') = [before EXCEPT ![m] = Changed(@, page[u])]
            /\ LooksLike(page[u].shown, text[u]) => m = page[u].row \/ Shared(text[u], page[u].id)]_vars
  <2>. SUFFICES ASSUME TypeOK, SentInv, [Next]_vars, NEW u \in Update,
                       Installs(u), OneBlock(text[u]), page[u].expression \notin Extended
                PROVE  \E m \in DOMAIN ManagedJobs(text[u]) :
                         /\ ManagedJobs(file') = [ManagedJobs(text[u]) EXCEPT ![m] = Changed(@, page[u])]
                         /\ LooksLike(page[u].shown, text[u]) => m = page[u].row \/ Shared(text[u], page[u].id)
    OBVIOUS
  <2>1. file' = edited[u] /\ text[u] \in Seq(Line) /\ page[u] \in Page /\ Chosen(u)
    BY InstallIs
  <2>2. PICK i \in ManagedAt(text[u]) :
          /\ ScheduleId(text[u], i) = page[u].id
          /\ edited[u] = WriteManagedBlock(text[u], EditedAt(u, i))
    BY InstallIs
  <2>3. PICK m : m = UpTo(ManagedAt(text[u]), i)
    OBVIOUS
  <2>4. /\ m \in 1 .. Len(ManagedJobs(text[u])) /\ ManagedJobs(text[u]) \in Seq(Entry)
        /\ EditedAt(u, i) \in Seq(Entry)
        /\ \A k \in 1 .. Len(EditedAt(u, i)) : EditedAt(u, i)[k].expression \in Plain
    BY <2>1, <2>3, EditedType
  <2>5. FirstAt(text[u], Begin) # 0
    BY <2>1, ManagedHasBegin
  <2>6. ManagedJobs(file') = EditedAt(u, i)
    BY <2>1, <2>2, <2>4, <2>5, ManagedKept
  <2>7. LooksLike(page[u].shown, text[u]) => m = page[u].row \/ Shared(text[u], page[u].id)
    <3>. SUFFICES ASSUME LooksLike(page[u].shown, text[u])
                  PROVE m = page[u].row \/ Shared(text[u], page[u].id)
      OBVIOUS
    <3>1. PICK j \in ManagedAt(page[u].shown) :
            /\ page[u].row = UpTo(ManagedAt(page[u].shown), j)
            /\ page[u].id = ScheduleId(page[u].shown, j)
      BY <2>1 DEF Chosen
    <3>2. page[u].shown \in Seq(Line)
      BY <2>1 DEF Page
    <3>. QED
      BY <2>1, <2>2, <2>3, <3>1, <3>2, SameRow
  <2>8. m \in DOMAIN ManagedJobs(text[u])
    BY <2>4
  <2>. QED
    BY <2>3, <2>6, <2>7, <2>8 DEF EditedAt
<1>. QED
  BY <1>1, SentAlways, PTL DEF Spec, OneJobChanges
================================================================================
