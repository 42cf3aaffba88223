-------------------------------- MODULE Catalog --------------------------------
(***************************************************************************)
(* The catalog of one area (FA-03): the rows that cache what the mapped    *)
(* directories of the script VMs hold, the requests that list or rescan    *)
(* them, the page that shows them, and the runs started from that page.    *)
(*                                                                         *)
(* A rescan asks the runner for one directory after the other and replaces *)
(* the rows of each source in two statements.  Loads and rescans of any    *)
(* number of pages interleave with each other, with the script owners who  *)
(* change the directories, with the root account that maps and unmaps them *)
(* and with the starts; nothing locks a source.                            *)
(***************************************************************************)
EXTENDS Naturals

CONSTANTS
  Console,      \* open area pages
  Source, File, \* directories that may be mapped to the area, and script names
  Declared, Undeclared,  \* the criticality a header declares, and none
  None,         \* no such file, row or entry
  Initial,      \* what the directories may hold at first
  Mapped,       \* the sources mapped at first
  Ttl,          \* CATALOG_CACHE_TTL_SECONDS, in ticks
  MaxEvents     \* bound: clicks, changes, failures and ticks

ASSUME BoundAssumption == {Ttl, MaxEvents} \subseteq Nat
ASSUME MapAssumption   == /\ Mapped \subseteq Source
                          /\ Initial \subseteq [Source -> [File -> Declared \cup {Undeclared, None}]]

VARIABLES
  disk,     \* what each directory holds: the header of each script in it
  mapping,  \* script_sources: what was mapped, and what was unmapped again
  row,      \* scripts: one row per source and file name
  clock,    \* the control plane's clock
  ask,      \* what each request of each page is doing
  screen,   \* the list each page shows
  start,    \* the start each page has asked for
  runs,     \* the runs that were recorded
  last, mixed,     \* history: the listing written last for each source, and
                   \* the sources whose rows an overlap of two scans wrote
  events           \* how much of the bound is used up

history == <<last, mixed>>
vars    == <<disk, mapping, row, clock, ask, screen, start, runs, history, events>>

Criticality == Declared \cup {Undeclared}
Script      == Source \X File
Directory   == [File -> Criticality \cup {None}]
Empty       == [f \in File |-> None]
Row         == [presentAt : Nat, scannedAt : Nat, criticality : Criticality]
List        == [Script -> Row \cup {None}]
Nothing     == [x \in Script |-> None]
Held(dir)   == {f \in File : dir[f] # None}

Present(r)  == r # None /\ r.presentAt >= r.scannedAt
InArea      == {s \in Source : mapping[s] = "mapped"}

Request == Console \X {"load", "rescan"}
ASSUME NoneAssumption == None \notin Criticality /\ None \notin Row /\ None \notin Request

At      == {"idle", "age", "sources", "scan", "reply", "upsert", "mark", "list", "answered"}
Ask     == [at : At, opened : Nat, todo : SUBSET Source, source : Source \cup {None},
            found : Directory, now : Nat, rows : List, alone : BOOLEAN, doubt : SUBSET Source]
Rest    == [at |-> "idle", opened |-> 0, todo |-> {}, source |-> None, found |-> Empty,
            now |-> 0, rows |-> Nothing, alone |-> FALSE, doubt |-> {}]

Start   == [script : Script, shown : Row, read : Row \cup {None}]
NoStart == None

AskIs(q, where) == ask[q].at = where
Go(q, where)    == ask' = [ask EXCEPT ![q].at = where]
Event           == events < MaxEvents /\ events' = events + 1

(* The sources a request has a listing of, or has had one of: what happens *)
(* to them from now on is not in its answer.                               *)
Listed(q, s) == \/ ask[q].at \in {"reply", "upsert", "mark"} /\ ask[q].source = s
                \/ ask[q].at \in {"scan", "reply", "upsert", "mark", "list", "answered"}
                   /\ s \notin ask[q].todo
Doubting(asks, s, besides) ==
  [q \in Request |-> IF q # besides /\ Listed(q, s)
                     THEN [asks[q] EXCEPT !.doubt = @ \cup {s}] ELSE asks[q]]

(* A request that is done with a source goes on with the next one.         *)
Passed(q, s) == [Rest EXCEPT !.at = "scan", !.opened = ask[q].opened,
                             !.todo = ask[q].todo \ {s}, !.doubt = ask[q].doubt]

-----------------------------------------------------------------------------
\* listScripts and refresh: how old the rows are, which sources there are

Open(q) ==
  /\ AskIs(q, "idle") /\ Event
  /\ ask' = [ask EXCEPT ![q] = [Rest EXCEPT !.at = IF q[2] = "load" THEN "age" ELSE "sources",
                                            !.opened = IF q[2] = "load" THEN clock ELSE 0]]
  /\ UNCHANGED <<disk, mapping, row, clock, screen, start, runs, history>>

NewestStale ==        \* a slip: the last scan of any source counts
  LET stamps == {row[x].scannedAt : x \in {y \in Script : row[y] # None}} IN
  \A s \in stamps : clock - s > Ttl

Stale == LET stamps == {row[x].scannedAt : x \in {y \in Script : row[y] # None}} IN
         \/ stamps = {}
         \/ \E oldest \in stamps : clock - oldest > Ttl

CheckAge(q) ==
  /\ AskIs(q, "age")
  /\ Go(q, IF Stale THEN "sources" ELSE "list")
  /\ UNCHANGED <<disk, mapping, row, clock, screen, start, runs, history, events>>

ReadSources(q) ==
  /\ AskIs(q, "sources")
  /\ ask' = [ask EXCEPT ![q].at = "scan", ![q].todo = InArea]
  /\ UNCHANGED <<disk, mapping, row, clock, screen, start, runs, history, events>>

-----------------------------------------------------------------------------
\* rescan: source by source, the runner's listing, then the rows

Scans(s, besides) == {q \in Request \ {besides} :
                        ask[q].at \in {"reply", "upsert", "mark"} /\ ask[q].source = s}

(* The runner lists the directory and reads the head of each script.  One  *)
(* it cannot read, or that will not parse, has no header and stays listed. *)
RunnerScans(q, s, unread) ==
  /\ AskIs(q, "scan") /\ s \in ask[q].todo
  /\ unread \subseteq Held(disk[s])
  /\ IF unread = {} THEN UNCHANGED events ELSE Event
  /\ LET found  == [f \in File |-> IF f \in unread THEN Undeclared ELSE disk[s][f]]
         others == Scans(s, q) IN
     ask' = [p \in Request |->
               IF p = q THEN [ask[q] EXCEPT !.at = "reply", !.source = s, !.found = found,
                                            !.alone = others = {},
                                            !.doubt = @ \cup IF unread = {} THEN {} ELSE {s}]
               ELSE [ask[p] EXCEPT !.alone = @ /\ p \notin others]]
  /\ UNCHANGED <<disk, mapping, row, clock, screen, start, runs, history>>

(* The script VM or the runner did not answer: the source is passed over,  *)
(* and its rows stay as they were.  A listing that was taken and did not   *)
(* arrive in time changed nothing, and is as good as none.                 *)
ScanFails(q, s) ==
  /\ Event
  /\ AskIs(q, "scan") /\ s \in ask[q].todo
  /\ ask' = [ask EXCEPT ![q] = [Passed(q, s) EXCEPT !.doubt = @ \cup {s}]]
  /\ UNCHANGED <<disk, mapping, row, clock, screen, start, runs, history>>

(* The clock is fine enough to tell the arrival of two replies apart.      *)
Receive(q) ==
  /\ AskIs(q, "reply")
  /\ clock' = clock + 1
  /\ ask' = [ask EXCEPT ![q].at = "upsert", ![q].now = clock + 1]
  /\ UNCHANGED <<disk, mapping, row, screen, start, runs, history, events>>

(* The rows the scan saw.  A source that was unmapped meanwhile has no row *)
(* to refer to: the statement fails, and the request with it.              *)
Upsert(q) ==
  LET s == ask[q].source
      seen == Held(ask[q].found) IN
  /\ AskIs(q, "upsert")
  /\ seen = {} \/ mapping[s] = "mapped"
  /\ row' = [x \in Script |->
               IF x[1] = s /\ x[2] \in seen
               THEN [presentAt |-> ask[q].now, scannedAt |-> ask[q].now,
                     criticality |-> ask[q].found[x[2]]]
               ELSE row[x]]
  /\ ask' = Doubting([ask EXCEPT ![q].at = "mark"], s, q)
  /\ UNCHANGED <<disk, mapping, clock, screen, start, runs, history, events>>

UpsertFails(q) ==
  /\ AskIs(q, "upsert")
  /\ Held(ask[q].found) # {} /\ mapping[ask[q].source] # "mapped"
  /\ ask' = [ask EXCEPT ![q] = Rest]
  /\ UNCHANGED <<disk, mapping, row, clock, screen, start, runs, history, events>>

MarkUnlessEmpty(q) == \* a slip: a scan that saw nothing has nothing to compare
  LET s == ask[q].source
      seen == Held(ask[q].found) IN
  /\ AskIs(q, "mark")
  /\ row' = [x \in Script |->
               IF seen # {} /\ x[1] = s /\ x[2] \notin seen /\ row[x] # None
               THEN [row[x] EXCEPT !.scannedAt = ask[q].now] ELSE row[x]]
  /\ last' = [last EXCEPT ![s] = ask[q].found]
  /\ mixed' = IF ask[q].alone THEN mixed \ {s} ELSE mixed \cup {s}
  /\ ask' = Doubting([ask EXCEPT ![q] = Passed(q, s)], s, q)
  /\ UNCHANGED <<disk, mapping, clock, screen, start, runs, events>>

(* The rows it did not see: kept, and no longer present.                   *)
MarkUnseen(q) ==
  LET s == ask[q].source
      unseen == {x \in Script : x[1] = s /\ row[x] # None /\ ask[q].found[x[2]] = None} IN
  /\ AskIs(q, "mark")
  /\ row' = [x \in Script |->
               IF x \in unseen THEN [row[x] EXCEPT !.scannedAt = ask[q].now] ELSE row[x]]
  /\ last' = [last EXCEPT ![s] = ask[q].found]
  /\ mixed' = IF ask[q].alone THEN mixed \ {s} ELSE mixed \cup {s}
  /\ ask' = Doubting([ask EXCEPT ![q] = Passed(q, s)], s, q)
  /\ UNCHANGED <<disk, mapping, clock, screen, start, runs, events>>

-----------------------------------------------------------------------------
\* The answer: listScriptsForArea, and the page that shows it

ListUnawaited(q) ==   \* a slip: the list is read while the rescan goes on
  /\ ask[q].at \in {"list", "scan"}
  /\ ask' = [ask EXCEPT ![q].at = "answered", ![q].rows = row]
  /\ UNCHANGED <<disk, mapping, row, clock, screen, start, runs, history, events>>

ListScripts(q) ==
  /\ \/ AskIs(q, "list")
     \/ AskIs(q, "scan") /\ ask[q].todo = {}
  /\ ask' = [ask EXCEPT ![q].at = "answered", ![q].rows = row]
  /\ UNCHANGED <<disk, mapping, row, clock, screen, start, runs, history, events>>

Show(q) ==
  /\ AskIs(q, "answered")
  /\ screen' = [screen EXCEPT ![q[1]] = ask[q].rows]
  /\ ask' = [ask EXCEPT ![q] = Rest]
  /\ UNCHANGED <<disk, mapping, row, clock, start, runs, history, events>>

-----------------------------------------------------------------------------
\* startRun: the row is looked up, then the run created

PressStart(c, x) ==   \* the button of an entry that is not present is disabled
  /\ start[c] = NoStart /\ Event
  /\ Present(screen[c][x])
  /\ start' = [start EXCEPT ![c] = [script |-> x, shown |-> screen[c][x], read |-> None]]
  /\ UNCHANGED <<disk, mapping, row, clock, ask, screen, runs, history>>

FindAnyScript(c) ==   \* a slip: nobody asks whether it is still there
  /\ start[c] # NoStart /\ start[c].read = None
  /\ LET r == row[start[c].script] IN
     start' = [start EXCEPT ![c] = IF r # None THEN [@ EXCEPT !.read = r] ELSE NoStart]
  /\ UNCHANGED <<disk, mapping, row, clock, ask, screen, runs, history, events>>

FindScript(c) ==      \* no such script, or one that is gone: the start is refused
  /\ start[c] # NoStart /\ start[c].read = None
  /\ LET r == row[start[c].script] IN
     start' = [start EXCEPT ![c] = IF Present(r) THEN [@ EXCEPT !.read = r] ELSE NoStart]
  /\ UNCHANGED <<disk, mapping, row, clock, ask, screen, runs, history, events>>

CreateRun(c) ==       \* runs.script_id refers to the row, or the insert fails
  /\ start[c] # NoStart /\ start[c].read # None
  /\ runs' = IF row[start[c].script] = None THEN runs
             ELSE runs \cup {[script |-> start[c].script, shown |-> start[c].shown,
                              read |-> start[c].read,
                              criticality |-> start[c].read.criticality]}
  /\ start' = [start EXCEPT ![c] = NoStart]
  /\ UNCHANGED <<disk, mapping, row, clock, ask, screen, history, events>>

-----------------------------------------------------------------------------
\* The script owners, the root account, and time

ChangeDisk(s, f, held) ==
  /\ Event
  /\ disk[s][f] # held
  /\ disk' = [disk EXCEPT ![s][f] = held]
  /\ ask' = Doubting(ask, s, None)
  /\ UNCHANGED <<mapping, row, clock, screen, start, runs, history>>

AddSource(s) ==
  /\ Event
  /\ mapping[s] = "new"
  /\ mapping' = [mapping EXCEPT ![s] = "mapped"]
  /\ ask' = Doubting(ask, s, None)
  /\ UNCHANGED <<disk, row, clock, screen, start, runs, history>>

RemoveAnyway(s) ==    \* a slip: nothing refers to the rows that go
  /\ Event
  /\ mapping[s] = "mapped"
  /\ mapping' = [mapping EXCEPT ![s] = "removed"]
  /\ row' = [x \in Script |-> IF x[1] = s THEN None ELSE row[x]]
  /\ UNCHANGED <<disk, clock, ask, screen, start, runs, history>>

(* The scripts of a source go with it, and a run holds on to its script.   *)
RemoveSource(s) ==
  /\ Event
  /\ mapping[s] = "mapped"
  /\ ~\E r \in runs : r.script[1] = s
  /\ mapping' = [mapping EXCEPT ![s] = "removed"]
  /\ row' = [x \in Script |-> IF x[1] = s THEN None ELSE row[x]]
  /\ UNCHANGED <<disk, clock, ask, screen, start, runs, history>>

Tick ==
  /\ Event
  /\ clock' = clock + 1
  /\ UNCHANGED <<disk, mapping, row, ask, screen, start, runs, history>>

-----------------------------------------------------------------------------
Init ==
  /\ disk \in Initial
  /\ mapping = [s \in Source |-> IF s \in Mapped THEN "mapped" ELSE "new"]
  /\ row = Nothing /\ clock = 0
  /\ ask = [q \in Request |-> Rest]
  /\ screen = [c \in Console |-> Nothing]
  /\ start = [c \in Console |-> NoStart]
  /\ runs = {}
  /\ last = [s \in Source |-> Empty] /\ mixed = {}
  /\ events = 0

Serve(q) ==
  \/ CheckAge(q) \/ ReadSources(q) \/ Receive(q) \/ Upsert(q) \/ UpsertFails(q)
  \/ MarkUnseen(q) \/ ListScripts(q) \/ Show(q)
  \/ \E s \in Source : ScanFails(q, s) \/ \E unread \in SUBSET File : RunnerScans(q, s, unread)

Next ==
  \/ Tick
  \/ \E q \in Request : Open(q) \/ Serve(q)
  \/ \E c \in Console : FindScript(c) \/ CreateRun(c) \/ \E x \in Script : PressStart(c, x)
  \/ \E s \in Source : AddSource(s) \/ RemoveSource(s)
                       \/ \E f \in File, held \in Criticality \cup {None} : ChangeDisk(s, f, held)

Spec == Init /\ [][Next]_vars

-----------------------------------------------------------------------------
(* What the variables hold.                                                *)
TypeOK ==
  /\ disk \in [Source -> Directory]
  /\ mapping \in [Source -> {"new", "mapped", "removed"}]
  /\ row \in List /\ clock \in Nat
  /\ ask \in [Request -> Ask]
  /\ screen \in [Console -> List]
  /\ start \in [Console -> Start \cup {NoStart}]
  /\ runs \subseteq [script : Script, shown : Row, read : Row, criticality : Criticality]
  /\ last \in [Source -> Directory] /\ mixed \subseteq Source
  /\ events \in 0..MaxEvents

Shows(rows, s, dir) ==  \* the present entries of a source are those of the directory
  \A f \in File :
    LET r == rows[<<s, f>>] IN
    IF dir[f] = None THEN ~Present(r) ELSE Present(r) /\ r.criticality = dir[f]

(* FA-03.3: an entry is present exactly if the listing that was written    *)
(* last has it, and with the header it had there.  Between the two         *)
(* statements of a replacement that need not be so, nor after two scans of *)
(* the source overlapped; the next scan that runs alone puts it right      *)
(* (replaceSourceScripts, isPresent).                                      *)
CatalogIsTheListing ==
  \A s \in InArea \ mixed :
    (\A q \in Request : AskIs(q, "mark") => ask[q].source # s) =>
      Shows(row, s, last[s])

(* "For the script owner who has just put a new file on the VM and wants   *)
(* to see it now": what a rescan answers is the directory of every source  *)
(* it could read, whatever was in the rows before, unless the directory    *)
(* changed, or another scan wrote the rows, after it was read (refresh).   *)
RescanShowsTheDirectory ==
  \A c \in Console :
    LET a == ask[<<c, "rescan">>] IN
    a.at = "answered" =>
      \A s \in InArea \ a.doubt : Shows(a.rows, s, disk[s])

(* No entry of a list is older than the TTL, however long ago the other    *)
(* entries or the other sources were read: every one was scanned less than *)
(* that before the page asked, unless the scan that was due failed         *)
(* (isStale, lastScannedAt).                                               *)
ListIsFresh ==
  \A c \in Console :
    LET a == ask[<<c, "load">>] IN
    a.at = "answered" =>
      \A x \in Script :
        a.rows[x] # None /\ x[1] \notin a.doubt => a.opened - a.rows[x].scannedAt <= Ttl

(* A run is started only for a script that was there at the last look, and *)
(* its record keeps the criticality the operator was warned of: it may be  *)
(* another one only if the entry was scanned again since the page showed   *)
(* it (startRun, "must not rewrite what the operator was warned about").   *)
StartedAsShown ==
  \A r \in runs :
    /\ Present(r.read)
    /\ r.read.scannedAt = r.shown.scannedAt => r.criticality = r.shown.criticality

(* FA-12: whatever is unmapped and however a scan ends, a run's script     *)
(* keeps its row, so that the history stays readable (the foreign keys of  *)
(* runs and scripts, and that nothing deletes a script).                   *)
RunKeepsItsScript ==
  \A r \in runs : row[r.script] # None /\ mapping[r.script[1]] = "mapped"
================================================================================
