------------------------------- MODULE Sessions -------------------------------
(***************************************************************************)
(* Sessions in Redis and the group mapping they were resolved against.     *)
(*                                                                         *)
(* A login resolves the groups the directory reported; every request reads *)
(* its session and writes it back to extend it; the root account changes   *)
(* the mapping and sweeps over the live sessions (NFR-03).  Each of these  *)
(* is a read, an await and a write, without a lock and without a version.  *)
(* Requests, sweeps and logins of any number of processes interleave.      *)
(***************************************************************************)
EXTENDS Naturals

CONSTANTS
  Session,      \* the ids sessions may be given, each once
  Group, Area,  \* directory groups and areas
  Op,           \* requests in progress at the same time
  Gone,         \* no session under this key, or no session in hand
  MaxChanges,   \* changes of the mapping
  MaxFaults     \* operations that may be cut short

ASSUME GoneAssumption  == Gone \notin Session \cup [groups : SUBSET Group, areas : SUBSET Area]
ASSUME BoundAssumption == MaxChanges \in Nat /\ MaxFaults \in Nat

VARIABLES
  mapping,   \* the entitlements table: which group is entitled to which area
  areas,     \* the areas that exist
  stored,    \* the session of each key in Redis
  issued,    \* the ids that were given out
  aged,      \* the sessions past their absolute lifetime
  op,        \* what each request in progress is doing
  changes, faults,  \* how much of each bound is used up
  past, left, torn  \* history: the mappings that were in force, the sessions
                    \* that were logged out, those an overlap was written to

platform == <<mapping, areas, changes>>
history  == <<past, left, torn>>
vars     == <<platform, stored, issued, aged, op, faults, history>>

Mapping == SUBSET (Group \X Area)
Data    == [groups : SUBSET Group, areas : SUBSET Area]

(* The areas of the groups a session holds; none is a valid outcome.       *)
Resolve(groups, map) == {a \in Area : \E g \in groups : <<g, a>> \in map}

OpAt == {"idle", "store", "put", "drop", "sweep", "scan", "rewrite", "write"}
Work == [at : OpAt, session : Session \cup {Gone}, data : Data \cup {Gone},
         logout : BOOLEAN, map : Mapping, todo : SUBSET Session]
Rest == [at |-> "idle", session |-> Gone, data |-> Gone, logout |-> FALSE,
         map |-> {}, todo |-> {}]

OpIs(q, where) == op[q].at = where
Become(q, w)   == op' = [op EXCEPT ![q] = w]
Go(q, where)   == Become(q, [op[q] EXCEPT !.at = where])
Finish(q)      == Become(q, Rest)
Live(s)        == stored[s] # Gone

(* SET of a session; `meant` is what the operation would write if nothing  *)
(* had happened since it read what it writes from.                         *)
Set(s, data, meant) ==
  /\ stored' = [stored EXCEPT ![s] = data]
  /\ torn' = IF data = meant THEN torn ELSE torn \cup {s}

-----------------------------------------------------------------------------
\* Login: the mapping is read, the areas resolved, then the session stored

Login(q, s, groups) ==
  /\ OpIs(q, "idle") /\ s \notin issued
  /\ issued' = issued \cup {s}
  /\ Become(q, [Rest EXCEPT !.at = "store", !.session = s,
                  !.data = [groups |-> groups, areas |-> Resolve(groups, mapping)]])
  /\ UNCHANGED <<platform, stored, aged, faults, history>>

Store(q) ==
  LET s == op[q].session
      data == op[q].data IN
  /\ OpIs(q, "store")
  /\ Set(s, data, [data EXCEPT !.areas = Resolve(data.groups, mapping)])
  /\ Finish(q)
  /\ UNCHANGED <<platform, issued, aged, faults, past, left>>

-----------------------------------------------------------------------------
\* Every other request: readSession, and for a logout destroySession

Read(q, s, logout) ==   \* past the absolute lifetime the key is deleted instead
  /\ OpIs(q, "idle") /\ Live(s)
  /\ Become(q, [Rest EXCEPT !.at = IF s \in aged THEN "drop" ELSE "put",
                  !.session = s, !.data = stored[s],
                  !.logout = logout /\ s \notin aged])
  /\ UNCHANGED <<platform, stored, issued, aged, faults, history>>

Extend(q) ==       \* SET whatever is there by now, even nothing
  /\ OpIs(q, "put")
  /\ Set(op[q].session, op[q].data, stored[op[q].session])
  /\ IF op[q].logout THEN Go(q, "drop") ELSE Finish(q)
  /\ UNCHANGED <<platform, issued, aged, faults, past, left>>

DropNothing(q) ==  \* a slip: the cookie is cleared and the key is not
  /\ OpIs(q, "drop")
  /\ left' = IF op[q].logout THEN left \cup {op[q].session} ELSE left
  /\ Finish(q)
  /\ UNCHANGED <<platform, stored, issued, aged, faults, past, torn>>

Drop(q) ==         \* DEL
  /\ OpIs(q, "drop")
  /\ stored' = [stored EXCEPT ![op[q].session] = Gone]
  /\ left' = IF op[q].logout THEN left \cup {op[q].session} ELSE left
  /\ Finish(q)
  /\ UNCHANGED <<platform, issued, aged, faults, past, torn>>

-----------------------------------------------------------------------------
\* Administration: change the mapping, record it, re-entitle the live sessions

Change(q, map) ==
  /\ OpIs(q, "idle") /\ changes < MaxChanges
  /\ changes' = changes + 1
  /\ mapping' = map
  /\ past' = past \cup {map}
  /\ UNCHANGED <<stored, issued, aged, faults, left, torn>>

Grant(q, g, a) ==  \* idempotent, and swept in either case
  /\ a \in areas
  /\ Change(q, mapping \cup {<<g, a>>})
  /\ Go(q, "sweep")
  /\ UNCHANGED areas

RevokeAndRest(q, g, a) ==   \* a slip: it shows at the next login
  /\ a \in areas /\ <<g, a>> \in mapping
  /\ Change(q, mapping \ {<<g, a>>})
  /\ UNCHANGED <<areas, op>>

Revoke(q, g, a) ==
  /\ a \in areas /\ <<g, a>> \in mapping
  /\ Change(q, mapping \ {<<g, a>>})
  /\ Go(q, "sweep")
  /\ UNCHANGED areas

DeleteArea(q, a) == \* its entitlements go with it
  /\ a \in areas
  /\ Change(q, {p \in mapping : p[2] # a})
  /\ areas' = areas \ {a}
  /\ Go(q, "sweep")

(* The mapping is read once for the whole sweep.                           *)
ReadMapping(q) ==
  /\ OpIs(q, "sweep")
  /\ Become(q, [op[q] EXCEPT !.at = "scan", !.map = mapping])
  /\ UNCHANGED <<platform, stored, issued, aged, faults, history>>

Moved(s, map) == Live(s) /\ stored[s].areas # Resolve(stored[s].groups, map)

ScanOldHands(q) ==  \* a slip: sessions that can see nothing are passed over
  /\ OpIs(q, "scan")
  /\ Become(q, [op[q] EXCEPT !.at = "rewrite",
       !.todo = {s \in Session : Moved(s, op[q].map) /\ stored[s].areas # {}}])
  /\ UNCHANGED <<platform, stored, issued, aged, faults, history>>

Scan(q) ==
  /\ OpIs(q, "scan")
  /\ Become(q, [op[q] EXCEPT !.at = "rewrite",
       !.todo = {s \in Session : Moved(s, op[q].map)}])
  /\ UNCHANGED <<platform, stored, issued, aged, faults, history>>

(* updateSessionAreas, one session after the other: GET, and if it is      *)
(* still there SET.                                                        *)
Pick(q, s) ==
  /\ OpIs(q, "rewrite") /\ s \in op[q].todo
  /\ Become(q, IF Live(s)
               THEN [op[q] EXCEPT !.at = "write", !.session = s, !.data = stored[s],
                                  !.todo = @ \ {s}]
               ELSE [op[q] EXCEPT !.todo = @ \ {s}])
  /\ UNCHANGED <<platform, stored, issued, aged, faults, history>>

Merged(data, new)   == [data EXCEPT !.areas = @ \cup new]   \* a slip: only adds
Replaced(data, new) == [data EXCEPT !.areas = new]

Write(q) ==
  LET s == op[q].session
      data == op[q].data
      now == IF Live(s) THEN Replaced(stored[s], Resolve(stored[s].groups, mapping)) ELSE Gone IN
  /\ OpIs(q, "write")
  /\ Set(s, Replaced(data, Resolve(data.groups, op[q].map)), now)
  /\ Become(q, [op[q] EXCEPT !.at = "rewrite", !.session = Gone, !.data = Gone])
  /\ UNCHANGED <<platform, issued, aged, faults, past, left>>

EndSweep(q) ==
  /\ OpIs(q, "rewrite") /\ op[q].todo = {}
  /\ Finish(q)
  /\ UNCHANGED <<platform, stored, issued, aged, faults, history>>

-----------------------------------------------------------------------------
\* What nobody asked for

CutShort(q) ==     \* a statement throws, or the process ends
  /\ ~OpIs(q, "idle") /\ faults < MaxFaults
  /\ faults' = faults + 1
  /\ Finish(q)
  /\ UNCHANGED <<platform, stored, issued, aged, history>>

ExpireIdle(s) ==   \* Redis drops the key
  /\ Live(s)
  /\ stored' = [stored EXCEPT ![s] = Gone]
  /\ UNCHANGED <<platform, issued, aged, op, faults, history>>

GrowOld(s) ==
  /\ Live(s) /\ s \notin aged
  /\ aged' = aged \cup {s}
  /\ UNCHANGED <<platform, stored, issued, op, faults, history>>

-----------------------------------------------------------------------------

Init ==
  /\ mapping \in Mapping /\ areas = Area
  /\ stored = [s \in Session |-> Gone] /\ issued = {} /\ aged = {}
  /\ op = [q \in Op |-> Rest]
  /\ changes = 0 /\ faults = 0
  /\ past = {mapping} /\ left = {} /\ torn = {}

Carry(q) ==        \* an operation that was begun goes on
  \/ Store(q) \/ Extend(q) \/ Drop(q)
  \/ ReadMapping(q) \/ Scan(q) \/ Write(q) \/ EndSweep(q)
  \/ \E s \in Session : Pick(q, s)

Begin(q) ==
  \/ \E s \in Session, groups \in SUBSET Group : Login(q, s, groups)
  \/ \E s \in Session, logout \in BOOLEAN : Read(q, s, logout)
  \/ \E g \in Group, a \in Area : Grant(q, g, a) \/ Revoke(q, g, a)
  \/ \E a \in Area : DeleteArea(q, a)

Next ==
  \/ \E q \in Op : Begin(q) \/ Carry(q) \/ CutShort(q)
  \/ \E s \in Session : ExpireIdle(s) \/ GrowOld(s)

Spec == Init /\ [][Next]_vars

(* A request that was begun is carried on; nobody has to begin one.        *)
FairSpec == Spec /\ \A q \in Op : WF_vars(Carry(q))

-----------------------------------------------------------------------------
\* Properties

TypeOK ==
  /\ areas \subseteq Area /\ mapping \subseteq Group \X areas
  /\ stored \in [Session -> Data \cup {Gone}]
  /\ issued \subseteq Session /\ aged \subseteq Session
  /\ op \in [Op -> Work]
  /\ changes \in Nat /\ faults \in Nat
  /\ past \subseteq Mapping /\ left \subseteq Session /\ torn \subseteq Session

Stale(s) == Moved(s, mapping)

Sweeping(q) == op[q].at \in {"sweep", "scan", "rewrite", "write"}

(* The areas of a session are those of one mapping that was in force, never *)
(* a mixture and never more than was granted at once, whichever logins,    *)
(* requests and sweeps overlapped (authorization.ts, NFR-03).              *)
AreasWereGranted ==
  \A s \in Session : Live(s) =>
    \E map \in past : stored[s].areas = Resolve(stored[s].groups, map)

(* Once no sweep is under way, and if none was cut short, a live session   *)
(* shows what the mapping says, unless two operations overlapped on it     *)
(* (areaService.ts: change the mapping, record it, re-entitle).            *)
StaleOnlyByOverlap ==
  (faults = 0 /\ \A q \in Op : ~Sweeping(q)) => \A s \in Session : Stale(s) => s \in torn

(* A session that was logged out does not come back, unless a request or a *)
(* sweep had read it before (authService.logout, destroySession).          *)
LoggedOutStaysOut == \A s \in left : Live(s) => s \in torn

(* A session that shows areas the mapping no longer says is corrected, if  *)
(* nothing was cut short and nothing overlapped (NFR-03).                  *)
RevocationTakesEffect ==
  \A s \in Session : Stale(s) ~> ~Stale(s) \/ faults > 0 \/ s \in torn

=============================================================================
