-------------------------------- MODULE Crontab --------------------------------
(***************************************************************************)
(* The crontab of an account on a script VM, as packages/core reads and    *)
(* writes it (ADR-005).  The file is a sequence of lines; the platform     *)
(* owns those between two delimiters.  A line is known by what the parser  *)
(* makes of it: its wording and its spacing are left out, save for one     *)
(* thing.  What cron-parser accepts as an expression (Plain and Extended)  *)
(* is more than CRON_FIELD recognises when the line is read back (Plain).  *)
(***************************************************************************)
EXTENDS Naturals, Sequences, FiniteSets

CONSTANTS
  Command, Plain, Extended,
  Alias        \* for the ids of which another has the digest, that other one

ASSUME ExpressionAssumption == Plain \cap Extended = {}
ASSUME AliasAssumption == /\ DOMAIN Alias \subseteq Command \X Nat
                          /\ \A key \in DOMAIN Alias : Alias[key] \in Command \X Nat

Expression == Plain \cup Extended
Entry == [expression : Expression, command : Command, enabled : BOOLEAN]

Begin  == [is |-> "begin"]      \* MANAGED_BEGIN
End    == [is |-> "end"]        \* MANAGED_END
Blank  == [is |-> "blank"]
Remark == [is |-> "remark"]     \* a comment, an assignment, anything unknown
Job(entry) == [is |-> "job", entry |-> entry]   \* disabled: the same behind a `#`

Line == {Begin, End, Blank, Remark} \cup {Job(e) : e \in Entry}

-----------------------------------------------------------------------------
\* parseCrontab

IsJob(line) == line.is = "job" /\ line.entry.expression \in Plain

InBlock(lines, i) ==     \* the last delimiter above the line opened a block
  \E b \in 1 .. i - 1 : lines[b] = Begin /\ \A e \in b .. i : lines[e] # End

JobsAt(lines)    == {i \in DOMAIN lines : IsJob(lines[i])}
ManagedAt(lines) == {i \in JobsAt(lines) : InBlock(lines, i)}

(* The lines at the places of a set, in file order.                        *)
UpTo(places, i) == Cardinality({j \in places : j <= i})

InOrder(lines, places) ==
  [k \in 1 .. Cardinality(places) |-> lines[CHOOSE i \in places : UpTo(places, i) = k]]

Entries(lines, places) ==
  LET found == InOrder(lines, places) IN [k \in DOMAIN found |-> found[k].entry]

ManagedJobs(lines) == Entries(lines, ManagedAt(lines))

(* What a schedule is known by: a digest of its command and of how many of *)
(* the jobs above it have the same one.  32 bits: two may have the same,   *)
(* and the digest of each class is written as one of its members.          *)
Digest(key) == IF key \in DOMAIN Alias THEN Alias[key] ELSE key

ScheduleId(lines, i) ==
  LET command == lines[i].entry.command
  IN  Digest(<<command, Cardinality({j \in JobsAt(lines) : j < i /\ lines[j].entry.command = command})>>)

ScheduleIds(lines) == {ScheduleId(lines, i) : i \in JobsAt(lines)}

-----------------------------------------------------------------------------
\* writeManagedBlock

FirstAt(lines, line) ==  \* findIndex; 0 when there is none
  IF \E i \in DOMAIN lines : lines[i] = line
  THEN CHOOSE i \in DOMAIN lines : lines[i] = line /\ \A j \in 1 .. i - 1 : lines[j] # line
  ELSE 0

Body(entries) == [k \in DOMAIN entries |-> Job(entries[k])]

Appended(lines, body) ==
  LET last == Len(lines)
      head == IF lines # <<>> /\ lines[last] = Blank THEN SubSeq(lines, 1, last - 1) ELSE lines
  IN  head \o <<Blank, Begin>> \o body \o <<End, Blank>>

ClosingAfter(lines, begin) ==   \* a slip: from the line after it
  LET end == FirstAt(lines, End)
  IN  IF end > begin THEN SubSeq(lines, end + 1, Len(lines)) ELSE <<End, Blank>>

Closing(lines, begin) ==    \* from the closing delimiter on; one is added if there is none
  LET end == FirstAt(lines, End)
  IN  IF end > begin THEN SubSeq(lines, end, Len(lines)) ELSE <<End, Blank>>

WriteManagedBlock(lines, entries) ==
  LET begin == FirstAt(lines, Begin)
  IN  IF begin = 0
      THEN Appended(lines, Body(entries))
      ELSE SubSeq(lines, 1, begin) \o Body(entries) \o Closing(lines, begin)
================================================================================
