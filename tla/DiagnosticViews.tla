---------------------------- MODULE DiagnosticViews ----------------------------
(***************************************************************************)
(* What the diagnostics tool shows of the cached diagnostics               *)
(* (internal/tools/diagnostics.go) and the comparison with the last        *)
(* snapshot (internal/lsp/client.go).                                      *)
(*                                                                         *)
(* A diagnostic is [at, code, sev]: at stands for line, column and         *)
(* message, code for code and source (NoCode if there is none), sev for    *)
(* the severity, 1 for an error; 0 if the server gave none.                *)
(*                                                                         *)
(* A file is what a view finds of it: is there a server for it (routed),   *)
(* could it be read and sent (synced), its diagnostics now and in the last *)
(* snapshot (before), the places the server offers a fix for (fixes),      *)
(* whether the server was indexing before the file was synchronised and    *)
(* is after it (indexed, indexing).  A client is a sequence of files, in   *)
(* the order in which it lists them.  An answer is a sequence of entries,  *)
(* one for each file it speaks of.                                         *)
(***************************************************************************)
EXTENDS Selections, SequencesExt

NoCode == "no code"

(* An empty filter lets everything pass; a diagnostic without a code or    *)
(* without a severity is never filtered out.                               *)
FilterDiagnostics(ds, filter) ==
  Filtered(ds, LAMBDA d : /\ filter.min > 0 => d.sev <= filter.min
                          /\ d.code # NoCode => d.code \notin filter.exclude)

Key(d) == <<d.at, d.code>>

Times(ds, key) == Cardinality({i \in 1..Len(ds) : Key(ds[i]) = key})

(* Seeded fault: a diagnostic that was there once is never new.            *)
UnknownIn(ds, others) ==
  Chosen(ds, {i \in 1..Len(ds) : Times(others, Key(ds[i])) = 0})

(* The counters of the two maps: each of the others answers for one of the *)
(* same key, the first of them first.                                      *)
Unmatched(ds, others) ==
  Chosen(ds, {i \in 1..Len(ds) :
                Times(SubSeq(ds, 1, i), Key(ds[i])) > Times(others, Key(ds[i]))})

ComputeDiagnosticDiff(previous, current) ==
  [new |-> Unmatched(current, previous), resolved |-> Unmatched(previous, current)]

Changes(f, filter) ==
  LET diff == ComputeDiagnosticDiff(f.before, f.now)
  IN  [new |-> FilterDiagnostics(diff.new, filter), resolved |-> FilterDiagnostics(diff.resolved, filter)]

(* A limit of 0 or less is none.                                           *)
Limited(ds, limit) == IF limit > 0 /\ Len(ds) > limit THEN SubSeq(ds, 1, limit) ELSE ds

(* Seeded fault: the resolved ones are limited by themselves.              *)
LimitEach(diff, limit) ==
  [new |-> Limited(diff.new, limit), resolved |-> Limited(diff.resolved, limit)]

(* The new ones first; the resolved ones have what is left of the limit.   *)
LimitDiff(diff, limit) ==
  IF limit <= 0 \/ Len(diff.new) + Len(diff.resolved) <= limit THEN diff
  ELSE [new |-> Limited(diff.new, limit),
        resolved |-> IF Len(diff.new) >= limit THEN <<>>
                     ELSE Limited(diff.resolved, limit - Len(diff.new))]

(* The server is asked once for the fixes of all that is shown; its        *)
(* answer names places, without the code.                                  *)
GetFixableDiagnostics(f, ds) == IF ds = <<>> THEN {} ELSE f.fixes

ConvertDiagnostic(d, fixable) == [diag |-> d, fixable |-> d.at \in fixable]

Converted(ds, fixable) == [i \in 1..Len(ds) |-> ConvertDiagnostic(ds[i], fixable)]

ErrorEntry == [error |-> TRUE]
NothingEntry == [error |-> FALSE, nothing |-> TRUE]

-----------------------------------------------------------------------------
(* The views as text.  The head of a file counts its diagnostics before    *)
(* the limit, that of a diff its changes after it; a notice tells of both. *)

FileText(ds, limit, warned) ==
  [error |-> FALSE, nothing |-> FALSE, count |-> Len(ds), shown |-> Limited(ds, limit),
   notice |-> limit > 0 /\ Len(ds) > limit, warned |-> warned]

DiffText(diff, limit, warned) ==
  LET cut == LimitDiff(diff, limit)
  IN  [error |-> FALSE, nothing |-> FALSE, new |-> cut.new, resolved |-> cut.resolved,
       notice |-> limit > 0 /\ Len(diff.new) + Len(diff.resolved) > limit, warned |-> warned]

GetDiagnosticsForFile(f, limit, filter) ==
  LET ds == FilterDiagnostics(f.now, filter)
  IN  IF ~f.synced THEN ErrorEntry ELSE IF ds = <<>> THEN NothingEntry
      ELSE FileText(ds, limit, f.indexing)

GetDiagnosticDiffForFile(f, limit, filter) ==
  LET diff == Changes(f, filter)
  IN  IF ~f.synced THEN ErrorEntry ELSE IF diff.new = <<>> /\ diff.resolved = <<>> THEN NothingEntry
      ELSE DiffText(diff, limit, f.indexing)

(* The entry of a file, for each file with something to show.              *)
ForEachFile(clients, Shows(_), Entry(_)) ==
  LET files == Filtered(Flattened(clients), Shows)
  IN  [i \in 1..Len(files) |-> Entry(files[i])]

(* Files without diagnostics are not in the copy of the cache.             *)
GetAllDiagnostics(clients, limit, filter) ==
  ForEachFile(clients, LAMBDA f : FilterDiagnostics(f.now, filter) # <<>>,
              LAMBDA f : FileText(FilterDiagnostics(f.now, filter), limit, FALSE))

HasChanges(f, filter) == Changes(f, filter).new # <<>> \/ Changes(f, filter).resolved # <<>>

GetAllDiagnosticDiffs(clients, limit, filter) ==
  ForEachFile(clients, LAMBDA f : HasChanges(f, filter),
              LAMBDA f : DiffText(Changes(f, filter), limit, FALSE))

(* One section for each file asked for, in the order given.                *)
GetDiagnosticsForFiles(files, limit, showDiff, filter) ==
  [i \in 1..Len(files) |->
    IF ~files[i].routed THEN ErrorEntry
    ELSE IF showDiff THEN GetDiagnosticDiffForFile(files[i], limit, filter)
    ELSE GetDiagnosticsForFile(files[i], limit, filter)]

-----------------------------------------------------------------------------
(* The views as JSON.                                                      *)

FileJSON(f, ds, limit) ==
  LET cut == Limited(ds, limit)
  IN  [error |-> FALSE, nothing |-> FALSE, count |-> Len(ds), truncated |-> limit > 0 /\ Len(ds) > limit,
       shown |-> Converted(cut, GetFixableDiagnostics(f, cut))]

(* No count and no mark of truncation.                                     *)
DiffJSON(f, diff, limit) ==
  LET cut == LimitDiff(diff, limit)
      fixable == GetFixableDiagnostics(f, cut.new \o cut.resolved)
  IN  [error |-> FALSE, nothing |-> FALSE,
       new |-> Converted(cut.new, fixable), resolved |-> Converted(cut.resolved, fixable)]

GetDiagnosticsForFileJSON(f, limit, filter) ==
  IF ~f.synced THEN ErrorEntry ELSE FileJSON(f, FilterDiagnostics(f.now, filter), limit)

GetDiagnosticDiffForFileJSON(f, limit, filter) ==
  IF ~f.synced THEN ErrorEntry ELSE DiffJSON(f, Changes(f, filter), limit)

GetAllDiagnosticsJSON(clients, limit, filter) ==
  ForEachFile(clients, LAMBDA f : FilterDiagnostics(f.now, filter) # <<>>,
              LAMBDA f : FileJSON(f, FilterDiagnostics(f.now, filter), limit))

GetAllDiagnosticDiffsJSON(clients, limit, filter) ==
  ForEachFile(clients, LAMBDA f : HasChanges(f, filter),
              LAMBDA f : DiffJSON(f, Changes(f, filter), limit))

(* Whether a server is indexing is read before the file is synchronised    *)
(* and waited for; the views of one file read it afterwards.               *)
GetDiagnosticsForFilesJSON(files, limit, showDiff, filter) ==
  [files |-> [i \in 1..Len(files) |->
     IF ~files[i].routed \/ ~files[i].synced THEN ErrorEntry
     ELSE IF showDiff THEN DiffJSON(files[i], Changes(files[i], filter), limit)
     ELSE FileJSON(files[i], FilterDiagnostics(files[i].now, filter), limit)],
   indexing |-> \E i \in 1..Len(files) : files[i].routed /\ files[i].indexed]

-----------------------------------------------------------------------------
(* The files of a directory that are asked for.  An entry is [dirs, kind]: *)
(* the kinds of the directories above it, the one asked for included (one  *)
(* that is itself named "build" has none), and its own.                    *)

CollectFilesFromDirectory(entries) ==
  SelectSeq(entries, LAMBDA e : /\ \A i \in 1..Len(e.dirs) : e.dirs[i] \notin {"hidden", "excluded"}
                                /\ e.kind = "source")
=============================================================================
