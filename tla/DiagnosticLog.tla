---------------------------- MODULE DiagnosticLog ----------------------------
(***************************************************************************)
(* The diagnostics file of the desktop shell                               *)
(* (desktop/electron/diagnostic-log.mjs).  appendElectronDiagnosticEntry,  *)
(* clearElectronDiagnosticLog and pruneElectronDiagnosticLog are called by *)
(* crash and console handlers, by the settings and by the user, without    *)
(* waiting for one another; each queues one operation that reads the file, *)
(* writes all of it under a temporary name and renames that.               *)
(*                                                                         *)
(* Calls are numbered in their order, and an entry has the number of its   *)
(* call.  Entries older than the retention time are those up to horizon.   *)
(***************************************************************************)
EXTENDS Integers, Sequences, SequencesExt, FiniteSetsExt

CONSTANTS MaxCalls,       \* bound: calls
          MaxEntries,     \* MAX_ENTRIES
          MaxLogFailures  \* bound: reads and operations that fail

ASSUME LogAssumption == MaxEntries \in Nat \ {0, 1}

VARIABLES log,       \* the file: a sequence of entries, <<>> when there is none
          logCalls,  \* the calls so far: [kind, at, draft, blind], blind when the read has failed
          horizon,   \* the youngest entry that is too old to keep
          logFailures
logVars == <<log, logCalls, horizon, logFailures>>

LogKind == {"append", "clear", "prune"}
Settled == {"done", "failed"}

LogInit == log = <<>> /\ logCalls = <<>> /\ horizon = 0 /\ logFailures = 0
-----------------------------------------------------------------------------
\* A call with its policy: what is not to be recorded is never queued.
Call(kind) ==
  /\ Len(logCalls) < MaxCalls
  /\ logCalls' = Append(logCalls, [kind |-> kind, at |-> "queued", draft |-> <<>>,
                                  blind |-> FALSE])
  /\ UNCHANGED <<log, horizon, logFailures>>

Advance(i, where, what, blind) ==
  logCalls' = [logCalls EXCEPT ![i].at = where, ![i].draft = what, ![i].blind = blind]

\* The entries that are young enough, in their order.
Young(entries) ==
  LET kept == {k \in DOMAIN entries : entries[k] > horizon}
      place == CHOOSE place \in [1..Cardinality(kept) -> kept] :
                 /\ Range(place) = kept
                 /\ \A i, j \in DOMAIN place : i < j => place[i] < place[j]
  IN  [i \in 1..Cardinality(kept) |-> entries[place[i]]]

\* retainEntries: of those, the last `limit'.
Retained(entries, limit) ==
  LET young == Young(entries)
  IN  SubSeq(young, Max({1, Len(young) - limit + 1}), Len(young))

\* A clear, or a prune that keeps nothing, removes the file; the others read it and write what
\* shall be in it.  A file that cannot be read is taken for an empty one: readElectronDiagnosticLog
\* catches whatever is thrown.
Starts(i, blind) ==
  LET kind == logCalls[i].kind
      seen == IF blind THEN <<>> ELSE log
  IN  /\ blind => kind # "clear" /\ logFailures < MaxLogFailures
      /\ logFailures' = logFailures + (IF blind THEN 1 ELSE 0)
      /\ \/ /\ kind = "clear" \/ (kind = "prune" /\ Retained(seen, MaxEntries) = <<>>)
            /\ Advance(i, "done", <<>>, blind) /\ log' = <<>>
         \/ /\ kind = "append"
            /\ Advance(i, "drafted", Append(Retained(seen, MaxEntries - 1), i), blind)
            /\ UNCHANGED log
         \/ /\ kind = "prune" /\ Retained(seen, MaxEntries) # <<>>
            /\ Advance(i, "drafted", Retained(seen, MaxEntries), blind)
            /\ UNCHANGED log
      /\ UNCHANGED horizon

\* Mutant: an operation starts at once.
Begin_Unqueued(i, blind) == logCalls[i].at = "queued" /\ Starts(i, blind)

\* The operation before has settled.
Begin(i, blind) ==
  /\ logCalls[i].at = "queued"
  /\ i > 1 => logCalls[i - 1].at \in Settled
  /\ Starts(i, blind)

\* rename() of the temporary file.
Move(i) ==
  /\ logCalls[i].at = "drafted"
  /\ log' = logCalls[i].draft /\ Advance(i, "done", <<>>, logCalls[i].blind)
  /\ UNCHANGED <<horizon, logFailures>>

\* A step of it rejects; the queue goes on.
OperationFails(i) ==
  /\ logCalls[i].at \in {"queued", "drafted"} /\ logFailures < MaxLogFailures
  /\ i > 1 => logCalls[i - 1].at \in Settled
  /\ Advance(i, "failed", <<>>, logCalls[i].blind) /\ logFailures' = logFailures + 1
  /\ UNCHANGED <<log, horizon>>

EntriesAge ==
  /\ horizon' \in (horizon + 1)..Len(logCalls)
  /\ UNCHANGED <<log, logCalls, logFailures>>

\* The queue is lost with the process; a new one starts with an empty queue.
ShellDies ==
  /\ \E i \in DOMAIN logCalls : logCalls[i].at \notin Settled
  /\ logCalls' = [i \in DOMAIN logCalls |->
                 [logCalls[i] EXCEPT !.at = IF @ \in Settled THEN @ ELSE "failed"]]
  /\ UNCHANGED <<log, horizon, logFailures>>

LogNext ==
  \/ \E kind \in LogKind : Call(kind)
  \/ \E i \in DOMAIN logCalls : Move(i) \/ OperationFails(i) \/ \E blind \in BOOLEAN : Begin(i, blind)
  \/ EntriesAge \/ ShellDies

LogSpec == LogInit /\ [][LogNext]_logVars
-----------------------------------------------------------------------------
Recorded == {i \in DOMAIN logCalls : logCalls[i].kind = "append" /\ logCalls[i].at = "done"}
Cleared(e) ==
  \E j \in DOMAIN logCalls : j > e /\ logCalls[j].kind = "clear" /\ logCalls[j].at = "done"
Overwritten(e) == \E j \in DOMAIN logCalls : j > e /\ logCalls[j].blind /\ logCalls[j].at = "done"
Younger(e) == {i \in Recorded : i > e}

\* However the calls overlap, and whichever writes fail, an entry whose call has settled is in the
\* file until it is too old, has been cleared by a later call, has MaxEntries entries after it, or
\* a later call succeeds that could not read the file: that call overwrites or removes what it has
\* not seen.  Nothing is in the file that was not recorded, that was cleared or that was
\* overwritten, and nothing twice.
LogRemembers ==
  /\ \A e \in Recorded :
       \/ \E k \in DOMAIN log : log[k] = e
       \/ e <= horizon \/ Cleared(e) \/ Overwritten(e) \/ Cardinality(Younger(e)) >= MaxEntries
  /\ \A k \in DOMAIN log : log[k] \in Recorded /\ ~Cleared(log[k]) /\ ~Overwritten(log[k])
  /\ \A k \in 2..Len(log) : log[k - 1] < log[k]
  /\ Len(log) <= MaxEntries
=============================================================================
