----------------------------- MODULE PolicySync -----------------------------
(***************************************************************************)
(* The RBAC policy pipeline.  OAS is the authority: admin requests change  *)
(* the rbac_policies table and then rewrite configs/rbac_policy.csv; the   *)
(* BOS process polls that file's modification time and reloads its rules.  *)
(* The two processes share nothing but the file, which OAS rewrites in     *)
(* place (truncate, then write) and BOS reads in more than one read(2).    *)
(*                                                                         *)
(* A policy line is a natural number, its rank in the CSV's                *)
(* ORDER BY subject, resource; the ranks stand for the bytes before it.    *)
(***************************************************************************)
EXTENDS Naturals, FiniteSets

CONSTANTS
  Rules,       \* the policy lines that admins and the seed may author
  SeedRules,   \* the lines SeedRBACPolicies creates on an empty table
  Torn,        \* a line glued together from two versions of the file
  Rows,        \* primary keys of rbac_policies
  Workers,     \* concurrent OAS requests; one of them is the boot thread
  Boot,        \* the thread that runs main() before the server listens
  FineClock,   \* TRUE: every write gets an mtime of its own
  MaxRequests, \* bound: admin requests that change something
  MaxFaults    \* bound: crashes, and failed file and database operations

ASSUME RulesAssumption ==
  /\ Rules \subseteq Nat /\ Rules # {} /\ SeedRules \subseteq Rules /\ Torn \notin Rules
ASSUME RowsAssumption == Rows \subseteq Nat /\ Rows # {}
ASSUME BootAssumption == Boot \in Workers
ASSUME ClockAssumption == FineClock \in BOOLEAN
ASSUME BoundsAssumption == MaxRequests \in Nat /\ MaxFaults \in Nat

VARIABLES
  db,       \* rbac_policies: row -> [st, rule]
  seeds,    \* the seed lines main() has still to insert
  oas,      \* "down", "seeding" or "up"
  pc,       \* where each OAS thread is
  loaded,   \* the key of the row an update has read, before it saves it back
  snap,     \* the lines a regeneration has read from the table
  file,     \* the CSV: exists, lines, mtime, gen (number of writes, a ghost)
  bos,      \* the BOS loader: where it is, the mtime it saw, what it has read
  rules,    \* FileRBACEnforcer.rules
  lastMod,  \* FileRBACEnforcer.lastMod
  authored, \* history: the lines that were ever active in the table
  budget    \* what is left of the two bounds

bosVars == <<bos, rules, lastMod>>
vars == <<db, seeds, oas, pc, loaded, snap, file, bos, rules, lastMod, authored, budget>>

-----------------------------------------------------------------------------
Lines == Rules \cup {Torn}
Row == [st : {"none", "active", "inactive", "deleted"}, rule : Rules]

\* Stand-ins where there is no row: their contents do not matter.
Blank == CHOOSE r \in Rules : TRUE
NoRow == CHOOSE i \in Rows : TRUE

Active(d) == {d[i].rule : i \in {j \in Rows : d[j].st = "active"}}
Stored(d) == {i \in Rows : d[i].st \in {"active", "inactive"}}

\* The lines of S before byte position k, and what may be left of S past the
\* end of something written over its beginning.
Positions == Rules \cup {r + 1 : r \in Rules}
Before(S, k) == {r \in S \ {Torn} : r < k}
Tails(S) == {S \ Before(S, k) : k \in Positions} \cup {{}}

\* S written from the start of the file, over the bytes of another writer:
\* whatever those reach beyond S stays, the line at the seam cut in two.
Overwrite(S) ==
  IF file.lines = {} THEN {S}
  ELSE {S \cup over \cup seam : over \in Tails(file.lines), seam \in {{}, {Torn}}}

\* The primary key an INSERT takes.
NextRow(i) == db[i].st = "none" /\ \A j \in Rows : db[j].st = "none" => i <= j

Quiet == \A w \in Workers : pc[w] = "idle"

Spend(b) == budget[b] > 0 /\ budget' = [budget EXCEPT ![b] = @ - 1]

\* Every change of the file in place stamps its inode with the clock.
WriteFile(S) ==
  \E m \in (IF FineClock THEN {file.mtime + 1} ELSE {file.mtime, file.mtime + 1}) :
    file' = [exists |-> TRUE, lines |-> S, mtime |-> m, gen |-> file.gen + 1]

\* Commits a new table; whatever it makes active has been authored.
Commit(d) == db' = d /\ authored' = authored \cup Active(d)

\* The response goes out; the boot thread goes on to listen for requests.
Finish(w) ==
  /\ pc' = [pc EXCEPT ![w] = "idle"]
  /\ oas' = IF w = Boot THEN "up" ELSE oas
  /\ snap' = [snap EXCEPT ![w] = {}]

-----------------------------------------------------------------------------
(* OAS: the admin handlers of handlers/rbac.go.                            *)

\* A request enters the server: it needs a free thread and spends the bound.
Accept(w) == oas = "up" /\ w # Boot /\ pc[w] = "idle" /\ Spend("requests")

\* Mutant: the status is stored under a word no query looks for.
CreateRBACPolicy_Word(w) ==
  /\ Accept(w)
  /\ \E i \in Rows, r \in Rules, st \in {"enabled", "inactive"} :
       /\ NextRow(i)
       /\ Commit([db EXCEPT ![i] = [st |-> st, rule |-> r]])
  /\ pc' = [pc EXCEPT ![w] = "find"]
  /\ UNCHANGED <<seeds, oas, loaded, snap, file, bosVars>>

CreateRBACPolicy(w) ==
  /\ Accept(w)
  /\ \E i \in Rows, r \in Rules, st \in {"active", "inactive"} :
       /\ NextRow(i)
       /\ Commit([db EXCEPT ![i] = [st |-> st, rule |-> r]])
  /\ pc' = [pc EXCEPT ![w] = "find"]
  /\ UNCHANGED <<seeds, oas, loaded, snap, file, bosVars>>

\* UpdateRBACPolicy reads the whole row, overlays the body on it and saves
\* the whole row back: two statements, with other requests in between.
UpdateRBACPolicy_First(w) ==
  /\ Accept(w)
  /\ \E i \in Stored(db) : loaded' = [loaded EXCEPT ![w] = i]
  /\ pc' = [pc EXCEPT ![w] = "save"]
  /\ UNCHANGED <<seeds, db, oas, snap, file, bosVars, authored>>

\* Mutant: the handler forgets to regenerate the CSV.
UpdateRBACPolicy_Save_NoSync(w) ==
  /\ pc[w] = "save"
  /\ \E r \in Rules, st \in {"active", "inactive"} :
       Commit([db EXCEPT ![loaded[w]] = [st |-> st, rule |-> r]])
  /\ pc' = [pc EXCEPT ![w] = "idle"] /\ loaded' = [loaded EXCEPT ![w] = NoRow]
  /\ UNCHANGED <<seeds, oas, snap, file, bosVars, budget>>

\* The body may replace any column, and the others are as First read them:
\* together, any line and either status.  gorm's Save falls back to an upsert
\* when its UPDATE matches no live row: one deleted since First comes back.
UpdateRBACPolicy_Save(w) ==
  /\ pc[w] = "save"
  /\ \E r \in Rules, st \in {"active", "inactive"} :
       Commit([db EXCEPT ![loaded[w]] = [st |-> st, rule |-> r]])
  /\ pc' = [pc EXCEPT ![w] = "find"] /\ loaded' = [loaded EXCEPT ![w] = NoRow]
  /\ UNCHANGED <<seeds, oas, snap, file, bosVars, budget>>

\* The error of Save is not looked at either.
UpdateRBACPolicy_SaveFails(w) ==
  /\ pc[w] = "save" /\ Spend("faults")
  /\ pc' = [pc EXCEPT ![w] = "find"] /\ loaded' = [loaded EXCEPT ![w] = NoRow]
  /\ UNCHANGED <<seeds, db, oas, snap, file, bosVars, authored>>

\* Mutant: the handler forgets to regenerate the CSV.
DeleteRBACPolicy_NoSync(w) ==
  /\ Accept(w)
  /\ \E i \in Rows : Commit(IF i \in Stored(db) THEN [db EXCEPT ![i].st = "deleted"] ELSE db)
  /\ UNCHANGED <<seeds, oas, pc, loaded, snap, file, bosVars>>

\* An id that matches no row is not an error: the CSV is rewritten all the same.
DeleteRBACPolicy(w) ==
  /\ Accept(w)
  /\ \E i \in Rows : Commit(IF i \in Stored(db) THEN [db EXCEPT ![i].st = "deleted"] ELSE db)
  /\ pc' = [pc EXCEPT ![w] = "find"]
  /\ UNCHANGED <<seeds, oas, loaded, snap, file, bosVars>>

\* Regenerates without a change; so does a delete whose statement fails, its
\* error not looked at.
SyncRBAC(w) ==
  /\ Accept(w)
  /\ pc' = [pc EXCEPT ![w] = "find"]
  /\ UNCHANGED <<seeds, db, oas, loaded, snap, file, bosVars, authored>>

-----------------------------------------------------------------------------
(* OAS: RegeneratePolicyCSV, in the three system calls it makes.           *)

\* Mutant: the status filter is dropped.
Selected_AnyStatus(d) == {d[i].rule : i \in Stored(d)}

\* The lines a regeneration selects: live rows whose status is active.
Selected(d) == Active(d)

Regenerate_Find(w) ==
  /\ pc[w] = "find"
  /\ snap' = [snap EXCEPT ![w] = Selected(db)]
  /\ pc' = [pc EXCEPT ![w] = "open"]
  /\ UNCHANGED <<seeds, db, oas, loaded, file, bosVars, authored, budget>>

\* The error of Find is not looked at: the regeneration goes on with no rows.
Regenerate_FindFails(w) ==
  /\ pc[w] = "find" /\ Spend("faults")
  /\ snap' = [snap EXCEPT ![w] = {}]
  /\ pc' = [pc EXCEPT ![w] = "open"]
  /\ UNCHANGED <<seeds, db, oas, loaded, file, bosVars, authored>>

\* os.WriteFile opens with O_TRUNC ...
Regenerate_Truncate(w) ==
  /\ pc[w] = "open"
  /\ WriteFile({})
  /\ pc' = [pc EXCEPT ![w] = "write"]
  /\ UNCHANGED <<seeds, db, oas, loaded, snap, bosVars, authored, budget>>

\* ... and writes from the start of the file, which is no longer empty when
\* another request has written since the truncation.
Regenerate_Write(w) ==
  /\ pc[w] = "write"
  /\ \E text \in Overwrite(snap[w]) : WriteFile(text)
  /\ Finish(w)
  /\ UNCHANGED <<seeds, db, loaded, bosVars, authored, budget>>

\* A failed open leaves the file alone, a failed write (disk full) leaves the
\* beginning of the new text; both are logged and the handler still answers OK.
Regenerate_Fails(w) ==
  /\ Spend("faults")
  /\ \/ pc[w] = "open" /\ UNCHANGED file
     \/ /\ pc[w] = "write"
        /\ \E k \in Positions : \E text \in Overwrite(Before(snap[w], k)) : WriteFile(text)
  /\ Finish(w)
  /\ UNCHANGED <<seeds, db, loaded, bosVars, authored>>

-----------------------------------------------------------------------------
(* OAS: crash and boot.                                                    *)

Crash ==
  /\ oas # "down" /\ Spend("faults")
  /\ oas' = "down" /\ seeds' = {}
  /\ pc' = [w \in Workers |-> "idle"] /\ snap' = [w \in Workers |-> {}]
  /\ loaded' = [w \in Workers |-> NoRow]
  /\ UNCHANGED <<db, file, bosVars, authored>>

\* main(): SeedRBACPolicies does nothing at all when the table has a row.
StartOAS ==
  /\ oas = "down"
  /\ IF Stored(db) = {}
     THEN oas' = "seeding" /\ seeds' = SeedRules
     ELSE oas' = "up" /\ UNCHANGED seeds
  /\ UNCHANGED <<db, pc, loaded, snap, file, bosVars, authored, budget>>

\* The seed rows are created one statement at a time, in any order here ...
SeedRBACPolicies_Create(r) ==
  /\ oas = "seeding" /\ r \in seeds
  /\ seeds' = seeds \ {r}
  /\ \E i \in Rows :
       /\ NextRow(i)
       /\ Commit([db EXCEPT ![i] = [st |-> "active", rule |-> r]])
  /\ UNCHANGED <<oas, pc, loaded, snap, file, bosVars, budget>>

\* ... an error of Create skips one of them ...
SeedRBACPolicies_CreateFails(r) ==
  /\ oas = "seeding" /\ r \in seeds /\ Spend("faults")
  /\ seeds' = seeds \ {r}
  /\ UNCHANGED <<db, oas, pc, loaded, snap, file, bosVars, authored>>

\* ... and the CSV is written after the last.
SeedRBACPolicies_Done ==
  /\ oas = "seeding" /\ seeds = {} /\ pc[Boot] = "idle"
  /\ pc' = [pc EXCEPT ![Boot] = "find"]
  /\ UNCHANGED <<db, oas, loaded, snap, file, bosVars, seeds, authored, budget>>

-----------------------------------------------------------------------------
(* BOS: FileRBACEnforcer.                                                  *)

\* NewFileRBACEnforcer: refuse to start without a policy file.
StartBOS ==
  /\ bos.pc = "down" /\ file.exists
  /\ bos' = [bos EXCEPT !.pc = "stat"]
  /\ rules' = {} /\ lastMod' = 0
  /\ UNCHANGED <<seeds, db, oas, pc, loaded, snap, file, authored, budget>>

\* A tick of WatchFile: Reload compares modification times for equality.
Reload ==
  /\ bos.pc = "idle" /\ file.mtime # lastMod
  /\ bos' = [bos EXCEPT !.pc = "stat"]
  /\ UNCHANGED <<seeds, db, oas, pc, loaded, snap, file, rules, lastMod, authored, budget>>

\* loadPolicy stats the file itself, before it opens it.
LoadPolicy_Stat ==
  /\ bos.pc = "stat"
  /\ bos' = [bos EXCEPT !.pc = "scan", !.seen = file.mtime]
  /\ UNCHANGED <<seeds, db, oas, pc, loaded, snap, file, rules, lastMod, authored, budget>>

\* The scanner's first read returns the lines up to some byte position.
LoadPolicy_Scan ==
  /\ bos.pc = "scan"
  /\ \E k \in Positions :
       bos' = [bos EXCEPT !.pc = "rest", !.got = Before(file.lines, k),
                          !.ahead = file.lines \ Before(file.lines, k), !.gen = file.gen]
  /\ UNCHANGED <<seeds, db, oas, pc, loaded, snap, file, rules, lastMod, authored, budget>>

\* What the scanner's next read returns: what was ahead of it, unless the file
\* was written since; then the new text from the old offset on.
NextRead ==
  IF file.gen = bos.gen THEN {bos.ahead}
  ELSE {t \cup seam : t \in Tails(file.lines), seam \in {{}, {Torn}}}

\* Mutant: the modification time is taken after the scan.
LoadPolicy_Publish_StatLate ==
  /\ bos.pc = "rest"
  /\ \E more \in NextRead : rules' = bos.got \cup more
  /\ lastMod' = file.mtime
  /\ bos' = [bos EXCEPT !.pc = "idle", !.got = {}, !.ahead = {}, !.gen = 0]
  /\ UNCHANGED <<seeds, db, oas, pc, loaded, snap, file, authored, budget>>

\* End of file: publish the rules and the modification time under the lock.
LoadPolicy_Publish ==
  /\ bos.pc = "rest"
  /\ \E more \in NextRead : rules' = bos.got \cup more
  /\ lastMod' = bos.seen
  /\ bos' = [bos EXCEPT !.pc = "idle", !.got = {}, !.ahead = {}, !.gen = 0]
  /\ UNCHANGED <<seeds, db, oas, pc, loaded, snap, file, authored, budget>>

\* Mutant: the modification time is remembered although the scan failed.
LoadPolicy_Fails_Remembered ==
  /\ bos.pc \in {"stat", "scan", "rest"} /\ Spend("faults")
  /\ bos' = [bos EXCEPT !.pc = IF lastMod = 0 THEN "down" ELSE "idle",
                        !.got = {}, !.ahead = {}, !.gen = 0]
  /\ lastMod' = bos.seen
  /\ UNCHANGED <<seeds, db, oas, pc, loaded, snap, file, rules, authored>>

\* An open or scan error: the watcher keeps the old rules and tries again at
\* the next tick; at boot it is fatal.
LoadPolicy_Fails ==
  /\ bos.pc \in {"stat", "scan", "rest"} /\ Spend("faults")
  /\ bos' = [bos EXCEPT !.pc = IF lastMod = 0 THEN "down" ELSE "idle",
                        !.got = {}, !.ahead = {}, !.gen = 0]
  /\ UNCHANGED <<seeds, db, oas, pc, loaded, snap, file, rules, lastMod, authored>>

StopBOS ==
  /\ bos.pc # "down" /\ Spend("faults")
  /\ bos' = [bos EXCEPT !.pc = "down", !.got = {}, !.ahead = {}, !.gen = 0]
  /\ UNCHANGED <<seeds, db, oas, pc, loaded, snap, file, rules, lastMod, authored>>

-----------------------------------------------------------------------------
\* An empty table; no file yet.
Init ==
  /\ db = [i \in Rows |-> [st |-> "none", rule |-> Blank]] /\ seeds = {}
  /\ oas = "down" /\ pc = [w \in Workers |-> "idle"]
  /\ loaded = [w \in Workers |-> NoRow]
  /\ snap = [w \in Workers |-> {}]
  /\ file = [exists |-> FALSE, lines |-> {}, mtime |-> 1, gen |-> 0]
  /\ bos = [pc |-> "down", seen |-> 0, got |-> {}, ahead |-> {}, gen |-> 0]
  /\ rules = {} /\ lastMod = 0 /\ authored = {}
  /\ budget = [requests |-> MaxRequests, faults |-> MaxFaults]

Request(w) ==
  \/ CreateRBACPolicy(w) \/ UpdateRBACPolicy_First(w) \/ DeleteRBACPolicy(w) \/ SyncRBAC(w)

\* The rest of a request, once it has been accepted.
Proceed(w) ==
  \/ UpdateRBACPolicy_Save(w)
  \/ Regenerate_Find(w) \/ Regenerate_Truncate(w) \/ Regenerate_Write(w)

SeedRBACPolicies == SeedRBACPolicies_Done \/ \E r \in Rules : SeedRBACPolicies_Create(r)

Fault(w) == UpdateRBACPolicy_SaveFails(w) \/ Regenerate_FindFails(w) \/ Regenerate_Fails(w)

Watch == Reload \/ LoadPolicy_Stat \/ LoadPolicy_Scan \/ LoadPolicy_Publish

Next ==
  \/ \E w \in Workers : Request(w) \/ Proceed(w) \/ Fault(w)
  \/ Crash \/ StartOAS \/ SeedRBACPolicies
  \/ \E r \in Rules : SeedRBACPolicies_CreateFails(r)
  \/ StartBOS \/ Watch \/ LoadPolicy_Fails \/ StopBOS

Spec == Init /\ [][Next]_vars

\* Handlers run to completion, main() finishes seeding and the ticker keeps
\* ticking.  No process has to be started, and no request, crash or fault has
\* to happen.
Fairness ==
  /\ \A w \in Workers : WF_vars(Proceed(w))
  /\ WF_vars(SeedRBACPolicies)
  /\ WF_vars(Watch)

FairSpec == Spec /\ Fairness

-----------------------------------------------------------------------------
(* Properties.                                                             *)

FileType == [exists : BOOLEAN, lines : SUBSET Lines, mtime : Nat, gen : Nat]
LoaderType ==
  [pc : {"down", "idle", "stat", "scan", "rest"}, seen : Nat, got : SUBSET Lines,
   ahead : SUBSET Lines, gen : Nat]

\* The type invariant of the pipeline's state.
TypeOK ==
  /\ db \in [Rows -> Row] /\ seeds \subseteq Rules
  /\ oas \in {"down", "seeding", "up"}
  /\ pc \in [Workers -> {"idle", "save", "find", "open", "write"}]
  /\ loaded \in [Workers -> Rows]
  /\ snap \in [Workers -> SUBSET Rules]
  /\ file \in FileType /\ bos \in LoaderType
  /\ rules \subseteq Lines /\ lastMod \in Nat /\ authored \subseteq Rules
  /\ budget \in [{"requests", "faults"} -> Nat]

\* As long as BOS sees no newer modification time, the rules it enforces are
\* exactly the lines of the file, however many OAS requests, failed writes and
\* crashes tore the file under its reads: loadPolicy takes the time before it
\* opens the file, so a write during the scan is seen at the next tick.
ReloadComplete == lastMod = file.mtime => rules = file.lines

\* No interleaving, crash or fault makes BOS enforce a line that was at no time
\* an active policy of the table, such as a row that was created inactive and
\* is waiting to be switched on (lines torn between two versions excepted).
NoForeignRule ==
  /\ (rules \cup file.lines) \ {Torn} \subseteq authored
  /\ \A w \in Workers : snap[w] \subseteq authored

Undisturbed == budget.faults = MaxFaults

\* As long as nothing crashes or fails, between requests the CSV holds the
\* active rows of the authority's table, no more and no less: every handler of
\* rbac.go that changes the table regenerates the file before it answers, and
\* so does the seeding.
CsvMatchesAuthority ==
  Undisturbed /\ oas = "up" /\ Quiet => file.exists /\ file.lines = Active(db)

\* If BOS stays up, it ends up enforcing the file for good, whatever the file
\* went through: WatchFile survives failed reloads and misses no write.
WatcherCatchesUp == <>[](bos.pc # "down") => <>[](rules = file.lines)

\* If nothing crashes or fails and both processes come up, what BOS enforces
\* becomes what OAS has stored.
EnforcedMatchesAuthority ==
  <>[](Undisturbed /\ oas = "up" /\ bos.pc # "down") => <>[](rules = Active(db))
=============================================================================
