-------------------------- MODULE PolicySyncProofs --------------------------
(* Proofs about PolicySync, for every set of rules, rows and request        *)
(* threads and every bound on requests, crashes and faults.                 *)
EXTENDS PolicySync, TLAPS

-----------------------------------------------------------------------------
(* The helpers the actions are built from.                                 *)

\* The active lines of a well-formed table are rules.
LEMMA ActiveType ==
  ASSUME NEW d \in [Rows -> Row]
  PROVE  Active(d) \subseteq Rules
BY DEF Active, Row

\* Whatever is written over whatever, the file holds lines.
LEMMA OverwriteType ==
  ASSUME NEW S \in SUBSET Lines, file \in FileType, NEW text \in Overwrite(S)
  PROVE  text \in SUBSET Lines
BY DEF Overwrite, Tails, Before, FileType, Lines

\* A written file is well formed.
LEMMA WriteFileType ==
  ASSUME NEW S \in SUBSET Lines, file \in FileType, WriteFile(S)
  PROVE  file' \in FileType
<1>1. PICK m \in (IF FineClock THEN {file.mtime + 1} ELSE {file.mtime, file.mtime + 1}) :
        file' = [exists |-> TRUE, lines |-> S, mtime |-> m, gen |-> file.gen + 1]
  BY DEF WriteFile
<1>2. m \in Nat /\ file.gen + 1 \in Nat
  BY <1>1 DEF FileType
<1>3. QED BY <1>1, <1>2 DEF FileType

\* Spending a bound leaves the bounds natural numbers.
LEMMA SpendType ==
  ASSUME budget \in [{"requests", "faults"} -> Nat],
         NEW b \in {"requests", "faults"}, Spend(b)
  PROVE  budget' \in [{"requests", "faults"} -> Nat]
BY DEF Spend

\* Committing a well-formed table keeps the table and the history well formed.
LEMMA CommitType ==
  ASSUME NEW d \in [Rows -> Row], authored \subseteq Rules, Commit(d)
  PROVE  db' \in [Rows -> Row] /\ authored' \subseteq Rules
BY ActiveType DEF Commit

LEMMA NoRowType == NoRow \in Rows
BY RowsAssumption DEF NoRow

-----------------------------------------------------------------------------
(* Type correctness.                                                       *)

\* The initial state is well formed.
LEMMA InitType == Init => TypeOK
<1> SUFFICES ASSUME Init PROVE TypeOK
  OBVIOUS
<1>1. Blank \in Rules
  BY RulesAssumption DEF Blank
<1>2. db \in [Rows -> Row]
  BY <1>1 DEF Init, Row
<1>3. loaded \in [Workers -> Rows]
  BY NoRowType DEF Init
<1>4. file \in FileType /\ bos \in LoaderType
  BY DEF Init, FileType, LoaderType
<1>5. budget \in [{"requests", "faults"} -> Nat]
  BY BoundsAssumption DEF Init
<1>6. QED BY <1>2, <1>3, <1>4, <1>5 DEF Init, TypeOK

\* Every step of the pipeline keeps the state well formed.
LEMMA NextType == TypeOK /\ [Next]_vars => TypeOK'
<1> SUFFICES ASSUME TypeOK, [Next]_vars PROVE TypeOK'
  OBVIOUS
<1> USE DEF bosVars
<1>1. ASSUME NEW w \in Workers, CreateRBACPolicy(w) PROVE TypeOK'
  <2>1. PICK i \in Rows, r \in Rules, st \in {"active", "inactive"} :
          Commit([db EXCEPT ![i] = [st |-> st, rule |-> r]])
    BY <1>1 DEF CreateRBACPolicy
  <2>2. [db EXCEPT ![i] = [st |-> st, rule |-> r]] \in [Rows -> Row]
    BY DEF TypeOK, Row
  <2>3. db' \in [Rows -> Row] /\ authored' \subseteq Rules
    BY <2>1, <2>2, CommitType DEF TypeOK
  <2>4. budget' \in [{"requests", "faults"} -> Nat]
    BY <1>1, SpendType DEF CreateRBACPolicy, Accept, TypeOK
  <2>5. QED BY <1>1, <2>3, <2>4 DEF CreateRBACPolicy, TypeOK
<1>2. ASSUME NEW w \in Workers, UpdateRBACPolicy_First(w) PROVE TypeOK'
  <2>1. PICK i \in Stored(db) :
          loaded' = [loaded EXCEPT ![w] = i]
    BY <1>2 DEF UpdateRBACPolicy_First
  <2>2. i \in Rows /\ db[i].st \in {"active", "inactive"} /\ db[i].rule \in Rules
    BY <2>1 DEF Stored, TypeOK, Row
  <2>3. loaded' \in [Workers -> Rows]
    BY <2>1, <2>2 DEF TypeOK
  <2>4. budget' \in [{"requests", "faults"} -> Nat]
    BY <1>2, SpendType DEF UpdateRBACPolicy_First, Accept, TypeOK
  <2>5. QED BY <1>2, <2>3, <2>4 DEF UpdateRBACPolicy_First, TypeOK
<1>3. ASSUME NEW w \in Workers, UpdateRBACPolicy_Save(w) PROVE TypeOK'
  <2>1. loaded[w] \in Rows
    BY DEF TypeOK
  <2>2. PICK row \in Row : Commit([db EXCEPT ![loaded[w]] = row])
    BY <1>3, <2>1 DEF UpdateRBACPolicy_Save, Row
  <2>3. db' \in [Rows -> Row] /\ authored' \subseteq Rules
    BY <2>1, <2>2, CommitType DEF TypeOK
  <2>4. QED BY <1>3, <2>3, NoRowType DEF UpdateRBACPolicy_Save, TypeOK
<1>4. ASSUME NEW w \in Workers, UpdateRBACPolicy_SaveFails(w) PROVE TypeOK'
  BY <1>4, SpendType, NoRowType DEF UpdateRBACPolicy_SaveFails, TypeOK
<1>5. ASSUME NEW w \in Workers, DeleteRBACPolicy(w) PROVE TypeOK'
  <2>1. PICK i \in Rows :
          Commit(IF i \in Stored(db) THEN [db EXCEPT ![i].st = "deleted"] ELSE db)
    BY <1>5 DEF DeleteRBACPolicy
  <2>2. [db EXCEPT ![i].st = "deleted"] \in [Rows -> Row] /\ db \in [Rows -> Row]
    BY DEF TypeOK, Row
  <2>3. db' \in [Rows -> Row] /\ authored' \subseteq Rules
    BY <2>1, <2>2, CommitType DEF TypeOK
  <2>4. budget' \in [{"requests", "faults"} -> Nat]
    BY <1>5, SpendType DEF DeleteRBACPolicy, Accept, TypeOK
  <2>5. QED BY <1>5, <2>3, <2>4 DEF DeleteRBACPolicy, TypeOK
<1>6. ASSUME NEW w \in Workers, SyncRBAC(w) PROVE TypeOK'
  BY <1>6, SpendType DEF SyncRBAC, Accept, TypeOK
<1>7. ASSUME NEW w \in Workers, Regenerate_Find(w) PROVE TypeOK'
  BY <1>7, ActiveType DEF Regenerate_Find, Selected, TypeOK
<1>8. ASSUME NEW w \in Workers, Regenerate_FindFails(w) PROVE TypeOK'
  BY <1>8, SpendType DEF Regenerate_FindFails, TypeOK
<1>9. ASSUME NEW w \in Workers, Regenerate_Truncate(w) PROVE TypeOK'
  BY <1>9, WriteFileType DEF Regenerate_Truncate, TypeOK
<1>10. ASSUME NEW w \in Workers, Regenerate_Write(w) PROVE TypeOK'
  <2>1. snap[w] \in SUBSET Lines
    BY DEF TypeOK, Lines
  <2>2. file' \in FileType
    BY <1>10, <2>1, OverwriteType, WriteFileType DEF Regenerate_Write, TypeOK
  <2>3. QED BY <1>10, <2>2 DEF Regenerate_Write, Finish, TypeOK
<1>11. ASSUME NEW w \in Workers, Regenerate_Fails(w) PROVE TypeOK'
  <2>1. \A k \in Positions : Before(snap[w], k) \in SUBSET Lines
    BY DEF TypeOK, Lines, Before
  <2>2. file' \in FileType
    BY <1>11, <2>1, OverwriteType, WriteFileType DEF Regenerate_Fails, TypeOK
  <2>3. QED BY <1>11, <2>2, SpendType DEF Regenerate_Fails, Finish, TypeOK
<1>12. CASE Crash
  BY <1>12, SpendType, NoRowType DEF Crash, TypeOK
<1>13. CASE StartOAS
  BY <1>13, RulesAssumption DEF StartOAS, TypeOK
<1>14. ASSUME NEW r \in Rules, SeedRBACPolicies_Create(r) PROVE TypeOK'
  <2>1. PICK i \in Rows : Commit([db EXCEPT ![i] = [st |-> "active", rule |-> r]])
    BY <1>14 DEF SeedRBACPolicies_Create
  <2>2. [db EXCEPT ![i] = [st |-> "active", rule |-> r]] \in [Rows -> Row]
    BY DEF TypeOK, Row
  <2>3. db' \in [Rows -> Row] /\ authored' \subseteq Rules
    BY <2>1, <2>2, CommitType DEF TypeOK
  <2>4. QED BY <1>14, <2>3 DEF SeedRBACPolicies_Create, TypeOK
<1>15. ASSUME NEW r \in Rules, SeedRBACPolicies_CreateFails(r) PROVE TypeOK'
  BY <1>15, SpendType DEF SeedRBACPolicies_CreateFails, TypeOK
<1>16. CASE SeedRBACPolicies_Done
  BY <1>16 DEF SeedRBACPolicies_Done, TypeOK
<1>17. CASE StartBOS
  BY <1>17 DEF StartBOS, TypeOK, LoaderType
<1>18. CASE Reload
  BY <1>18 DEF Reload, TypeOK, LoaderType
<1>19. CASE LoadPolicy_Stat
  BY <1>19 DEF LoadPolicy_Stat, TypeOK, LoaderType, FileType
<1>20. CASE LoadPolicy_Scan
  <2>1. PICK k \in Positions :
          bos' = [bos EXCEPT !.pc = "rest", !.got = Before(file.lines, k),
                             !.ahead = file.lines \ Before(file.lines, k), !.gen = file.gen]
    BY <1>20 DEF LoadPolicy_Scan
  <2>2. Before(file.lines, k) \in SUBSET Lines /\ file.gen \in Nat
        /\ file.lines \ Before(file.lines, k) \in SUBSET Lines
    BY DEF TypeOK, FileType, Before
  <2>3. bos' \in LoaderType
    BY <2>1, <2>2 DEF TypeOK, LoaderType
  <2>4. QED BY <1>20, <2>3 DEF LoadPolicy_Scan, TypeOK
<1>21. CASE LoadPolicy_Publish
  <2>1. rules' \subseteq Lines
    BY <1>21 DEF LoadPolicy_Publish, NextRead, TypeOK, LoaderType, FileType, Tails, Before, Lines
  <2>2. QED BY <1>21, <2>1 DEF LoadPolicy_Publish, TypeOK, LoaderType
<1>22. CASE LoadPolicy_Fails
  BY <1>22, SpendType DEF LoadPolicy_Fails, TypeOK, LoaderType
<1>23. CASE StopBOS
  BY <1>23, SpendType DEF StopBOS, TypeOK, LoaderType
<1>24. CASE UNCHANGED vars
  BY <1>24 DEF vars, TypeOK
<1>25. QED
  BY <1>1, <1>2, <1>3, <1>4, <1>5, <1>6, <1>7, <1>8, <1>9, <1>10, <1>11, <1>12, <1>13,
     <1>14, <1>15, <1>16, <1>17, <1>18, <1>19, <1>20, <1>21, <1>22, <1>23, <1>24
  DEF Next, Request, Proceed, Fault, Watch, SeedRBACPolicies

\* The state of the pipeline is well formed in every reachable state.
THEOREM TypeCorrect == Spec => []TypeOK
BY InitType, NextType, PTL DEF Spec

-----------------------------------------------------------------------------
(* Hot reload.  With a modification time of its own for every write, the    *)
(* time counts the writes; the loader's time is never ahead of the content  *)
(* it read, and content of the newest write is complete.                    *)

LoaderInv ==
  /\ file.mtime = file.gen + 1
  /\ lastMod <= file.mtime /\ bos.seen <= file.mtime /\ bos.gen <= file.gen
  /\ bos.pc = "rest" => bos.seen <= bos.gen + 1
  /\ bos.pc = "rest" /\ bos.gen = file.gen => bos.got \cup bos.ahead = file.lines
  /\ ReloadComplete

\* A write makes the file newer than anything the loader has seen.
LEMMA WriteKeepsLoaderInv ==
  ASSUME FineClock = TRUE, TypeOK, LoaderInv, NEW S \in SUBSET Lines, WriteFile(S),
         UNCHANGED bosVars
  PROVE  LoaderInv'
<1>1. file' = [exists |-> TRUE, lines |-> S, mtime |-> file.mtime + 1, gen |-> file.gen + 1]
  BY DEF WriteFile
<1>2. /\ file.mtime \in Nat /\ file.gen \in Nat /\ lastMod \in Nat
      /\ bos.seen \in Nat /\ bos.gen \in Nat
  BY DEF TypeOK, FileType, LoaderType
<1>3. bos' = bos /\ rules' = rules /\ lastMod' = lastMod
  BY DEF bosVars
<1>4. QED BY <1>1, <1>2, <1>3 DEF LoaderInv, ReloadComplete

\* What the loader itself does keeps the invariant.
LEMMA LoaderKeepsLoaderInv ==
  ASSUME TypeOK, LoaderInv,
         StartBOS \/ Watch \/ LoadPolicy_Fails \/ StopBOS
  PROVE  LoaderInv'
<1>1. /\ file.mtime \in Nat /\ file.gen \in Nat /\ lastMod \in Nat
      /\ bos \in LoaderType /\ bos.seen \in Nat /\ bos.gen \in Nat
  BY DEF TypeOK, FileType, LoaderType
<1>2. file' = file
  BY DEF StartBOS, Watch, Reload, LoadPolicy_Stat, LoadPolicy_Scan, LoadPolicy_Publish,
         LoadPolicy_Fails, StopBOS
<1>3. CASE StartBOS
  BY <1>1, <1>2, <1>3 DEF StartBOS, LoaderInv, ReloadComplete, LoaderType
<1>4. CASE Reload
  BY <1>1, <1>2, <1>4 DEF Reload, LoaderInv, ReloadComplete, LoaderType
<1>5. CASE LoadPolicy_Stat
  BY <1>1, <1>2, <1>5 DEF LoadPolicy_Stat, LoaderInv, ReloadComplete, LoaderType
<1>6. CASE LoadPolicy_Scan
  <2>1. PICK k \in Positions :
          bos' = [bos EXCEPT !.pc = "rest", !.got = Before(file.lines, k),
                             !.ahead = file.lines \ Before(file.lines, k), !.gen = file.gen]
    BY <1>6 DEF LoadPolicy_Scan
  <2>2. bos'.got \cup bos'.ahead = file.lines
    BY <2>1, <1>1 DEF LoaderType, Before
  <2>3. bos'.seen = bos.seen /\ bos'.gen = file.gen /\ bos'.pc = "rest"
    BY <2>1, <1>1 DEF LoaderType
  <2>4. QED BY <1>1, <1>2, <1>6, <2>2, <2>3 DEF LoadPolicy_Scan, LoaderInv, ReloadComplete
<1>7. CASE LoadPolicy_Publish
  <2>1. bos'.seen = bos.seen /\ bos'.gen = 0 /\ bos'.pc = "idle" /\ lastMod' = bos.seen
    BY <1>1, <1>7 DEF LoadPolicy_Publish, LoaderType
  <2>2. ASSUME bos.seen = file.mtime PROVE rules' = file.lines
    <3>1. bos.gen = file.gen
      BY <1>1, <1>7, <2>2 DEF LoadPolicy_Publish, LoaderInv
    <3>2. QED BY <1>7, <3>1 DEF LoadPolicy_Publish, NextRead, LoaderInv
  <2>3. QED BY <1>1, <1>2, <2>1, <2>2 DEF LoaderInv, ReloadComplete
<1>8. CASE LoadPolicy_Fails
  BY <1>1, <1>2, <1>8 DEF LoadPolicy_Fails, LoaderInv, ReloadComplete, LoaderType
<1>9. CASE StopBOS
  BY <1>1, <1>2, <1>9 DEF StopBOS, LoaderInv, ReloadComplete, LoaderType
<1>10. QED BY <1>3, <1>4, <1>5, <1>6, <1>7, <1>8, <1>9 DEF Watch

\* When every write has an mtime of its own, BOS never rests on rules that
\* differ from the file it believes to have loaded.
THEOREM ReloadCorrect == FineClock = TRUE => (Spec => []ReloadComplete)
<1> SUFFICES ASSUME FineClock = TRUE PROVE Spec => []ReloadComplete
  OBVIOUS
<1>1. Init => LoaderInv
  BY DEF Init, LoaderInv, ReloadComplete
<1>2. TypeOK /\ LoaderInv /\ [Next]_vars => LoaderInv'
  <2> SUFFICES ASSUME TypeOK, LoaderInv, [Next]_vars PROVE LoaderInv'
    OBVIOUS
  <2>1. ASSUME UNCHANGED <<file, bosVars>> PROVE LoaderInv'
    BY <2>1 DEF LoaderInv, ReloadComplete, bosVars
  <2>2. ASSUME NEW w \in Workers, Request(w) PROVE LoaderInv'
    BY <2>1, <2>2 DEF Request, CreateRBACPolicy, UpdateRBACPolicy_First, DeleteRBACPolicy, SyncRBAC
  <2>3. ASSUME NEW w \in Workers, Proceed(w) PROVE LoaderInv'
    <3>1. CASE UpdateRBACPolicy_Save(w) \/ Regenerate_Find(w)
      BY <2>1, <3>1 DEF UpdateRBACPolicy_Save, Regenerate_Find
    <3>2. CASE Regenerate_Truncate(w)
      BY <3>2, WriteKeepsLoaderInv DEF Regenerate_Truncate
    <3>3. CASE Regenerate_Write(w)
      <4>1. snap[w] \in SUBSET Lines /\ file \in FileType
        BY DEF TypeOK, Lines
      <4>2. QED BY <3>3, <4>1, OverwriteType, WriteKeepsLoaderInv DEF Regenerate_Write
    <3>4. QED BY <2>3, <3>1, <3>2, <3>3 DEF Proceed
  <2>4. ASSUME NEW w \in Workers, Fault(w) PROVE LoaderInv'
    <3>1. CASE UpdateRBACPolicy_SaveFails(w) \/ Regenerate_FindFails(w)
      BY <2>1, <3>1 DEF UpdateRBACPolicy_SaveFails, Regenerate_FindFails
    <3>2. CASE Regenerate_Fails(w)
      <4>1. file \in FileType /\ \A k \in Positions : Before(snap[w], k) \in SUBSET Lines
        BY DEF TypeOK, Lines, Before
      <4>2. CASE UNCHANGED file
        BY <2>1, <3>2, <4>2 DEF Regenerate_Fails
      <4>3. CASE \E k \in Positions : \E text \in Overwrite(Before(snap[w], k)) : WriteFile(text)
        BY <3>2, <4>1, <4>3, OverwriteType, WriteKeepsLoaderInv DEF Regenerate_Fails
      <4>4. QED BY <3>2, <4>2, <4>3 DEF Regenerate_Fails
    <3>3. QED BY <2>4, <3>1, <3>2 DEF Fault
  <2>5. CASE Crash \/ StartOAS \/ SeedRBACPolicies
             \/ \E r \in Rules : SeedRBACPolicies_CreateFails(r)
    BY <2>1, <2>5 DEF Crash, StartOAS, SeedRBACPolicies, SeedRBACPolicies_Done,
                      SeedRBACPolicies_Create, SeedRBACPolicies_CreateFails
  <2>6. CASE StartBOS \/ Watch \/ LoadPolicy_Fails \/ StopBOS
    BY <2>6, LoaderKeepsLoaderInv
  <2>7. CASE UNCHANGED vars
    BY <2>1, <2>7 DEF vars, bosVars
  <2>8. QED BY <2>2, <2>3, <2>4, <2>5, <2>6, <2>7 DEF Next
<1>3. LoaderInv => ReloadComplete
  BY DEF LoaderInv
<1>4. QED BY <1>1, <1>2, <1>3, TypeCorrect, PTL DEF Spec

-----------------------------------------------------------------------------
(* Every line in flight was authored: the active rows are, and every place  *)
(* a line can be copied to is filled from a place before it.                *)

Authored(S) == S \ {Torn} \subseteq authored

ForeignInv ==
  /\ Active(db) \subseteq authored
  /\ \A w \in Workers : snap[w] \subseteq authored
  /\ Authored(file.lines) /\ Authored(bos.got) /\ Authored(bos.ahead) /\ Authored(rules)

\* Writing authored lines leaves authored lines, whatever was in the file.
LEMMA WriteKeepsForeignInv ==
  ASSUME ForeignInv, file \in FileType, NEW S \in SUBSET authored,
         NEW text \in Overwrite(S), WriteFile(text), UNCHANGED authored
  PROVE  Authored(file.lines)'
<1>1. file'.lines = text
  BY DEF WriteFile
<1>2. Authored(text)
  BY DEF ForeignInv, Authored, Overwrite, Tails, Before
<1>3. QED BY <1>1, <1>2 DEF Authored

\* Committing a table changes nothing but the table, and only adds to history.
LEMMA CommitKeepsForeignInv ==
  ASSUME ForeignInv, NEW d, Commit(d), UNCHANGED <<snap, file, bosVars>>
  PROVE  ForeignInv'
<1>1. authored \subseteq authored' /\ Active(db') \subseteq authored'
  BY DEF Commit
<1>2. Active(db)' = Active(db')
  BY DEF Active
<1>3. QED BY <1>1, <1>2 DEF ForeignInv, Authored, bosVars

\* BOS never enforces a line that was not an active policy at some time.
THEOREM NoForeignRuleCorrect == Spec => []NoForeignRule
<1>1. Init => ForeignInv
  BY DEF Init, ForeignInv, Authored, Active
<1>2. TypeOK /\ ForeignInv /\ [Next]_vars => ForeignInv'
  <2> SUFFICES ASSUME TypeOK, ForeignInv, [Next]_vars PROVE ForeignInv'
    OBVIOUS
  <2>1. ASSUME UNCHANGED <<db, snap, file, bosVars, authored>> PROVE ForeignInv'
    BY <2>1 DEF ForeignInv, Authored, Active, bosVars
  <2>2. ASSUME NEW w \in Workers, Request(w) PROVE ForeignInv'
    <3>1. CASE UpdateRBACPolicy_First(w) \/ SyncRBAC(w)
      BY <2>1, <3>1 DEF UpdateRBACPolicy_First, SyncRBAC
    <3>2. CASE CreateRBACPolicy(w)
      BY <3>2, CommitKeepsForeignInv DEF CreateRBACPolicy
    <3>3. CASE DeleteRBACPolicy(w)
      BY <3>3, CommitKeepsForeignInv DEF DeleteRBACPolicy
    <3>4. QED BY <2>2, <3>1, <3>2, <3>3 DEF Request
  <2>3. ASSUME NEW w \in Workers, Proceed(w) PROVE ForeignInv'
    <3>1. CASE UpdateRBACPolicy_Save(w)
      <4>1. PICK d : Commit(d)
        BY <3>1 DEF UpdateRBACPolicy_Save
      <4>2. QED BY <3>1, <4>1, CommitKeepsForeignInv DEF UpdateRBACPolicy_Save
    <3>2. CASE Regenerate_Find(w)
      BY <3>2 DEF Regenerate_Find, Selected, ForeignInv, Authored, TypeOK, Active, bosVars
    <3>3. CASE Regenerate_Truncate(w)
      <4>1. file'.lines = {}
        BY <3>3 DEF Regenerate_Truncate, WriteFile
      <4>2. QED BY <3>3, <4>1 DEF Regenerate_Truncate, ForeignInv, Authored, Active, bosVars
    <3>4. CASE Regenerate_Write(w)
      <4>1. Authored(file.lines)'
        BY <3>4, WriteKeepsForeignInv DEF Regenerate_Write, ForeignInv, TypeOK
      <4>2. QED BY <3>4, <4>1
            DEF Regenerate_Write, Finish, TypeOK, ForeignInv, Authored, Active, bosVars
    <3>5. QED BY <2>3, <3>1, <3>2, <3>3, <3>4 DEF Proceed
  <2>4. ASSUME NEW w \in Workers, Fault(w) PROVE ForeignInv'
    <3>1. CASE UpdateRBACPolicy_SaveFails(w)
      BY <2>1, <3>1 DEF UpdateRBACPolicy_SaveFails
    <3>2. CASE Regenerate_FindFails(w)
      BY <3>2 DEF Regenerate_FindFails, ForeignInv, Authored, TypeOK, Active, bosVars
    <3>3. CASE Regenerate_Fails(w)
      <4>1. \A k \in Positions : Before(snap[w], k) \in SUBSET authored
        BY DEF ForeignInv, Before
      <4>2. CASE UNCHANGED file
        BY <3>3, <4>2 DEF Regenerate_Fails, Finish, TypeOK, ForeignInv, Authored, Active, bosVars
      <4>3. CASE \E k \in Positions : \E text \in Overwrite(Before(snap[w], k)) : WriteFile(text)
        <5>1. Authored(file.lines)'
          BY <3>3, <4>1, <4>3, WriteKeepsForeignInv DEF Regenerate_Fails, TypeOK
        <5>2. QED BY <3>3, <5>1
              DEF Regenerate_Fails, Finish, TypeOK, ForeignInv, Authored, Active, bosVars
      <4>4. QED BY <3>3, <4>2, <4>3 DEF Regenerate_Fails
    <3>4. QED BY <2>4, <3>1, <3>2, <3>3 DEF Fault
  <2>5. CASE Crash
    BY <2>5 DEF Crash, ForeignInv, Authored, Active, bosVars
  <2>6. CASE StartOAS \/ SeedRBACPolicies_Done
             \/ \E r \in Rules : SeedRBACPolicies_CreateFails(r)
    BY <2>1, <2>6 DEF StartOAS, SeedRBACPolicies_Done, SeedRBACPolicies_CreateFails
  <2>7. ASSUME NEW r \in Rules, SeedRBACPolicies_Create(r) PROVE ForeignInv'
    BY <2>7, CommitKeepsForeignInv DEF SeedRBACPolicies_Create
  <2>8. CASE StartBOS \/ Reload \/ LoadPolicy_Stat \/ LoadPolicy_Fails \/ StopBOS
    <3>1. /\ UNCHANGED <<db, snap, file, authored>> /\ rules' \in {{}, rules}
          /\ bos'.got \in {{}, bos.got} /\ bos'.ahead \in {{}, bos.ahead}
      BY <2>8 DEF StartBOS, Reload, LoadPolicy_Stat, LoadPolicy_Fails, StopBOS, TypeOK, LoaderType
    <3>2. QED BY <3>1 DEF ForeignInv, Authored, Active
  <2>9. CASE LoadPolicy_Scan
    <3>1. PICK k \in Positions :
            bos' = [bos EXCEPT !.pc = "rest", !.got = Before(file.lines, k),
                               !.ahead = file.lines \ Before(file.lines, k), !.gen = file.gen]
      BY <2>9 DEF LoadPolicy_Scan
    <3>2. /\ bos'.got = Before(file.lines, k)
          /\ bos'.ahead = file.lines \ Before(file.lines, k)
      BY <3>1 DEF TypeOK, LoaderType
    <3>3. Before(file.lines, k) \subseteq file.lines
      BY DEF Before
    <3>4. QED BY <2>9, <3>2, <3>3 DEF LoadPolicy_Scan, ForeignInv, Authored, Active
  <2>10. CASE LoadPolicy_Publish
    <3>1. Authored(rules)'
      BY <2>10 DEF LoadPolicy_Publish, NextRead, Tails, Before, ForeignInv, Authored
    <3>2. bos'.got = {} /\ bos'.ahead = {}
      BY <2>10 DEF LoadPolicy_Publish, TypeOK, LoaderType
    <3>3. QED BY <2>10, <3>1, <3>2 DEF LoadPolicy_Publish, ForeignInv, Authored, Active
  <2>11. CASE UNCHANGED vars
    BY <2>1, <2>11 DEF vars, bosVars
  <2>12. QED BY <2>2, <2>3, <2>4, <2>5, <2>6, <2>7, <2>8, <2>9, <2>10, <2>11
         DEF Next, Watch, SeedRBACPolicies
<1>3. ForeignInv => NoForeignRule
  BY DEF ForeignInv, NoForeignRule, Authored
<1>4. QED BY <1>1, <1>2, <1>3, TypeCorrect, PTL DEF Spec
-----------------------------------------------------------------------------
(* Between requests the CSV is the table, as long as one administrator at a *)
(* time changes policies: a regeneration that has read the table is the     *)
(* only thread that moves, so the table is still what it has read.  With    *)
(* two at once it is not so.                                                *)

OneAdministrator == \A v, w \in Workers \ {Boot} : v = w

ThreadInv(w) ==
  /\ pc[w] = "open" => snap[w] = Active(db)
  /\ pc[w] = "write" => snap[w] = Active(db) /\ file.exists = TRUE /\ file.lines = {}
  /\ pc[w] # "idle" => IF w = Boot THEN oas = "seeding" /\ seeds = {} ELSE oas = "up"

CsvInv ==
  Undisturbed =>
    /\ oas = "down" => Stored(db) = {}
    /\ \A w \in Workers : ThreadInv(w)
    /\ oas = "up" /\ Quiet => file.exists = TRUE /\ file.lines = Active(db)

FaultsBounded == budget["faults"] <= MaxFaults

\* A failure is never undone.
LEMMA SpendDisturbs ==
  ASSUME TypeOK, FaultsBounded, Spend("faults")
  PROVE  FaultsBounded' /\ ~Undisturbed'
<1>1. budget["faults"] \in Nat /\ budget'["faults"] = budget["faults"] - 1
  BY DEF TypeOK, Spend
<1>2. QED BY <1>1, BoundsAssumption DEF FaultsBounded, Undisturbed

LEMMA RequestSpends ==
  ASSUME TypeOK, Spend("requests")
  PROVE  (FaultsBounded => FaultsBounded') /\ (Undisturbed' => Undisturbed)
<1>1. budget'["faults"] = budget["faults"]
  BY DEF TypeOK, Spend
<1>2. QED BY <1>1 DEF FaultsBounded, Undisturbed

\* The thread that moves is the only one that is not idle.
LEMMA MovesAlone ==
  ASSUME OneAdministrator, CsvInv, Undisturbed, NEW w \in Workers,
         pc[w] # "idle" \/ Accept(w)
  PROVE  /\ \A v \in Workers \ {w} : pc[v] = "idle"
         /\ IF w = Boot THEN oas = "seeding" ELSE oas = "up"
<1>1. IF w = Boot THEN oas = "seeding" ELSE oas = "up"
  BY DEF CsvInv, ThreadInv, Accept
<1>2. ASSUME NEW v \in Workers \ {w}, pc[v] # "idle"
      PROVE  FALSE
  <2>1. IF v = Boot THEN oas = "seeding" ELSE oas = "up"
    BY <1>2 DEF CsvInv, ThreadInv
  <2>2. QED BY <1>1, <1>2, <2>1 DEF OneAdministrator
<1>3. QED BY <1>1, <1>2

\* What a step of a thread that goes on must do.
LEMMA ThreadMoves ==
  ASSUME OneAdministrator, TypeOK, CsvInv, NEW w \in Workers, NEW p \in {"save", "find", "open", "write"},
         pc[w] # "idle" \/ Accept(w), pc' = [pc EXCEPT ![w] = p], UNCHANGED <<seeds, oas>>,
         Undisturbed' => Undisturbed,
         Undisturbed /\ p \in {"open", "write"} => snap'[w] = Active(db'),
         Undisturbed /\ p = "write" => file'.exists = TRUE /\ file'.lines = {}
  PROVE  CsvInv'
<1> SUFFICES ASSUME Undisturbed
             PROVE  CsvInv'
  BY DEF CsvInv
<1>1. /\ \A v \in Workers \ {w} : pc[v] = "idle"
      /\ IF w = Boot THEN oas = "seeding" ELSE oas = "up"
  BY MovesAlone
<1>2. pc'[w] = p /\ \A v \in Workers \ {w} : pc'[v] = "idle"
  BY <1>1 DEF TypeOK
<1>3. w = Boot => seeds = {}
  BY DEF CsvInv, ThreadInv, Accept
<1>4. \A v \in Workers : ThreadInv(v)'
  BY <1>1, <1>2, <1>3 DEF ThreadInv
<1>5. ~Quiet' /\ oas' # "down"
  BY <1>1, <1>2 DEF Quiet
<1>6. QED BY <1>4, <1>5 DEF CsvInv

\* A step of the loader, or of nobody.
LEMMA LoaderMoves ==
  ASSUME CsvInv, UNCHANGED <<db, seeds, oas, pc, snap, file>>, Undisturbed' => Undisturbed
  PROVE  CsvInv'
BY DEF CsvInv, ThreadInv, Quiet, Stored, Active

LEMMA CsvInvKept ==
  ASSUME OneAdministrator, TypeOK, FaultsBounded, CsvInv, [Next]_vars
  PROVE  CsvInv' /\ FaultsBounded'
<1> USE DEF bosVars
<1>1. ASSUME NEW w \in Workers, Request(w)
      PROVE  CsvInv' /\ FaultsBounded'
  <2>1. Accept(w) /\ UNCHANGED <<seeds, oas>>
    BY <1>1 DEF Request, CreateRBACPolicy, UpdateRBACPolicy_First, DeleteRBACPolicy, SyncRBAC
  <2>2. PICK p \in {"save", "find"} : pc' = [pc EXCEPT ![w] = p]
    BY <1>1 DEF Request, CreateRBACPolicy, UpdateRBACPolicy_First, DeleteRBACPolicy, SyncRBAC
  <2>3. FaultsBounded' /\ (Undisturbed' => Undisturbed)
    BY <2>1, RequestSpends DEF Accept
  <2>4. QED BY <2>1, <2>2, <2>3, ThreadMoves
<1>2. ASSUME NEW w \in Workers, UpdateRBACPolicy_Save(w) \/ Regenerate_Find(w) \/ Regenerate_Truncate(w)
      PROVE  CsvInv' /\ FaultsBounded'
  <2>1. UNCHANGED <<seeds, oas, budget>> /\ pc[w] # "idle"
    BY <1>2 DEF UpdateRBACPolicy_Save, Regenerate_Find, Regenerate_Truncate
  <2>2. FaultsBounded' /\ (Undisturbed' => Undisturbed)
    BY <2>1 DEF FaultsBounded, Undisturbed
  <2>3. CASE UpdateRBACPolicy_Save(w)
    BY <2>1, <2>2, <2>3, ThreadMoves DEF UpdateRBACPolicy_Save
  <2>4. CASE Regenerate_Find(w)
    <3>1. snap'[w] = Active(db') /\ pc' = [pc EXCEPT ![w] = "open"]
      BY <2>4 DEF Regenerate_Find, Selected, TypeOK
    <3>2. QED BY <2>1, <2>2, <3>1, ThreadMoves
  <2>5. CASE Regenerate_Truncate(w)
    <3>1. file'.exists = TRUE /\ file'.lines = {} /\ pc' = [pc EXCEPT ![w] = "write"]
      BY <2>5 DEF Regenerate_Truncate, WriteFile
    <3>2. Undisturbed => snap'[w] = Active(db')
      BY <2>5 DEF Regenerate_Truncate, CsvInv, ThreadInv
    <3>3. QED BY <2>1, <2>2, <3>1, <3>2, ThreadMoves
  <2>6. QED BY <1>2, <2>3, <2>4, <2>5, <2>2
<1>3. ASSUME NEW w \in Workers, Regenerate_Write(w)
      PROVE  CsvInv' /\ FaultsBounded'
  <2>1. UNCHANGED <<seeds, db, budget>> /\ pc[w] = "write" /\ pc' = [pc EXCEPT ![w] = "idle"]
        /\ oas' = IF w = Boot THEN "up" ELSE oas
    BY <1>3 DEF Regenerate_Write, Finish
  <2>2. FaultsBounded' /\ (Undisturbed' => Undisturbed)
    BY <2>1 DEF FaultsBounded, Undisturbed
  <2>3. ASSUME Undisturbed
        PROVE  CsvInv'
    <3>1. /\ \A v \in Workers \ {w} : pc[v] = "idle"
          /\ IF w = Boot THEN oas = "seeding" ELSE oas = "up"
      BY <2>1, <2>3, MovesAlone
    <3>2. \A v \in Workers : pc'[v] = "idle"
      BY <2>1, <3>1 DEF TypeOK
    <3>3. snap[w] = Active(db) /\ file.lines = {}
      BY <2>1, <2>3 DEF CsvInv, ThreadInv
    <3>4. file'.exists = TRUE /\ file'.lines = Active(db)
      BY <1>3, <3>3 DEF Regenerate_Write, Overwrite, WriteFile
    <3>5. Active(db') = Active(db) /\ oas' = "up"
      BY <2>1, <3>1
    <3>6. QED BY <3>2, <3>4, <3>5 DEF CsvInv, ThreadInv
  <2>4. QED BY <2>2, <2>3 DEF CsvInv
<1>4. ASSUME Spend("faults")
      PROVE  CsvInv' /\ FaultsBounded'
  BY <1>4, SpendDisturbs DEF CsvInv
<1>5. CASE StartOAS
  <2>1. /\ UNCHANGED <<db, pc, snap, file, budget>> /\ oas = "down"
        /\ Stored(db) = {} => oas' = "seeding"
    BY <1>5 DEF StartOAS
  <2>2. FaultsBounded' /\ (Undisturbed' => Undisturbed)
    BY <2>1 DEF FaultsBounded, Undisturbed
  <2>3. Undisturbed => oas' = "seeding" /\ \A w \in Workers : pc[w] = "idle"
    BY <2>1 DEF CsvInv, ThreadInv
  <2>4. QED BY <2>1, <2>2, <2>3 DEF CsvInv, ThreadInv
<1>6. ASSUME NEW r \in Rules, SeedRBACPolicies_Create(r)
      PROVE  CsvInv' /\ FaultsBounded'
  <2>1. /\ UNCHANGED <<oas, pc, snap, file, budget>> /\ oas = "seeding" /\ seeds # {}
    BY <1>6 DEF SeedRBACPolicies_Create
  <2>2. FaultsBounded' /\ (Undisturbed' => Undisturbed)
    BY <2>1 DEF FaultsBounded, Undisturbed
  <2>3. Undisturbed => \A w \in Workers : pc[w] = "idle"
    BY <2>1 DEF CsvInv, ThreadInv
  <2>4. QED BY <2>1, <2>2, <2>3 DEF CsvInv, ThreadInv
<1>7. CASE SeedRBACPolicies_Done
  <2>1. /\ UNCHANGED <<db, oas, snap, file, seeds, budget>> /\ oas = "seeding" /\ seeds = {}
        /\ pc[Boot] = "idle" /\ pc' = [pc EXCEPT ![Boot] = "find"]
    BY <1>7 DEF SeedRBACPolicies_Done
  <2>2. FaultsBounded' /\ (Undisturbed' => Undisturbed)
    BY <2>1 DEF FaultsBounded, Undisturbed
  <2>3. Undisturbed => \A w \in Workers : pc[w] = "idle"
    BY <2>1 DEF CsvInv, ThreadInv
  <2>4. pc'[Boot] = "find" /\ \A w \in Workers \ {Boot} : pc'[w] = pc[w]
    BY <2>1, BootAssumption DEF TypeOK
  <2>5. QED BY <2>1, <2>2, <2>3, <2>4 DEF CsvInv, ThreadInv
<1>8. ASSUME UNCHANGED <<db, seeds, oas, pc, snap, file, budget>>
      PROVE  CsvInv' /\ FaultsBounded'
  <2>1. FaultsBounded' /\ (Undisturbed' => Undisturbed)
    BY <1>8 DEF FaultsBounded, Undisturbed
  <2>2. QED BY <1>8, <2>1, LoaderMoves
<1>9. CASE StartBOS \/ Watch
  BY <1>8, <1>9 DEF StartBOS, Watch, Reload, LoadPolicy_Stat, LoadPolicy_Scan, LoadPolicy_Publish
<1>10. CASE Crash \/ LoadPolicy_Fails \/ StopBOS
  BY <1>4, <1>10 DEF Crash, LoadPolicy_Fails, StopBOS
<1>11. CASE UNCHANGED vars
  BY <1>8, <1>11 DEF vars
<1>12. ASSUME NEW w \in Workers, Fault(w)
       PROVE  CsvInv' /\ FaultsBounded'
  BY <1>4, <1>12 DEF Fault, UpdateRBACPolicy_SaveFails, Regenerate_FindFails, Regenerate_Fails
<1>13. ASSUME NEW r \in Rules, SeedRBACPolicies_CreateFails(r)
       PROVE  CsvInv' /\ FaultsBounded'
  BY <1>4, <1>13 DEF SeedRBACPolicies_CreateFails
<1>14. QED
  BY <1>1, <1>2, <1>3, <1>5, <1>6, <1>7, <1>9, <1>10, <1>11, <1>12, <1>13
  DEF Next, Proceed, SeedRBACPolicies

\* With one administrator at a time, and until something crashes or fails, the
\* CSV holds the active rows of the table whenever OAS is between requests.
THEOREM CsvMatchesAuthorityCorrect == OneAdministrator => (Spec => []CsvMatchesAuthority)
<1> SUFFICES ASSUME OneAdministrator
             PROVE  Spec => []CsvMatchesAuthority
  OBVIOUS
<1>1. Init => CsvInv /\ FaultsBounded
  <2> SUFFICES ASSUME Init PROVE CsvInv /\ FaultsBounded
    OBVIOUS
  <2>1. Stored(db) = {} /\ oas = "down" /\ \A w \in Workers : pc[w] = "idle"
    BY DEF Init, Stored
  <2>2. FaultsBounded
    BY BoundsAssumption DEF Init, FaultsBounded
  <2>3. QED BY <2>1, <2>2 DEF CsvInv, ThreadInv
<1>2. TypeOK /\ (CsvInv /\ FaultsBounded) /\ [Next]_vars => (CsvInv /\ FaultsBounded)'
  BY CsvInvKept
<1>3. CsvInv => CsvMatchesAuthority
  BY DEF CsvInv, CsvMatchesAuthority
<1>4. QED BY <1>1, <1>2, <1>3, TypeCorrect, PTL DEF Spec

-----------------------------------------------------------------------------
\* What BOS enforces when it has nothing to catch up with, and OAS neither.
EnforcedIsStored ==
  Undisturbed /\ oas = "up" /\ Quiet /\ lastMod = file.mtime => rules = Active(db)

\* The pipeline from end to end, the safety half of EnforcedMatchesAuthority:
\* with one administrator, a clock that tells writes apart and no fault, a BOS
\* that has the time stamp of the file while OAS is between requests enforces
\* exactly the active rows of the authority's table.
THEOREM EnforcedIsStoredCorrect ==
  FineClock = TRUE /\ OneAdministrator => (Spec => []EnforcedIsStored)
<1> SUFFICES ASSUME FineClock = TRUE, OneAdministrator
             PROVE  Spec => []EnforcedIsStored
  OBVIOUS
<1>1. ReloadComplete /\ CsvMatchesAuthority => EnforcedIsStored
  BY DEF ReloadComplete, CsvMatchesAuthority, EnforcedIsStored
<1>2. Spec => []ReloadComplete
  BY ReloadCorrect
<1>3. Spec => []CsvMatchesAuthority
  BY CsvMatchesAuthorityCorrect
<1>4. QED BY <1>1, <1>2, <1>3, PTL
=============================================================================
