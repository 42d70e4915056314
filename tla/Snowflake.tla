------------------------------ MODULE Snowflake ------------------------------
(***************************************************************************)
(* The ID generator of pkg/idgen: milliseconds, a machine number and a     *)
(* sequence number that counts the IDs of one millisecond and makes the    *)
(* caller wait when it wraps.  Several processes, one generator each.      *)
(***************************************************************************)
EXTENDS Naturals

CONSTANTS
  Machines,  \* machineID & 0x3FF of each process
  SeqSize,   \* 0xFFF + 1
  MaxClock   \* bound: the clock stops there

ASSUME SnowflakeAssumption ==
  Machines \subseteq Nat /\ SeqSize \in Nat \ {0} /\ MaxClock \in Nat \ {0}

VARIABLES
  clock,    \* time.Now().UnixMilli() - epoch
  lastTime, \* Snowflake.lastTime
  sequence, \* Snowflake.sequence
  waiting,  \* the machines whose generator spins for the next millisecond
  issued,   \* history: the IDs returned
  served,   \* history: how many calls have returned
  setBack   \* history: has the clock ever been set back?

idVars == <<clock, lastTime, sequence, waiting, issued, served, setBack>>

-----------------------------------------------------------------------------
\* An ID by its three fields; Encode packs them as the code does.
Encode(id) == id[1] * 4194304 + (id[2] * 4096 + id[3])

\* A call returns under the mutex.
Return(m, s) ==
  /\ lastTime' = [lastTime EXCEPT ![m] = clock]
  /\ sequence' = [sequence EXCEPT ![m] = s]
  /\ issued' = issued \cup {<<clock, m, s>>}
  /\ served' = served + 1 /\ UNCHANGED setBack

\* Mutant: the wrapped sequence is used at once.
SameMillisecond_NoWait(m) ==
  /\ m \notin waiting /\ clock = lastTime[m]
  /\ Return(m, (sequence[m] + 1) % SeqSize)
  /\ UNCHANGED <<clock, waiting>>

\* Another call within the millisecond of the last one; when the sequence
\* wraps it keeps the mutex and spins.
SameMillisecond(m) ==
  /\ m \notin waiting /\ clock = lastTime[m]
  /\ LET s == (sequence[m] + 1) % SeqSize IN
     \/ s # 0 /\ Return(m, s) /\ UNCHANGED waiting
     \/ /\ s = 0
        /\ sequence' = [sequence EXCEPT ![m] = 0] /\ waiting' = waiting \cup {m}
        /\ UNCHANGED <<lastTime, issued, served, setBack>>
  /\ UNCHANGED clock

\* Mutant: the counter runs on over the milliseconds, up to a full word.
NewMillisecond_Runs(m) ==
  /\ m \notin waiting /\ clock # lastTime[m]
  /\ Return(m, sequence[m] + 1)
  /\ UNCHANGED <<clock, waiting>>

\* The first call of another millisecond, later or, after the clock was set
\* back, earlier.
NewMillisecond(m) ==
  /\ m \notin waiting /\ clock # lastTime[m]
  /\ Return(m, 0)
  /\ UNCHANGED <<clock, waiting>>

\* The spinning call sees the clock pass the last time.
Woken(m) ==
  /\ m \in waiting /\ clock > lastTime[m]
  /\ waiting' = waiting \ {m}
  /\ Return(m, 0)
  /\ UNCHANGED clock

\* A new process of the same machine, not within the millisecond of the old one.
Restart(m) ==
  /\ clock < MaxClock
  /\ clock' = clock + 1
  /\ lastTime' = [lastTime EXCEPT ![m] = 0] /\ sequence' = [sequence EXCEPT ![m] = 0]
  /\ waiting' = waiting \ {m}
  /\ UNCHANGED <<issued, served, setBack>>

ClockTick ==
  /\ clock < MaxClock
  /\ clock' = clock + 1
  /\ UNCHANGED <<lastTime, sequence, waiting, issued, served, setBack>>

\* The administrator or NTP sets the wall clock back.
SetBack ==
  /\ clock > 1
  /\ clock' = clock - 1 /\ setBack' = TRUE
  /\ UNCHANGED <<lastTime, sequence, waiting, issued, served>>

IdInit ==
  /\ clock = 1
  /\ lastTime = [m \in Machines |-> 0] /\ sequence = [m \in Machines |-> 0]
  /\ waiting = {} /\ issued = {} /\ served = 0 /\ setBack = FALSE

Generate(m) == SameMillisecond(m) \/ NewMillisecond(m)

IdNext ==
  \/ \E m \in Machines : Generate(m) \/ Woken(m) \/ Restart(m)
  \/ ClockTick \/ SetBack

IdSpec == IdInit /\ [][IdNext]_idVars

-----------------------------------------------------------------------------
(* Properties.                                                             *)

\* The type invariant of the generators.
TypeOK ==
  /\ clock \in Nat \ {0} /\ lastTime \in [Machines -> Nat]
  /\ sequence \in [Machines -> 0 .. SeqSize - 1]
  /\ waiting \subseteq Machines
  /\ issued \subseteq Nat \X Machines \X (0 .. SeqSize - 1)
  /\ served \in Nat /\ setBack \in BOOLEAN

\* Until the clock is first set back, every call returns an ID that no call of
\* any process has returned before: the sequence never wraps into a millisecond
\* it has used, and a restart does not start it again in one.
AlwaysNew ==
  [][served' # served /\ ~setBack => \E id \in issued' : id \notin issued]_idVars
=============================================================================
