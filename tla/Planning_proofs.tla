---------------------------- MODULE Planning_proofs ----------------------------
(* Proofs about the planning of projects: Timesheets first, then GovernedDependencies with
   the schedule calculations it EXTENDS, then ResourceLeveling.  The parameters are
   arbitrary: any sets of allocations, entries, days and hours, any length of a month,
   any finite set of tasks, any week patterns and holidays, lags, durations and loads.

   TimesheetsAgree is inductive but for one point: that the hours of an allocation are
   a number rests on the sum of its entries, and a sum is a number only over a finite
   set.  FiniteLive says that only finitely many entries ever exist at a time, since
   every operation adds at most two, so that nothing need be assumed of Entries.

   The schedule is a function of the rows and the dependencies, defined by recursion over
   a network.  That the recursion has exactly one solution on a finite network without
   cycles is proved here (EarlyExists, EarlyUnique), and what the dates promise follows
   from one step of it.  Induction appears as a first task of a set (SomeFirst): one that
   has no predecessor in the set.  The backward pass is treated likewise (LateExists,
   SomeLast); that it undoes the forward pass, day by day (Adjoint), makes its total
   float exact.                                                                    *)
EXTENDS Timesheets, GovernedDependencies, ResourceLeveling, FiniteSums

-----------------------------------------------------------------------------
(* Tables of time *)

EntryTables == [Entries -> EntryRows \cup {Absent}]
AllocationTables == [Allocations -> AllocationRows \cup {Absent}]
PeriodTables == [Resources \X PeriodStarts -> PeriodRows \cup {Absent}]

(* The entries of a table, and those of one allocation. *)
LiveIn(rows) == {e \in Entries : rows[e] # Absent}
EntriesIn(rows, a) == {e \in Entries : rows[e] # Absent /\ rows[e].allocation = a}

FiniteLive == IsFiniteSet(Live)

IInv == TimesheetsAgree /\ FiniteLive

-----------------------------------------------------------------------------
(* Sums of hours *)

(* The hours that the entries of an allocation add up to are a natural number. *)
LEMMA HoursSyncedType ==
    ASSUME NEW rows \in EntryTables, IsFiniteSet(LiveIn(rows)), NEW a
    PROVE  HoursSynced(rows, a) \in Nat
<1> DEFINE S == EntriesIn(rows, a)
           f == [e \in S |-> rows[e].hours]
<1>1. IsFiniteSet(S)
  <2>1. S \subseteq LiveIn(rows)
    BY DEF EntriesIn, LiveIn
  <2> HIDE DEF S
  <2> QED BY <2>1, FS_Subset
<1>2. \A e \in S : f[e] \in Nat
  BY DEF EntriesIn, EntryTables, EntryRows
<1>3. HoursSynced(rows, a) = SumFunctionOnSet(f, S)
  <2>1. HoursSynced(rows, a) = SumFunction(f)
    BY Zenon DEF HoursSynced, SumHours, EntriesIn
  <2>2. DOMAIN f = S
    OBVIOUS
  <2> QED BY <2>1, <2>2, Zenon DEF SumFunction
<1> HIDE DEF S, f
<1> QED BY <1>1, <1>2, <1>3, SumNat

(* Tables that hold the same entries of an allocation give the same hours. *)
LEMMA HoursSyncedSame ==
    ASSUME NEW rows, NEW other, NEW a, EntriesIn(rows, a) = EntriesIn(other, a),
           \A e \in EntriesIn(rows, a) : rows[e] = other[e]
    PROVE  HoursSynced(rows, a) = HoursSynced(other, a)
<1>1. [e \in EntriesIn(rows, a) |-> rows[e].hours] = [e \in EntriesIn(other, a) |-> other[e].hours]
  BY Zenon
<1> QED BY <1>1, Zenon DEF HoursSynced, SumHours, EntriesIn

(* A new entry adds its hours. *)
LEMMA HoursSyncedAdded ==
    ASSUME NEW rows \in EntryTables, IsFiniteSet(LiveIn(rows)), NEW a \in Allocations,
           NEW other \in EntryTables, NEW n \in Entries, rows[n] = Absent,
           other[n] \in EntryRows, other[n].allocation = a,
           \A e \in Entries \ {n} : other[e] = rows[e]
    PROVE  HoursSynced(other, a) = HoursSynced(rows, a) + other[n].hours
<1> DEFINE row == other[n]
           S == EntriesIn(rows, a)
           T == EntriesIn(other, a)
           f == [e \in S |-> rows[e].hours]
           g == [e \in T |-> other[e].hours]
<1>1. row # Absent
  BY RowsAssumption
<1>2. \A e \in Entries : other[e] = IF e = n THEN row ELSE rows[e]
  OBVIOUS
<1>3. T = S \cup {n} /\ n \notin S
  BY <1>1, <1>2 DEF EntriesIn
<1>4. IsFiniteSet(S) /\ IsFiniteSet(T)
  <2>1. S \subseteq LiveIn(rows)
    BY DEF EntriesIn, LiveIn
  <2>2. IsFiniteSet(S)
    <3> HIDE DEF S
    <3> QED BY <2>1, FS_Subset
  <2> HIDE DEF S, T
  <2> QED BY <1>3, <2>2, FS_AddElement
<1>5. \A e \in T : g[e] \in Int
  BY <1>1, <1>2 DEF EntriesIn, EntryTables, EntryRows
<1>6. g[n] = row.hours
  BY <1>2, <1>3
<1>7. \A e \in S : g[e] = f[e]
  <2> SUFFICES ASSUME NEW e \in S PROVE g[e] = f[e]
    OBVIOUS
  <2>1. e \in Entries /\ e # n /\ e \in T
    BY <1>3 DEF EntriesIn
  <2>2. other[e] = rows[e]
    BY <1>2, <2>1
  <2>3. g[e] = other[e].hours
    BY <2>1
  <2> QED BY <2>2, <2>3
<1>8. HoursSynced(rows, a) = SumFunctionOnSet(f, S)
  <2>1. HoursSynced(rows, a) = SumFunction(f)
    BY Zenon DEF HoursSynced, SumHours, EntriesIn
  <2>2. DOMAIN f = S
    OBVIOUS
  <2> QED BY <2>1, <2>2, Zenon DEF SumFunction
<1>9. HoursSynced(other, a) = SumFunctionOnSet(g, T)
  <2>1. HoursSynced(other, a) = SumFunction(g)
    BY Zenon DEF HoursSynced, SumHours, EntriesIn
  <2>2. DOMAIN g = T
    OBVIOUS
  <2> QED BY <2>1, <2>2, Zenon DEF SumFunction
<1>10. HoursSynced(rows, a) \in Nat
  BY HoursSyncedType
<1>11. row.hours \in Nat
  BY DEF EntryRows
<1> HIDE DEF row, S, T, f, g
<1>12. SumFunctionOnSet(g, T) = g[n] + SumFunctionOnSet(g, T \ {n})
  <2>1. n \in T
    BY <1>3
  <2> QED BY <1>4, <1>5, <2>1, SumRemove
<1>13. T \ {n} = S
  BY <1>3
<1>14. SumFunctionOnSet(g, S) = SumFunctionOnSet(f, S)
  BY <1>4, <1>7, SumSame
<1>15. SumFunctionOnSet(g, T) = row.hours + SumFunctionOnSet(f, S)
  BY <1>6, <1>12, <1>13, <1>14
<1> QED BY <1>8, <1>9, <1>10, <1>11, <1>15 DEF row

-----------------------------------------------------------------------------
(* Writing entries *)

(* A step that leaves the entries alone, and the allocations of entries as they are,
   keeps the rows in agreement. *)
LEMMA EntriesKept ==
    ASSUME IInv, entry' = entry, allocation' \in AllocationTables, period' \in PeriodTables,
           \A a \in Allocations : EntriesOf(a) # {} => allocation'[a] = allocation[a],
           \A p \in DOMAIN period' : period'[p] # Absent =>
               (period'[p].locked <=> period'[p].status \in {"APPROVED", "LOCKED"})
    PROVE  IInv'
<1> USE DEF IInv, TimesheetsAgree
<1>1. TimeTypeOK'
  BY DEF TimeTypeOK, AllocationTables, PeriodTables
<1>2. Live' = Live /\ \A a \in Allocations : EntriesOf(a)' = EntriesOf(a)
  BY DEF Live, EntriesOf
<1>3. FiniteLive'
  BY <1>2 DEF FiniteLive
<1>4. \A e \in Live : entry[e] \in EntryRows
  BY DEF TimeTypeOK, Live
<1>5. EntriesHaveAllocations'
  <2> SUFFICES ASSUME NEW e \in Live PROVE allocation'[entry[e].allocation] # Absent
    BY <1>2 DEF EntriesHaveAllocations
  <2>1. entry[e].allocation \in Allocations /\ e \in EntriesOf(entry[e].allocation)
    BY <1>4 DEF EntryRows, EntriesOf
  <2> QED BY <2>1 DEF EntriesHaveAllocations
<1>6. LockStampMatches'
  BY DEF LockStampMatches
<1>7. HoursMatchEntries'
  <2> SUFFICES ASSUME NEW a \in Allocations, allocation'[a] # Absent, EntriesOf(a)' # {}
               PROVE  allocation'[a].hours = SumHours(entry', EntriesOf(a)')
    BY DEF HoursMatchEntries
  <2>1. allocation'[a] = allocation[a] /\ EntriesOf(a) # {}
    BY <1>2
  <2>2. allocation[a].hours = SumHours(entry, EntriesOf(a))
    BY <2>1 DEF HoursMatchEntries
  <2> QED BY <1>2, <2>1, <2>2
<1> QED BY <1>1, <1>3, <1>5, <1>6, <1>7

(* Writing the entries of one allocation, its hours with them, keeps the rows in
   agreement. *)
LEMMA EntriesWritten ==
    ASSUME IInv, NEW a \in Allocations, allocation[a] # Absent,
           NEW rows \in EntryTables, IsFiniteSet(LiveIn(rows)),
           \A e \in Entries : rows[e] # entry[e] =>
               /\ rows[e] # Absent => rows[e].allocation = a
               /\ entry[e] # Absent => entry[e].allocation = a,
           WriteEntries(rows, a)
    PROVE  IInv'
<1> USE DEF IInv, TimesheetsAgree
<1> DEFINE hours == HoursSynced(rows, a)
<1>1. /\ entry' = rows
      /\ allocation' = [allocation EXCEPT ![a].hours = hours]
      /\ period' = period
  BY DEF WriteEntries
<1>2. hours \in Nat
  BY HoursSyncedType
<1> HIDE DEF hours
<1>3. /\ allocation \in AllocationTables /\ allocation[a] \in AllocationRows
      /\ allocation' = [allocation EXCEPT ![a] = [allocation[a] EXCEPT !.hours = hours]]
  <2>1. allocation \in AllocationTables /\ allocation[a] \in AllocationRows
    BY DEF TimeTypeOK, AllocationTables
  <2> QED BY <1>1, <2>1
<1>4. [allocation[a] EXCEPT !.hours = hours] \in AllocationRows
  BY <1>2, <1>3 DEF AllocationRows
<1>5. /\ allocation' \in AllocationTables
      /\ allocation'[a] # Absent
      /\ allocation'[a].hours = hours
      /\ \A b \in Allocations : b # a => allocation'[b] = allocation[b]
  BY <1>3, <1>4, RowsAssumption DEF AllocationTables, AllocationRows
<1>6. TimeTypeOK'
  BY <1>1, <1>5 DEF TimeTypeOK, AllocationTables, EntryTables
<1>7. Live' = LiveIn(rows)
  BY <1>1 DEF Live, LiveIn
<1>8. FiniteLive'
  BY <1>7 DEF FiniteLive
<1>9. EntriesHaveAllocations'
  <2> SUFFICES ASSUME NEW e \in Entries, rows[e] # Absent
               PROVE  allocation'[rows[e].allocation] # Absent
    BY <1>1, <1>7 DEF EntriesHaveAllocations, LiveIn
  <2>1. CASE rows[e].allocation = a
    BY <1>5, <2>1
  <2>2. CASE rows[e].allocation # a
    <3>1. entry[e] = rows[e]
      BY <2>2
    <3>2. allocation[entry[e].allocation] # Absent
      BY <3>1 DEF EntriesHaveAllocations, Live
    <3>3. rows[e].allocation \in Allocations
      BY DEF EntryTables, EntryRows
    <3> QED BY <1>5, <2>2, <3>1, <3>2, <3>3
  <2> QED BY <2>1, <2>2
<1>10. LockStampMatches'
  BY <1>1 DEF LockStampMatches
<1>11. \A b \in Allocations : EntriesOf(b)' = EntriesIn(rows, b)
  BY <1>1 DEF EntriesOf, Live, EntriesIn
<1>12. HoursMatchEntries'
  <2> SUFFICES ASSUME NEW b \in Allocations, allocation'[b] # Absent, EntriesIn(rows, b) # {}
               PROVE  allocation'[b].hours = SumHours(rows, EntriesIn(rows, b))
    BY <1>1, <1>11 DEF HoursMatchEntries
  <2>1. SumHours(rows, EntriesIn(rows, b)) = HoursSynced(rows, b)
    BY Zenon DEF HoursSynced, EntriesIn
  <2>2. CASE b = a
    BY <1>5, <2>1, <2>2 DEF hours
  <2>3. CASE b # a
    <3>1. EntriesIn(rows, b) = EntriesIn(entry, b)
      BY <2>3 DEF EntriesIn
    <3>2. \A e \in EntriesIn(rows, b) : rows[e] = entry[e]
      BY <2>3 DEF EntriesIn
    <3>3. HoursSynced(rows, b) = HoursSynced(entry, b)
      BY <3>1, <3>2, HoursSyncedSame
    <3>4. EntriesOf(b) = EntriesIn(entry, b)
      BY DEF EntriesOf, Live, EntriesIn
    <3>5. allocation[b].hours = SumHours(entry, EntriesIn(entry, b))
      BY <1>5, <2>3, <3>1, <3>4 DEF HoursMatchEntries
    <3>6. SumHours(entry, EntriesIn(entry, b)) = HoursSynced(entry, b)
      BY Zenon DEF HoursSynced, EntriesIn
    <3> QED BY <1>5, <2>1, <2>3, <3>3, <3>5, <3>6
  <2> QED BY <2>2, <2>3
<1> QED BY <1>6, <1>8, <1>9, <1>10, <1>12

(* Writing one row of a table with finitely many entries leaves finitely many. *)
LEMMA OneWritten ==
    ASSUME NEW rows \in EntryTables, IsFiniteSet(LiveIn(rows)),
           NEW other \in EntryTables, NEW n \in Entries,
           \A e \in Entries \ {n} : other[e] = rows[e]
    PROVE  IsFiniteSet(LiveIn(other))
<1>1. LiveIn(other) \subseteq LiveIn(rows) \cup {n}
  BY DEF LiveIn
<1>2. IsFiniteSet(LiveIn(rows) \cup {n})
  BY FS_AddElement
<1> QED BY <1>1, <1>2, FS_Subset

(* Removing allocations with their entries keeps the rows in agreement. *)
LEMMA AllocationsRemoved ==
    ASSUME IInv, NEW S, RemoveAllocations(S)
    PROVE  IInv'
<1> USE DEF IInv, TimesheetsAgree
<1>1. \A a \in Allocations : allocation'[a] = IF a \in S THEN Absent ELSE allocation[a]
  BY DEF RemoveAllocations
<1>2. \A e \in Entries :
          entry'[e] = IF e \in Live /\ entry[e].allocation \in S THEN Absent ELSE entry[e]
  BY DEF RemoveAllocations
<1>3. TimeTypeOK'
  <2>1. allocation' \in AllocationTables
    BY DEF RemoveAllocations, TimeTypeOK, AllocationTables
  <2>2. entry' \in EntryTables
    BY DEF RemoveAllocations, TimeTypeOK, EntryTables
  <2> QED BY <2>1, <2>2 DEF RemoveAllocations, TimeTypeOK, AllocationTables, EntryTables
<1>4. Live' = {e \in Live : entry[e].allocation \notin S}
  BY <1>2 DEF Live
<1>5. FiniteLive'
  BY <1>4, FS_Subset DEF FiniteLive
<1>6. \A e \in Live' : e \in Entries /\ e \in Live /\ entry'[e] = entry[e] /\ entry[e].allocation \notin S
  BY <1>2, <1>4 DEF Live
<1>7. EntriesHaveAllocations'
  <2> SUFFICES ASSUME NEW e \in Live' PROVE allocation'[entry'[e].allocation] # Absent
    BY DEF EntriesHaveAllocations
  <2>1. entry[e].allocation \in Allocations /\ allocation[entry[e].allocation] # Absent
    BY <1>6 DEF TimeTypeOK, EntryRows, Live, EntriesHaveAllocations
  <2> QED BY <1>1, <1>6, <2>1
<1>8. LockStampMatches'
  BY DEF LockStampMatches, RemoveAllocations
<1>9. HoursMatchEntries'
  <2> SUFFICES ASSUME NEW a \in Allocations, allocation'[a] # Absent, EntriesOf(a)' # {}
               PROVE  allocation'[a].hours = SumHours(entry', EntriesOf(a)')
    BY DEF HoursMatchEntries
  <2>1. a \notin S /\ allocation'[a] = allocation[a]
    BY <1>1
  <2>2. EntriesOf(a)' = EntriesOf(a)
    BY <1>2, <1>4, <2>1 DEF EntriesOf, Live
  <2>3. \A e \in EntriesOf(a) : entry'[e] = entry[e]
    BY <1>2, <2>1 DEF EntriesOf, Live
  <2>4. allocation[a].hours = SumHours(entry, EntriesOf(a))
    BY <2>1, <2>2 DEF HoursMatchEntries
  <2>5. SumHours(entry', EntriesOf(a)) = SumHours(entry, EntriesOf(a))
    <3>1. [e \in EntriesOf(a) |-> entry'[e].hours] = [e \in EntriesOf(a) |-> entry[e].hours]
      BY <2>3, Zenon
    <3> QED BY <3>1, Zenon DEF SumHours
  <2> QED BY <2>1, <2>2, <2>4, <2>5
<1> QED BY <1>3, <1>5, <1>7, <1>8, <1>9

-----------------------------------------------------------------------------
(* The operations on entries, as writes of one table *)

(* What the steps below use of the invariant. *)
LEMMA Tables ==
    ASSUME IInv
    PROVE  /\ entry \in EntryTables
           /\ IsFiniteSet(LiveIn(entry))
           /\ \A a \in Allocations : allocation[a] # Absent =>
                 /\ allocation[a] \in AllocationRows
                 /\ allocation[a].hours \in Nat
           /\ \A e \in Entries : entry[e] # Absent =>
                 /\ entry[e] \in EntryRows
                 /\ entry[e].allocation \in Allocations
                 /\ allocation[entry[e].allocation] # Absent
<1>1. entry \in EntryTables /\ IsFiniteSet(LiveIn(entry))
  BY DEF IInv, TimesheetsAgree, TimeTypeOK, EntryTables, FiniteLive, Live, LiveIn
<1>2. ASSUME NEW a \in Allocations, allocation[a] # Absent
      PROVE  allocation[a] \in AllocationRows /\ allocation[a].hours \in Nat
  BY <1>2 DEF IInv, TimesheetsAgree, TimeTypeOK, AllocationRows
<1>3. ASSUME NEW e \in Entries, entry[e] # Absent
      PROVE  /\ entry[e] \in EntryRows
             /\ entry[e].allocation \in Allocations
             /\ allocation[entry[e].allocation] # Absent
  BY <1>3 DEF IInv, TimesheetsAgree, TimeTypeOK, EntryRows, EntriesHaveAllocations, Live
<1> QED BY <1>1, <1>2, <1>3

(* The opening entry of an allocation is a row of its hours; the hours before it are
   those of no entry. *)
LEMMA SeedWrites ==
    ASSUME IInv, NEW a \in Allocations, allocation[a] # Absent, NEW s \in Entries,
           NEW legacy \in EntryDates, NeedsSeed(a), entry[s] = Absent,
           NEW rows, rows = Seeded(a, s, legacy)
    PROVE  /\ rows \in EntryTables
           /\ IsFiniteSet(LiveIn(rows))
           /\ \A e \in Entries \ {s} : rows[e] = entry[e]
           /\ rows[s] \in EntryRows /\ rows[s] # Absent
           /\ rows[s].allocation = a /\ rows[s].date = legacy
           /\ HoursSynced(rows, a) >= allocation[a].hours
<1> DEFINE row == [allocation |-> a, date |-> legacy, hours |-> allocation[a].hours]
<1>1. rows = [entry EXCEPT ![s] = row]
  BY DEF Seeded
<1>2. row \in EntryRows
  BY Tables DEF NeedsSeed, EntryRows
<1>3. row.allocation = a /\ row.date = legacy /\ row.hours = allocation[a].hours
  OBVIOUS
<1>4. row # Absent
  BY <1>2, RowsAssumption
<1> HIDE DEF row
<1>5. /\ rows \in EntryTables /\ IsFiniteSet(LiveIn(rows))
      /\ \A e \in Entries : rows[e] = IF e = s THEN row ELSE entry[e]
  <2>1. rows \in EntryTables /\ \A e \in Entries : rows[e] = IF e = s THEN row ELSE entry[e]
    BY <1>1, <1>2, Tables DEF EntryTables
  <2> QED BY <2>1, Tables, OneWritten
<1>6. HoursSynced(rows, a) = HoursSynced(entry, a) + row.hours
  BY <1>2, <1>3, <1>5, Tables, HoursSyncedAdded
<1>7. HoursSynced(entry, a) \in Nat /\ allocation[a].hours \in Nat
  BY Tables, HoursSyncedType
<1>8. HoursSynced(rows, a) >= allocation[a].hours
  BY <1>3, <1>6, <1>7
<1> QED BY <1>2, <1>3, <1>4, <1>5, <1>8

(* Without legacy hours, an allocation shows the hours of its entries. *)
LEMMA NothingToSeed ==
    ASSUME IInv, NEW a \in Allocations, allocation[a] # Absent, ~NeedsSeed(a)
    PROVE  HoursSynced(entry, a) >= allocation[a].hours
<1>1. HoursSynced(entry, a) \in Nat /\ allocation[a].hours \in Nat
  BY Tables, HoursSyncedType
<1>2. CASE EntriesOf(a) = {}
  <2>1. allocation[a].hours = 0
    BY <1>1, <1>2 DEF NeedsSeed
  <2> QED BY <1>1, <2>1
<1>3. CASE EntriesOf(a) # {}
  <2>1. allocation[a].hours = SumHours(entry, EntriesOf(a))
    BY <1>3 DEF IInv, TimesheetsAgree, HoursMatchEntries
  <2>2. EntriesOf(a) = EntriesIn(entry, a)
    BY DEF EntriesOf, Live, EntriesIn
  <2>3. HoursSynced(entry, a) = SumHours(entry, EntriesIn(entry, a))
    BY Zenon DEF HoursSynced, EntriesIn
  <2> QED BY <1>1, <2>1, <2>2, <2>3
<1> QED BY <1>2, <1>3

(* A write that changes only entries of allocation a, those before it, and those after
   it, in periods that may be edited, and that adds entries only if a's hours do not
   shrink. *)
GoodWrite(rows, a) ==
    /\ a \in Allocations /\ allocation[a] # Absent
    /\ rows \in EntryTables /\ IsFiniteSet(LiveIn(rows))
    /\ \A e \in Entries : rows[e] # entry[e] =>
          /\ rows[e] # Absent => /\ rows[e].allocation = a
                               /\ Editable(allocation[a].resource, rows[e].date)
          /\ entry[e] # Absent => /\ entry[e].allocation = a
                                /\ Editable(allocation[a].resource, entry[e].date)
    /\ (\E e \in Entries : entry[e] = Absent /\ rows[e] # Absent) =>
          HoursSynced(rows, a) >= allocation[a].hours
    /\ WriteEntries(rows, a)

(* initialize_timesheet_for_work_allocation *)
LEMMA InitializeWrites ==
    ASSUME IInv, NEW a \in Allocations, NEW s \in Entries, NEW legacy \in EntryDates,
           InitializeTimesheet(a, s, legacy)
    PROVE  \E rows : GoodWrite(rows, a)
<1> PICK rows : rows = Seeded(a, s, legacy)
  OBVIOUS
<1>1. /\ allocation[a] # Absent /\ NeedsSeed(a) /\ entry[s] = Absent
      /\ Editable(allocation[a].resource, legacy)
      /\ WriteEntries(rows, a)
  BY DEF InitializeTimesheet
<1>2. /\ rows \in EntryTables /\ IsFiniteSet(LiveIn(rows))
      /\ \A e \in Entries \ {s} : rows[e] = entry[e]
      /\ rows[s].allocation = a /\ rows[s].date = legacy
      /\ HoursSynced(rows, a) >= allocation[a].hours
  BY <1>1, SeedWrites
<1> QED BY <1>1, <1>2 DEF GoodWrite

(* add_work_entry, with or without an opening entry. *)
LEMMA AddWrites ==
    ASSUME IInv, NEW a \in Allocations, NEW e \in Entries, NEW d \in EntryDates,
           NEW h \in Hours, NEW s \in Entries, NEW legacy \in EntryDates,
           AddWorkEntry(a, e, d, h, s, legacy)
    PROVE  \E rows : GoodWrite(rows, a)
<1> DEFINE row == [allocation |-> a, date |-> d, hours |-> h]
<1>1. /\ allocation[a] # Absent /\ entry[e] = Absent
      /\ Editable(allocation[a].resource, d)
  BY DEF AddWorkEntry
<1>2. row \in EntryRows /\ row.allocation = a /\ row.date = d /\ row.hours = h /\ h \in Nat
  BY TimeAssumption DEF AddWorkEntry, ValidHours, EntryRows
<1>3. allocation[a].hours \in Nat
  BY <1>1, Tables
<1>4. CASE NeedsSeed(a)
  <2>1. /\ Editable(allocation[a].resource, legacy)
        /\ entry[s] = Absent /\ s # e
        /\ WriteEntries([Seeded(a, s, legacy) EXCEPT ![e] = row], a)
    BY <1>4, Zenon DEF AddWorkEntry
  <2>a. PICK seeded : seeded = Seeded(a, s, legacy)
    OBVIOUS
  <2>b. PICK rows : rows = [seeded EXCEPT ![e] = row]
    OBVIOUS
  <2>2. WriteEntries(rows, a)
    BY <2>1, <2>a, <2>b
  <2> HIDE DEF row
  <2>3. /\ seeded \in EntryTables /\ IsFiniteSet(LiveIn(seeded))
        /\ \A x \in Entries \ {s} : seeded[x] = entry[x]
        /\ seeded[s].allocation = a /\ seeded[s].date = legacy
        /\ HoursSynced(seeded, a) >= allocation[a].hours
    BY <1>1, <1>4, <2>1, <2>a, SeedWrites
  <2>4. /\ rows \in EntryTables /\ IsFiniteSet(LiveIn(rows))
        /\ \A x \in Entries : rows[x] = IF x = e THEN row ELSE seeded[x]
    <3>1. /\ rows \in EntryTables
          /\ \A x \in Entries : rows[x] = IF x = e THEN row ELSE seeded[x]
      BY <1>2, <2>3, <2>b DEF EntryTables
    <3>2. seeded \in EntryTables /\ IsFiniteSet(LiveIn(seeded))
      BY <2>3
    <3>3. \A x \in Entries \ {e} : rows[x] = seeded[x]
      BY <3>1
    <3>4. IsFiniteSet(LiveIn(rows))
      BY <3>1, <3>2, <3>3, OneWritten
    <3> QED BY <3>1, <3>4
  <2>5. HoursSynced(rows, a) >= allocation[a].hours
    <3>1. seeded[e] = Absent
      BY <1>1, <2>1, <2>3
    <3>2. HoursSynced(rows, a) = HoursSynced(seeded, a) + row.hours
      <4>1. rows[e] = row /\ \A x \in Entries \ {e} : rows[x] = seeded[x]
        BY <2>4
      <4>2. /\ seeded \in EntryTables /\ IsFiniteSet(LiveIn(seeded))
            /\ rows \in EntryTables /\ rows[e] \in EntryRows /\ rows[e].allocation = a
        BY <1>2, <2>3, <2>4, <4>1
      <4>3. HoursSynced(rows, a) = HoursSynced(seeded, a) + rows[e].hours
        BY <3>1, <4>1, <4>2, HoursSyncedAdded
      <4> QED BY <4>1, <4>3
    <3>3. HoursSynced(seeded, a) \in Nat
      BY <2>3, HoursSyncedType
    <3> QED BY <1>2, <1>3, <2>3, <3>2, <3>3
  <2>6. ASSUME NEW x \in Entries, rows[x] # entry[x]
        PROVE  /\ entry[x] = Absent
               /\ rows[x].allocation = a
               /\ Editable(allocation[a].resource, rows[x].date)
    <3>1. CASE x = e
      BY <1>1, <1>2, <2>4, <3>1
    <3>2. CASE x # e
      <4>1. rows[x] = seeded[x] /\ x = s
        BY <2>3, <2>4, <2>6, <3>2
      <4> QED BY <2>1, <2>3, <4>1
    <3> QED BY <3>1, <3>2
  <2> QED BY <1>1, <2>2, <2>4, <2>5, <2>6 DEF GoodWrite
<1>5. CASE ~NeedsSeed(a)
  <2>1. WriteEntries([entry EXCEPT ![e] = row], a)
    BY <1>5, Zenon DEF AddWorkEntry
  <2> PICK rows : rows = [entry EXCEPT ![e] = row]
    OBVIOUS
  <2>2. WriteEntries(rows, a)
    BY <2>1
  <2> HIDE DEF row
  <2>3. entry \in EntryTables /\ IsFiniteSet(LiveIn(entry))
    BY Tables
  <2>4. /\ rows \in EntryTables /\ IsFiniteSet(LiveIn(rows))
        /\ \A x \in Entries : rows[x] = IF x = e THEN row ELSE entry[x]
    <3>1. /\ rows \in EntryTables
          /\ \A x \in Entries : rows[x] = IF x = e THEN row ELSE entry[x]
      BY <1>2, <2>3 DEF EntryTables
    <3>2. entry \in EntryTables /\ IsFiniteSet(LiveIn(entry))
      BY <2>3
    <3>3. \A x \in Entries \ {e} : rows[x] = entry[x]
      BY <3>1
    <3>4. IsFiniteSet(LiveIn(rows))
      BY <3>1, <3>2, <3>3, OneWritten
    <3> QED BY <3>1, <3>4
  <2>5. HoursSynced(rows, a) >= allocation[a].hours
    <3>1. HoursSynced(rows, a) = HoursSynced(entry, a) + row.hours
      <4>1. rows[e] = row /\ \A x \in Entries \ {e} : rows[x] = entry[x]
        BY <2>4
      <4>2. /\ entry \in EntryTables /\ IsFiniteSet(LiveIn(entry))
            /\ rows \in EntryTables /\ rows[e] \in EntryRows /\ rows[e].allocation = a
        BY <1>2, <2>3, <2>4, <4>1
      <4>3. HoursSynced(rows, a) = HoursSynced(entry, a) + rows[e].hours
        BY <1>1, <4>1, <4>2, HoursSyncedAdded
      <4> QED BY <4>1, <4>3
    <3>2. HoursSynced(entry, a) \in Nat
      BY <2>3, HoursSyncedType
    <3>3. HoursSynced(entry, a) >= allocation[a].hours
      BY <1>1, <1>5, NothingToSeed
    <3> QED BY <1>2, <1>3, <3>1, <3>2, <3>3
  <2> QED BY <1>1, <1>2, <2>2, <2>4, <2>5 DEF GoodWrite
<1> QED BY <1>4, <1>5

(* update_time_entry, which may move the entry to another period. *)
LEMMA UpdateWrites ==
    ASSUME IInv, NEW e \in Entries, NEW d \in EntryDates, NEW h \in Hours, UpdateTimeEntry(e, d, h)
    PROVE  \E rows : GoodWrite(rows, entry[e].allocation)
<1> DEFINE a == entry[e].allocation
           row == [entry[e] EXCEPT !.date = d, !.hours = h]
<1>1. /\ entry[e] # Absent
      /\ Editable(allocation[a].resource, entry[e].date)
      /\ d # entry[e].date => Editable(allocation[a].resource, d)
      /\ ValidHours(h)
      /\ WriteEntries([entry EXCEPT ![e].date = d, ![e].hours = h], a)
  BY Zenon DEF UpdateTimeEntry
<1>2. /\ entry \in EntryTables /\ IsFiniteSet(LiveIn(entry))
      /\ entry[e] \in EntryRows /\ a \in Allocations /\ allocation[a] # Absent
  BY <1>1, Tables
<1>3. row \in EntryRows /\ row.allocation = a /\ row.date = d /\ row # Absent
  <2>1. h \in Nat \ {0}
    BY <1>1, TimeAssumption DEF ValidHours
  <2>2. row \in EntryRows /\ row.allocation = a /\ row.date = d
    BY <1>2, <2>1 DEF EntryRows
  <2> HIDE DEF row
  <2> QED BY <2>2, RowsAssumption
<1> PICK rows : rows = [entry EXCEPT ![e] = row]
  OBVIOUS
<1>4. rows = [entry EXCEPT ![e].date = d, ![e].hours = h]
  BY <1>2 DEF EntryTables
<1>5. WriteEntries(rows, a)
  BY <1>1, <1>4
<1> HIDE DEF row
<1>6. /\ rows \in EntryTables /\ IsFiniteSet(LiveIn(rows))
      /\ \A x \in Entries : rows[x] = IF x = e THEN row ELSE entry[x]
  <2>1. rows \in EntryTables /\ \A x \in Entries : rows[x] = IF x = e THEN row ELSE entry[x]
    BY <1>2, <1>3 DEF EntryTables
  <2> QED BY <2>1, <1>2, OneWritten
<1>7. Editable(allocation[a].resource, d)
  BY <1>1
<1> QED BY <1>1, <1>2, <1>3, <1>5, <1>6, <1>7 DEF GoodWrite

(* delete_time_entry *)
LEMMA DeleteWrites ==
    ASSUME IInv, NEW e \in Entries, DeleteTimeEntry(e)
    PROVE  \E rows : GoodWrite(rows, entry[e].allocation)
<1> DEFINE a == entry[e].allocation
<1>1. /\ entry[e] # Absent
      /\ Editable(allocation[a].resource, entry[e].date)
      /\ WriteEntries([entry EXCEPT ![e] = Absent], a)
  BY Zenon DEF DeleteTimeEntry
<1>2. /\ entry \in EntryTables /\ IsFiniteSet(LiveIn(entry))
      /\ a \in Allocations /\ allocation[a] # Absent
  BY <1>1, Tables
<1> PICK rows : rows = [entry EXCEPT ![e] = Absent]
  OBVIOUS
<1>3. /\ rows \in EntryTables /\ IsFiniteSet(LiveIn(rows))
      /\ \A x \in Entries : rows[x] = IF x = e THEN Absent ELSE entry[x]
  <2>1. rows \in EntryTables /\ \A x \in Entries : rows[x] = IF x = e THEN Absent ELSE entry[x]
    BY <1>2 DEF EntryTables
  <2> QED BY <2>1, <1>2, OneWritten
<1> QED BY <1>1, <1>2, <1>3 DEF GoodWrite

-----------------------------------------------------------------------------
(* Every step is one of three kinds *)

(* The entries stay as they are; only allocations without entries change, and periods
   keep their stamp. *)
EntriesAside ==
    /\ entry' = entry
    /\ allocation' \in AllocationTables
    /\ period' \in PeriodTables
    /\ \A a \in Allocations : EntriesOf(a) # {} => allocation'[a] = allocation[a]
    /\ \A p \in DOMAIN period' : period'[p] # Absent =>
          (period'[p].locked <=> period'[p].status \in {"APPROVED", "LOCKED"})

(* Deleting tasks and resources removes a set of allocations. *)
LEMMA RemovalForm ==
    /\ \A t : TaskDeleted(t) => \E S : RemoveAllocations(S)
    /\ \A r : DeleteResource(r) => \E S : RemoveAllocations(S)
BY Zenon DEF TaskDeleted, DeleteResource

(* AssignResource and SetAssignmentHours, which no entry depends on. *)
LEMMA AllocationSet ==
    ASSUME IInv, NEW a \in Allocations, EntriesOf(a) = {}, NEW row \in AllocationRows,
           allocation' = [allocation EXCEPT ![a] = row], UNCHANGED <<entry, period>>
    PROVE  EntriesAside
<1>1. allocation \in AllocationTables /\ period \in PeriodTables /\ LockStampMatches
  BY DEF IInv, TimesheetsAgree, TimeTypeOK, AllocationTables, PeriodTables
<1>2. allocation' \in AllocationTables /\ \A b \in Allocations \ {a} : allocation'[b] = allocation[b]
  BY <1>1 DEF AllocationTables
<1> QED BY <1>1, <1>2 DEF EntriesAside, LockStampMatches

(* A period is stamped when it is approved or locked. *)
LEMMA PeriodSet ==
    ASSUME IInv, NEW p \in Resources \X PeriodStarts, NEW status \in PeriodStatuses,
           NEW locked \in BOOLEAN, locked <=> status \in {"APPROVED", "LOCKED"},
           SetPeriod(p, status, locked)
    PROVE  EntriesAside
<1> DEFINE row == [status |-> status, locked |-> locked]
<1>1. allocation \in AllocationTables /\ period \in PeriodTables /\ LockStampMatches
  BY DEF IInv, TimesheetsAgree, TimeTypeOK, AllocationTables, PeriodTables
<1>2. row \in PeriodRows
  BY Zenon DEF PeriodRows
<1>3. row.status = status /\ row.locked = locked
  BY Zenon
<1>4. period' = [period EXCEPT ![p] = row] /\ UNCHANGED <<allocation, entry>>
  BY Zenon DEF SetPeriod
<1> HIDE DEF row
<1>5. /\ period' \in PeriodTables
      /\ \A q \in Resources \X PeriodStarts : period'[q] = IF q = p THEN row ELSE period[q]
  BY <1>1, <1>2, <1>4 DEF PeriodTables
<1>6. ASSUME NEW q \in DOMAIN period', period'[q] # Absent
      PROVE  period'[q].locked <=> period'[q].status \in {"APPROVED", "LOCKED"}
  <2>1. q \in Resources \X PeriodStarts /\ q \in DOMAIN period
    BY <1>1, <1>5, <1>6 DEF PeriodTables
  <2>2. CASE q = p
    BY <1>3, <1>5, <2>1, <2>2
  <2>3. CASE q # p
    <3>1. period'[q] = period[q]
      BY <1>5, <2>1, <2>3
    <3>2. period[q].locked <=> period[q].status \in {"APPROVED", "LOCKED"}
      BY <1>1, <1>6, <2>1, <3>1 DEF LockStampMatches
    <3> QED BY <3>1, <3>2
  <2> QED BY <2>2, <2>3
<1> QED BY <1>1, <1>4, <1>5, <1>6 DEF EntriesAside

(* Every step writes the entries of one allocation in open periods, removes allocations
   with their entries, or leaves the entries alone. *)
LEMMA StepKinds ==
    ASSUME IInv, [TimeNext]_timeVars
    PROVE  \/ \E rows, a : GoodWrite(rows, a)
           \/ \E S : RemoveAllocations(S)
           \/ EntriesAside
<1> USE DEF TimeNext
<1> DEFINE Goal == \/ \E rows, a : GoodWrite(rows, a)
                   \/ \E S : RemoveAllocations(S)
                   \/ EntriesAside
<1>1. ASSUME NEW a \in Allocations, NEW t \in BookedTasks, NEW r \in Resources,
             AssignResource(a, t, r)
      PROVE  Goal
  <2> DEFINE row == [task |-> t, resource |-> r, hours |-> 0]
  <2>1. row \in AllocationRows
    BY DEF AllocationRows
  <2>2. EntriesOf(a) = {}
    BY <1>1 DEF AssignResource, EntriesOf, IInv, TimesheetsAgree, EntriesHaveAllocations
  <2>3. allocation' = [allocation EXCEPT ![a] = row] /\ UNCHANGED <<entry, period>>
    BY <1>1 DEF AssignResource
  <2> HIDE DEF row
  <2> QED BY <2>1, <2>2, <2>3, AllocationSet
<1>2. ASSUME NEW a \in Allocations, NEW h \in Hours, SetAssignmentHours(a, h)
      PROVE  Goal
  <2> DEFINE row == [allocation[a] EXCEPT !.hours = h]
  <2>1. allocation[a] \in AllocationRows
    BY <1>2, Tables DEF SetAssignmentHours
  <2>2. row \in AllocationRows
    BY <2>1, TimeAssumption DEF AllocationRows
  <2>3. allocation' = [allocation EXCEPT ![a] = row]
    BY <1>2 DEF SetAssignmentHours
  <2>4. EntriesOf(a) = {} /\ UNCHANGED <<entry, period>>
    BY <1>2 DEF SetAssignmentHours
  <2> HIDE DEF row
  <2> QED BY <2>2, <2>3, <2>4, AllocationSet
<1>3. ASSUME NEW a \in Allocations, UnassignResource(a) PROVE Goal
  BY <1>3 DEF UnassignResource
<1>4. ASSUME NEW a \in Allocations, NEW s \in Entries, NEW d \in EntryDates,
             InitializeTimesheet(a, s, d)
      PROVE  Goal
  BY <1>4, InitializeWrites
<1>5. ASSUME NEW a \in Allocations, NEW e \in Entries, NEW s \in Entries, NEW d \in EntryDates,
             NEW legacy \in EntryDates, NEW h \in Hours, AddWorkEntry(a, e, d, h, s, legacy)
      PROVE  Goal
  BY <1>5, AddWrites
<1>6. ASSUME NEW t \in BookedTasks, TaskDeleted(t) PROVE Goal
  BY <1>6, RemovalForm
<1>7. ASSUME NEW r \in Resources, DeleteResource(r) PROVE Goal
  BY <1>7, RemovalForm
<1>8. ASSUME NEW e \in Entries, NEW d \in EntryDates, NEW h \in Hours, UpdateTimeEntry(e, d, h)
      PROVE  Goal
  BY <1>8, UpdateWrites
<1>9. ASSUME NEW e \in Entries, DeleteTimeEntry(e) PROVE Goal
  BY <1>9, DeleteWrites
<1>10. ASSUME NEW p \in Resources \X PeriodStarts,
              \/ SubmitPeriod(p) \/ ApprovePeriod(p) \/ RejectPeriod(p)
              \/ LockPeriod(p) \/ UnlockPeriod(p)
       PROVE  Goal
  <2>1. CASE SubmitPeriod(p)
    BY <2>1, PeriodSet DEF SubmitPeriod, PeriodStatuses
  <2>2. CASE ApprovePeriod(p)
    BY <2>2, PeriodSet DEF ApprovePeriod, PeriodStatuses
  <2>3. CASE RejectPeriod(p)
    BY <2>3, PeriodSet DEF RejectPeriod, PeriodStatuses
  <2>4. CASE LockPeriod(p)
    BY <2>4, PeriodSet DEF LockPeriod, PeriodStatuses
  <2>5. CASE UnlockPeriod(p)
    BY <2>5, PeriodSet DEF UnlockPeriod, PeriodStatuses
  <2> QED BY <1>10, <2>1, <2>2, <2>3, <2>4, <2>5
<1>11. ASSUME UNCHANGED timeVars PROVE Goal
  BY <1>11 DEF timeVars, EntriesAside, IInv, TimesheetsAgree, TimeTypeOK, AllocationTables,
               PeriodTables, LockStampMatches
<1> HIDE DEF Goal
<1>12. Goal
  BY <1>1, <1>2, <1>3, <1>4, <1>5, <1>6, <1>7, <1>8, <1>9, <1>10, <1>11, Zenon
<1> QED BY <1>12 DEF Goal

-----------------------------------------------------------------------------
(* The theorems *)

(* The first state has no rows. *)
LEMMA InitAgrees == TimeInit => IInv
<1> SUFFICES ASSUME TimeInit PROVE IInv
  OBVIOUS
<1>1. TimeTypeOK
  BY DEF TimeInit, TimeTypeOK
<1>2. Live = {}
  BY DEF TimeInit, Live
<1>3. FiniteLive
  BY <1>2, FS_EmptySet DEF FiniteLive
<1>4. EntriesHaveAllocations /\ LockStampMatches /\ HoursMatchEntries
  BY <1>2 DEF TimeInit, EntriesHaveAllocations, LockStampMatches, HoursMatchEntries
<1> QED BY <1>1, <1>3, <1>4 DEF IInv, TimesheetsAgree

(* Each of the three kinds of step keeps the invariant. *)
LEMMA StepAgrees == IInv /\ [TimeNext]_timeVars => IInv'
<1> SUFFICES ASSUME IInv, [TimeNext]_timeVars PROVE IInv'
  OBVIOUS
<1>1. ASSUME NEW rows, NEW a, GoodWrite(rows, a) PROVE IInv'
  BY <1>1, EntriesWritten DEF GoodWrite
<1>2. ASSUME NEW S, RemoveAllocations(S) PROVE IInv'
  BY <1>2, AllocationsRemoved
<1>3. ASSUME EntriesAside PROVE IInv'
  BY <1>3, EntriesKept DEF EntriesAside
<1> QED BY <1>1, <1>2, <1>3, StepKinds

(* What one step may do to the entries of frozen periods. *)
FrozenStep ==
    \A a \in Allocations, e \in Entries : Kept(a) =>
        LET r == allocation[a].resource
            Touches(rows) == /\ rows[e] # Absent
                             /\ rows[e].allocation = a
                             /\ ~Editable(r, rows[e].date)
        IN  Touches(entry) \/ Touches(entry') => entry'[e] = entry[e]

(* Each kind of step leaves the entries of frozen periods alone. *)
LEMMA StepKeepsFrozen == IInv /\ [TimeNext]_timeVars => FrozenStep
<1> SUFFICES ASSUME IInv, [TimeNext]_timeVars PROVE FrozenStep
  OBVIOUS
<1>1. ASSUME NEW rows, NEW b, GoodWrite(rows, b) PROVE FrozenStep
  <2>1. entry' = rows
    BY <1>1 DEF GoodWrite, WriteEntries
  <2> QED BY <1>1, <2>1 DEF GoodWrite, FrozenStep
<1>2. ASSUME NEW S, RemoveAllocations(S) PROVE FrozenStep
  <2> SUFFICES ASSUME NEW a \in Allocations, NEW e \in Entries, Kept(a), entry'[e] # entry[e],
                      \/ entry[e] # Absent /\ entry[e].allocation = a
                      \/ entry'[e] # Absent
               PROVE  FALSE
    BY DEF FrozenStep
  <2>1. e \in Live /\ entry[e].allocation \in S /\ entry'[e] = Absent
    BY <1>2 DEF RemoveAllocations
  <2>2. a \in S
    BY <2>1
  <2>3. allocation'[a] = Absent
    BY <1>2, <2>2 DEF RemoveAllocations
  <2> QED BY <2>3 DEF Kept
<1>3. ASSUME EntriesAside PROVE FrozenStep
  BY <1>3 DEF EntriesAside, FrozenStep
<1> QED BY <1>1, <1>2, <1>3, StepKinds

(* What one step may do to the hours of an allocation that gets an entry. *)
LoggingStep ==
    \A a \in Allocations :
        Kept(a) /\ (\E e \in Entries : /\ entry[e] = Absent
                                       /\ entry'[e] # Absent
                                       /\ entry'[e].allocation = a)
          => allocation'[a].hours >= allocation[a].hours

(* Each kind of step keeps the hours of an allocation that gets an entry. *)
LEMMA StepKeepsHours == IInv /\ [TimeNext]_timeVars => LoggingStep
<1> SUFFICES ASSUME IInv, [TimeNext]_timeVars,
                    NEW a \in Allocations, Kept(a), NEW e \in Entries,
                    entry[e] = Absent, entry'[e] # Absent, entry'[e].allocation = a
             PROVE  allocation'[a].hours >= allocation[a].hours
  BY DEF LoggingStep
<1>1. ASSUME NEW rows, NEW b, GoodWrite(rows, b)
      PROVE  allocation'[a].hours >= allocation[a].hours
  <2>1. entry' = rows /\ allocation' = [allocation EXCEPT ![b].hours = HoursSynced(rows, b)]
    BY <1>1 DEF GoodWrite, WriteEntries
  <2>2. b = a /\ HoursSynced(rows, a) >= allocation[a].hours
    BY <1>1, <2>1 DEF GoodWrite
  <2>3. allocation \in AllocationTables /\ allocation[a] \in AllocationRows
    BY Tables DEF Kept, IInv, TimesheetsAgree, TimeTypeOK, AllocationTables
  <2>4. allocation'[a].hours = HoursSynced(rows, a)
    BY <2>1, <2>2, <2>3 DEF AllocationTables, AllocationRows
  <2> QED BY <2>2, <2>4
<1>2. ASSUME NEW S, RemoveAllocations(S) PROVE FALSE
  BY <1>2 DEF RemoveAllocations
<1>3. ASSUME EntriesAside PROVE FALSE
  BY <1>3 DEF EntriesAside
<1> QED BY <1>1, <1>2, <1>3, StepKinds

(* After any sequence of edits, decisions, locks and removals rows are well formed, no
   entry outlives its allocation, a period is stamped when it is approved or locked, and
   the hours an allocation shows are the sum of its entries. *)
THEOREM TimesheetsStayInAgreement == TimeSpec => []TimesheetsAgree
<1>1. IInv => TimesheetsAgree
  BY DEF IInv
<1> QED BY <1>1, InitAgrees, StepAgrees, PTL DEF TimeSpec

(* While an allocation exists, no operation adds, changes, moves or removes one of its
   entries in a submitted, approved or locked period (_ensure_timesheet_period_editable
   before every write, in both periods of a move). *)
THEOREM FrozenEntriesAreKept == TimeSpec => FrozenEntriesStay
<1>1. IInv /\ [TimeNext]_timeVars =>
      [\A a \in Allocations, e \in Entries : Kept(a) =>
          LET r == allocation[a].resource
              Touches(rows) == /\ rows[e] # Absent
                               /\ rows[e].allocation = a
                               /\ ~Editable(r, rows[e].date)
          IN  Touches(entry) \/ Touches(entry') => entry'[e] = entry[e]]_timeVars
  BY StepKeepsFrozen DEF FrozenStep
<1> QED BY <1>1, InitAgrees, StepAgrees, PTL DEF TimeSpec, FrozenEntriesStay

(* Adding entries never lowers the hours of an allocation: what was logged before its
   first entry becomes an entry of its own (_seed_legacy_hours_entry). *)
THEOREM LoggedHoursAreKept == TimeSpec => LoggingNeverLosesHours
<1>1. IInv /\ [TimeNext]_timeVars =>
      [\A a \in Allocations :
          Kept(a) /\ (\E e \in Entries : /\ entry[e] = Absent
                                         /\ entry'[e] # Absent
                                         /\ entry'[e].allocation = a)
            => allocation'[a].hours >= allocation[a].hours]_timeVars
  BY StepKeepsHours DEF LoggingStep
<1> QED BY <1>1, InitAgrees, StepAgrees, PTL DEF TimeSpec, LoggingNeverLosesHours

-----------------------------------------------------------------------------
(* Working days (WorkCalendar) *)

(* What a saved calendar is. *)
LEMMA CalendarIs ==
    ASSUME calendar \in Calendars
    PROVE  /\ calendar.workingDays \subseteq 0..6 /\ calendar.workingDays # {}
           /\ Cardinality(Holidays) \in Nat /\ LongestBreak \in Nat /\ LongestBreak > 6
           /\ \A h \in Holidays : calendar.holiday[h] \in HolidayDates \cup {None}
<1>1. calendar.workingDays \in WeekPatterns
  BY DEF Calendars
<1>2. calendar.workingDays \subseteq 0..6 /\ calendar.workingDays # {}
  BY <1>1, CalendarAssumption
<1>3. Cardinality(Holidays) \in Nat
  BY CalendarAssumption, FS_CardinalityType
<1>4. LongestBreak \in Nat /\ LongestBreak > 6
  BY <1>3 DEF LongestBreak
<1> QED BY <1>2, <1>3, <1>4 DEF Calendars

(* In every so many days one is a working day: a holiday takes away one of the days that
   fall on a weekday. *)
LEMMA BreakEnds ==
    ASSUME calendar \in Calendars, NEW d \in Int
    PROVE  \E k \in 0..LongestBreak - 1 : IsWorkingDay(d + k)
<1> DEFINE N == Cardinality(Holidays)
<1>1. PICK w \in 0..6 : w \in calendar.workingDays
  BY CalendarIs
<1>2. N \in Nat /\ LongestBreak = 7 * (N + 1) /\ IsFiniteSet(Holidays)
  BY CalendarIs, CalendarAssumption DEF LongestBreak
<1>3. PICK j \in 0..6 : \A i \in Nat : (d + j + 7 * i) % 7 = w
  <2>1. (w - d) % 7 \in 0..6 /\ \A i \in Nat : (d + ((w - d) % 7) + 7 * i) % 7 = w
    OBVIOUS
  <2> QED BY <2>1
<1> SUFFICES ASSUME \A k \in 0..LongestBreak - 1 : ~IsWorkingDay(d + k)
             PROVE  FALSE
  OBVIOUS
<1> DEFINE day(i) == d + j + 7 * i
<1>4. ASSUME NEW i \in 0..N
      PROVE  \E h \in Holidays : calendar.holiday[h] = day(i)
  <2>1. j + 7 * i \in 0..LongestBreak - 1 /\ d + (j + 7 * i) = day(i)
    BY <1>2
  <2>2. ~IsWorkingDay(day(i))
    BY <2>1
  <2> QED BY <1>1, <1>3, <2>2 DEF IsWorkingDay
<1> DEFINE f == [i \in 0..N |-> CHOOSE h \in Holidays : calendar.holiday[h] = day(i)]
<1>5. \A i \in 0..N : f[i] \in Holidays /\ calendar.holiday[f[i]] = day(i)
  BY <1>4
<1>6. f \in [0..N -> Holidays]
  BY <1>5
<1>7. \A i, k \in 0..N : f[i] = f[k] => i = k
  <2>1. \A i, k \in 0..N : day(i) = day(k) => i = k
    BY <1>2
  <2> HIDE DEF f, day
  <2> QED BY <1>5, <2>1
<1> HIDE DEF f, N
<1>8. IsFiniteSet(0..N) /\ Cardinality(0..N) = N + 1
  BY <1>2, FS_Interval
<1>9. N < N + 1
  BY <1>2
<1>10. IsFiniteSet(Holidays) /\ Cardinality(Holidays) < Cardinality(0..N)
  BY <1>2, <1>8, <1>9 DEF N
<1>11. \E x, y \in 0..N : x # y /\ f[x] = f[y]
  BY <1>6, <1>8, <1>10, FS_PigeonHole
<1> QED BY <1>7, <1>11

(* The next and the previous working day. *)
LEMMA NextWorkingDayIs ==
    ASSUME calendar \in Calendars, NEW d \in Int
    PROVE  /\ NextWorkingDay(d) \in Int /\ NextWorkingDay(d) >= d
           /\ IsWorkingDay(NextWorkingDay(d))
           /\ \A e \in d..NextWorkingDay(d) - 1 : ~IsWorkingDay(e)
<1> DEFINE T == {k \in Nat : k <= LongestBreak /\ IsWorkingDay(d + k)}
           P(k) == /\ IsWorkingDay(d + k)
                   /\ \A j \in 0..k - 1 : ~IsWorkingDay(d + j)
<1>1. T \subseteq Nat /\ T # {}
  <2>1. PICK k \in 0..LongestBreak - 1 : IsWorkingDay(d + k)
    BY BreakEnds
  <2>2. k \in Nat /\ k <= LongestBreak
    BY <2>1, CalendarIs
  <2> QED BY <2>1, <2>2
<1>2. PICK n \in T : \A m \in T : n <= m
  <2> HIDE DEF T
  <2> QED BY <1>1, LeastNumber
<1>3. n \in 0..LongestBreak /\ P(n)
  BY <1>2, CalendarIs
<1>4. PICK k \in 0..LongestBreak : P(k) /\ NextWorkingDay(d) = d + k
  <2>1. NextWorkingDay(d) = d + CHOOSE k \in 0..LongestBreak : P(k)
    BY DEF NextWorkingDay
  <2> HIDE DEF P
  <2> QED BY <1>3, <2>1
<1>5. ASSUME NEW e \in d..NextWorkingDay(d) - 1
      PROVE  ~IsWorkingDay(e)
  <2>1. e - d \in 0..k - 1 /\ d + (e - d) = e
    BY <1>4, CalendarIs
  <2>2. ~IsWorkingDay(d + (e - d))
    BY <1>4, <2>1
  <2> QED BY <2>1, <2>2
<1> QED BY <1>4, <1>5, CalendarIs

LEMMA PreviousWorkingDayIs ==
    ASSUME calendar \in Calendars, NEW d \in Int
    PROVE  /\ PreviousWorkingDay(d) \in Int /\ PreviousWorkingDay(d) <= d
           /\ IsWorkingDay(PreviousWorkingDay(d))
           /\ \A e \in PreviousWorkingDay(d) + 1..d : ~IsWorkingDay(e)
<1> DEFINE T == {k \in Nat : k <= LongestBreak /\ IsWorkingDay(d - k)}
           P(k) == /\ IsWorkingDay(d - k)
                   /\ \A j \in 0..k - 1 : ~IsWorkingDay(d - j)
<1>1. T \subseteq Nat /\ T # {}
  <2>1. LongestBreak \in Nat /\ d - LongestBreak \in Int
    BY CalendarIs
  <2>2. PICK k \in 0..LongestBreak - 1 : IsWorkingDay((d - LongestBreak) + k)
    BY <2>1, BreakEnds
  <2>3. (d - LongestBreak) + k = d - (LongestBreak - k) /\ LongestBreak - k \in Nat
        /\ LongestBreak - k <= LongestBreak
    BY <2>1
  <2> QED BY <2>2, <2>3
<1>2. PICK n \in T : \A m \in T : n <= m
  <2> HIDE DEF T
  <2> QED BY <1>1, LeastNumber
<1>3. n \in 0..LongestBreak /\ P(n)
  BY <1>2, CalendarIs
<1>4. PICK k \in 0..LongestBreak : P(k) /\ PreviousWorkingDay(d) = d - k
  <2>1. PreviousWorkingDay(d) = d - CHOOSE k \in 0..LongestBreak : P(k)
    BY DEF PreviousWorkingDay
  <2> HIDE DEF P
  <2> QED BY <1>3, <2>1
<1>5. ASSUME NEW e \in PreviousWorkingDay(d) + 1..d
      PROVE  ~IsWorkingDay(e)
  <2>1. d - e \in 0..k - 1 /\ d - (d - e) = e
    BY <1>4, CalendarIs
  <2>2. ~IsWorkingDay(d - (d - e))
    BY <1>4, <2>1
  <2> QED BY <2>1, <2>2
<1> QED BY <1>4, <1>5, CalendarIs

-----------------------------------------------------------------------------
(* Counting working days *)

(* A count is a number, and 0 of no days. *)
LEMMA CountFinite ==
    ASSUME NEW a \in Int, NEW b \in Int
    PROVE  IsFiniteSet({d \in a..b : IsWorkingDay(d)})
BY FS_Interval, FS_Subset

LEMMA CountIs ==
    ASSUME NEW a \in Int, NEW b \in Int
    PROVE  WorkingDaysBetween(a, b) \in Nat
BY CountFinite, FS_CardinalityType DEF WorkingDaysBetween

LEMMA CountNone ==
    ASSUME NEW a \in Int, NEW b \in Int, \A d \in a..b : ~IsWorkingDay(d)
    PROVE  WorkingDaysBetween(a, b) = 0
<1>1. {d \in a..b : IsWorkingDay(d)} = {}
  OBVIOUS
<1> QED BY <1>1, FS_EmptySet DEF WorkingDaysBetween

LEMMA CountOfDay ==
    ASSUME NEW a \in Int, IsWorkingDay(a)
    PROVE  WorkingDaysBetween(a, a) = 1
<1>1. {d \in a..a : IsWorkingDay(d)} = {a}
  OBVIOUS
<1> QED BY <1>1, FS_Singleton DEF WorkingDaysBetween

(* A stretch of days is counted in two parts. *)
LEMMA CountSplit ==
    ASSUME NEW a \in Int, NEW b \in Int, NEW c \in Int, a <= c + 1, c <= b
    PROVE  WorkingDaysBetween(a, b) = WorkingDaysBetween(a, c) + WorkingDaysBetween(c + 1, b)
<1> DEFINE S == {d \in a..c : IsWorkingDay(d)}
           T == {d \in c + 1..b : IsWorkingDay(d)}
<1>1. {d \in a..b : IsWorkingDay(d)} = S \cup T /\ S \cap T = {}
  OBVIOUS
<1>2. IsFiniteSet(S) /\ IsFiniteSet(T)
  <2>1. c + 1 \in Int
    OBVIOUS
  <2> QED BY <2>1, CountFinite
<1> HIDE DEF S, T
<1>3. Cardinality(S \cup T) = Cardinality(S) + Cardinality(T)
  <2>1. /\ Cardinality(S \cup T) = Cardinality(S) + Cardinality(T) - Cardinality(S \cap T)
        /\ Cardinality(S) \in Nat /\ Cardinality(T) \in Nat
    BY <1>2, FS_Union, FS_CardinalityType
  <2>2. Cardinality(S \cap T) = 0
    BY <1>1, FS_EmptySet
  <2> QED BY <2>1, <2>2
<1> QED BY <1>1, <1>3 DEF WorkingDaysBetween, S, T

(* Longer stretches have more working days. *)
LEMMA CountGrows ==
    ASSUME NEW a \in Int, NEW b \in Int, NEW x \in Int, NEW y \in Int, a <= x, y <= b
    PROVE  WorkingDaysBetween(x, y) <= WorkingDaysBetween(a, b)
<1>1. CASE x > y
  <2>1. WorkingDaysBetween(x, y) = 0
    BY <1>1, CountNone
  <2> QED BY <2>1, CountIs
<1>2. CASE x <= y
  <2>1. WorkingDaysBetween(a, b) = WorkingDaysBetween(a, x - 1) + WorkingDaysBetween(x, b)
    <3>1. x - 1 \in Int /\ a <= (x - 1) + 1 /\ x - 1 <= b /\ (x - 1) + 1 = x
      BY <1>2
    <3> QED BY <3>1, CountSplit
  <2>2. WorkingDaysBetween(x, b) = WorkingDaysBetween(x, y) + WorkingDaysBetween(y + 1, b)
    BY <1>2, CountSplit
  <2>3. /\ WorkingDaysBetween(a, x - 1) \in Nat /\ WorkingDaysBetween(x, y) \in Nat
        /\ WorkingDaysBetween(y + 1, b) \in Nat
    BY CountIs
  <2> QED BY <2>1, <2>2, <2>3
<1> QED BY <1>1, <1>2

(* A later working day has one more before it; an earlier one has one more behind it. *)
LEMMA CountTells ==
    ASSUME NEW a \in Int, NEW b \in Int, NEW x \in Int, NEW y \in Int, x < y
    PROVE  /\ a <= y /\ IsWorkingDay(y) => WorkingDaysBetween(a, x) < WorkingDaysBetween(a, y)
           /\ x <= b /\ IsWorkingDay(x) => WorkingDaysBetween(y, b) < WorkingDaysBetween(x, b)
<1>1. ASSUME a <= y, IsWorkingDay(y)
      PROVE  WorkingDaysBetween(a, x) < WorkingDaysBetween(a, y)
  <2>1. WorkingDaysBetween(a, y) = WorkingDaysBetween(a, y - 1) + WorkingDaysBetween(y, y)
    <3>1. y - 1 \in Int /\ a <= (y - 1) + 1 /\ y - 1 <= y /\ (y - 1) + 1 = y
      BY <1>1
    <3> QED BY <3>1, CountSplit
  <2>2. WorkingDaysBetween(y, y) = 1
    BY <1>1, CountOfDay
  <2>3. WorkingDaysBetween(a, x) <= WorkingDaysBetween(a, y - 1)
    BY CountGrows
  <2>4. WorkingDaysBetween(a, x) \in Nat /\ WorkingDaysBetween(a, y - 1) \in Nat
    BY CountIs
  <2> QED BY <2>1, <2>2, <2>3, <2>4
<1>2. ASSUME x <= b, IsWorkingDay(x)
      PROVE  WorkingDaysBetween(y, b) < WorkingDaysBetween(x, b)
  <2>1. WorkingDaysBetween(x, b) = WorkingDaysBetween(x, x) + WorkingDaysBetween(x + 1, b)
    <3>1. x <= x + 1 /\ x <= b
      BY <1>2
    <3> QED BY <3>1, CountSplit
  <2>2. WorkingDaysBetween(x, x) = 1
    BY <1>2, CountOfDay
  <2>3. WorkingDaysBetween(y, b) <= WorkingDaysBetween(x + 1, b)
    BY CountGrows
  <2>4. WorkingDaysBetween(y, b) \in Nat /\ WorkingDaysBetween(x + 1, b) \in Nat
    BY CountIs
  <2> QED BY <2>1, <2>2, <2>3, <2>4
<1> QED BY <1>1, <1>2

(* One working day further. *)
LEMMA NextCounts ==
    ASSUME calendar \in Calendars, NEW a \in Int, NEW b \in Int, a <= b + 1
    PROVE  WorkingDaysBetween(a, NextWorkingDay(b + 1)) = WorkingDaysBetween(a, b) + 1
<1>1. PICK n \in Int : /\ n = NextWorkingDay(b + 1) /\ n >= b + 1 /\ IsWorkingDay(n)
                       /\ \A e \in b + 1..n - 1 : ~IsWorkingDay(e)
  BY NextWorkingDayIs
<1>2. WorkingDaysBetween(a, n) = WorkingDaysBetween(a, b) + WorkingDaysBetween(b + 1, n)
  BY <1>1, CountSplit
<1>3. WorkingDaysBetween(b + 1, n) = WorkingDaysBetween(b + 1, n - 1) + WorkingDaysBetween(n, n)
  <2>1. n - 1 \in Int /\ b + 1 <= (n - 1) + 1 /\ n - 1 <= n /\ (n - 1) + 1 = n
    BY <1>1
  <2> QED BY <2>1, CountSplit
<1>4. WorkingDaysBetween(b + 1, n - 1) = 0 /\ WorkingDaysBetween(n, n) = 1
  BY <1>1, CountNone, CountOfDay
<1> QED BY <1>1, <1>2, <1>3, <1>4

LEMMA PreviousCounts ==
    ASSUME calendar \in Calendars, NEW a \in Int, NEW b \in Int, a <= b + 1
    PROVE  WorkingDaysBetween(PreviousWorkingDay(a - 1), b) = WorkingDaysBetween(a, b) + 1
<1>1. PICK p \in Int : /\ p = PreviousWorkingDay(a - 1) /\ p <= a - 1 /\ IsWorkingDay(p)
                       /\ \A e \in p + 1..a - 1 : ~IsWorkingDay(e)
  BY PreviousWorkingDayIs
<1>2. WorkingDaysBetween(p, b) = WorkingDaysBetween(p, a - 1) + WorkingDaysBetween(a, b)
  <2>1. a - 1 \in Int /\ p <= (a - 1) + 1 /\ a - 1 <= b /\ (a - 1) + 1 = a
    BY <1>1
  <2> QED BY <2>1, CountSplit
<1>3. WorkingDaysBetween(p, a - 1) = WorkingDaysBetween(p, p) + WorkingDaysBetween(p + 1, a - 1)
  BY <1>1, CountSplit
<1>4. WorkingDaysBetween(p + 1, a - 1) = 0 /\ WorkingDaysBetween(p, p) = 1
  BY <1>1, CountNone, CountOfDay
<1>5. WorkingDaysBetween(a, b) \in Nat
  BY CountIs
<1> QED BY <1>1, <1>2, <1>3, <1>4, <1>5

-----------------------------------------------------------------------------
(* Adding working days *)

(* A step can be repeated. *)
Repeats(f, X, a, step, n) ==
    f \in [0..n -> X] /\ f[0] = a /\ \A k \in 1..n : f[k] = step[f[k - 1]]

LEMMA Iterates ==
    ASSUME NEW X, NEW a \in X, NEW step \in [X -> X], NEW n \in Nat
    PROVE  \E f : Repeats(f, X, a, step, n)
<1> DEFINE P(m) == \E f : Repeats(f, X, a, step, m)
           T == {m \in Nat : ~P(m)}
<1>1. SUFFICES ASSUME T # {} PROVE FALSE
  OBVIOUS
<1>2. PICK m \in T : \A x \in T : m <= x
  <2>1. T \subseteq Nat
    OBVIOUS
  <2> HIDE DEF T
  <2> QED BY <1>1, <2>1, LeastNumber
<1>3. m \in Nat /\ ~P(m)
  OBVIOUS
<1>4. CASE m = 0
  <2> DEFINE g == [k \in 0..0 |-> a]
  <2>1. g \in [0..0 -> X] /\ g[0] = a /\ 1..0 = {}
    OBVIOUS
  <2> QED BY <1>3, <1>4, <2>1 DEF Repeats
<1>5. CASE m # 0
  <2>1. m - 1 \in Nat /\ P(m - 1)
    <3>1. m - 1 \in Nat /\ ~(m <= m - 1)
      BY <1>3, <1>5
    <3>2. m - 1 \notin T
      BY <1>2, <3>1, Zenon
    <3> QED BY <3>1, <3>2, Zenon
  <2>2. PICK f \in [0..m - 1 -> X] : f[0] = a /\ \A k \in 1..m - 1 : f[k] = step[f[k - 1]]
    BY <2>1 DEF Repeats
  <2> DEFINE g == [k \in 0..m |-> IF k = m THEN step[f[m - 1]] ELSE f[k]]
  <2>3. g \in [0..m -> X] /\ g[0] = a
    BY <1>3, <1>5, <2>2
  <2>4. \A k \in 1..m : g[k] = step[g[k - 1]]
    BY <1>3, <1>5, <2>2
  <2> QED BY <1>3, <2>3, <2>4 DEF Repeats
<1> QED BY <1>4, <1>5

(* The loops of add_working_days: n steps from the first working day. *)
Forward(start, f, n) ==
    f = [k \in 0..n |-> IF k = 0 THEN NextWorkingDay(start) ELSE NextWorkingDay(f[k - 1] + 1)]
Backward(start, f, n) ==
    f = [k \in 0..n |-> IF k = 0 THEN NextWorkingDay(start) ELSE PreviousWorkingDay(f[k - 1] - 1)]

LEMMA ForwardRuns ==
    ASSUME calendar \in Calendars, NEW start \in Int, NEW n \in Nat
    PROVE  \E f \in [0..n -> Int] : Forward(start, f, n)
<1> DEFINE step == [d \in Int |-> NextWorkingDay(d + 1)]
<1>1. step \in [Int -> Int] /\ \A d \in Int : step[d] = NextWorkingDay(d + 1)
  <2>1. \A d \in Int : NextWorkingDay(d + 1) \in Int
    BY NextWorkingDayIs
  <2> QED BY <2>1
<1>2. NextWorkingDay(start) \in Int
  BY NextWorkingDayIs
<1> HIDE DEF step
<1>3. PICK f \in [0..n -> Int] : /\ f[0] = NextWorkingDay(start)
                                 /\ \A k \in 1..n : f[k] = step[f[k - 1]]
  <2>1. \E f : Repeats(f, Int, NextWorkingDay(start), step, n)
    BY <1>1, <1>2, Iterates
  <2> QED BY <2>1, Zenon DEF Repeats
<1>4. \A k \in 0..n : f[k] = IF k = 0 THEN NextWorkingDay(start) ELSE NextWorkingDay(f[k - 1] + 1)
  BY <1>1, <1>3
<1> QED BY <1>4 DEF Forward

LEMMA BackwardRuns ==
    ASSUME calendar \in Calendars, NEW start \in Int, NEW n \in Nat
    PROVE  \E f \in [0..n -> Int] : Backward(start, f, n)
<1> DEFINE step == [d \in Int |-> PreviousWorkingDay(d - 1)]
<1>1. step \in [Int -> Int] /\ \A d \in Int : step[d] = PreviousWorkingDay(d - 1)
  <2>1. \A d \in Int : PreviousWorkingDay(d - 1) \in Int
    BY PreviousWorkingDayIs
  <2> QED BY <2>1
<1>2. NextWorkingDay(start) \in Int
  BY NextWorkingDayIs
<1> HIDE DEF step
<1>3. PICK f \in [0..n -> Int] : /\ f[0] = NextWorkingDay(start)
                                 /\ \A k \in 1..n : f[k] = step[f[k - 1]]
  <2>1. \E f : Repeats(f, Int, NextWorkingDay(start), step, n)
    BY <1>1, <1>2, Iterates
  <2> QED BY <2>1, Zenon DEF Repeats
<1>4. \A k \in 0..n : f[k] = IF k = 0 THEN NextWorkingDay(start) ELSE PreviousWorkingDay(f[k - 1] - 1)
  BY <1>1, <1>3
<1> QED BY <1>4 DEF Backward

(* The n-th working day from a date is a working day with n working days up to it. *)
LEMMA ForwardCounts ==
    ASSUME calendar \in Calendars, NEW start \in Int, NEW n \in Nat, NEW f, Forward(start, f, n)
    PROVE  /\ f[n] \in Int /\ f[n] >= start /\ IsWorkingDay(f[n])
           /\ WorkingDaysBetween(start, f[n]) = n + 1
<1> DEFINE P(k) == /\ f[k] \in Int /\ f[k] >= start /\ IsWorkingDay(f[k])
                   /\ WorkingDaysBetween(start, f[k]) = k + 1
           T == {k \in Nat : k <= n /\ ~P(k)}
<1>1. SUFFICES ASSUME T # {} PROVE FALSE
  <2>1. n \in Nat /\ n <= n
    OBVIOUS
  <2> QED BY <2>1
<1>2. PICK m \in T : \A x \in T : m <= x
  <2>1. T \subseteq Nat
    OBVIOUS
  <2> HIDE DEF T
  <2> QED BY <1>1, <2>1, LeastNumber
<1>3. m \in Nat /\ m \in 0..n /\ ~P(m)
  OBVIOUS
<1>4. CASE m = 0
  <2>1. f[m] = NextWorkingDay(start)
    BY <1>3, <1>4, Zenon DEF Forward
  <2>2. start - 1 \in Int /\ start <= (start - 1) + 1 /\ (start - 1) + 1 = start
    OBVIOUS
  <2>3. WorkingDaysBetween(start, f[m]) = WorkingDaysBetween(start, start - 1) + 1
    BY <2>1, <2>2, NextCounts
  <2>4. WorkingDaysBetween(start, start - 1) = 0
    BY <2>2, CountNone
  <2>5. P(m)
    BY <1>4, <2>1, <2>3, <2>4, NextWorkingDayIs
  <2> QED BY <1>3, <2>5
<1>5. CASE m # 0
  <2>1. P(m - 1)
    BY <1>2, <1>3, <1>5
  <2>2. f[m] = NextWorkingDay(f[m - 1] + 1)
    BY <1>3, <1>5, Zenon DEF Forward
  <2>3. PICK p \in Int : p = f[m - 1] /\ p >= start /\ WorkingDaysBetween(start, p) = m
    BY <1>3, <2>1
  <2>4. start <= p + 1 /\ p + 1 \in Int
    BY <2>3
  <2>5. WorkingDaysBetween(start, NextWorkingDay(p + 1)) = m + 1
    BY <2>3, <2>4, NextCounts
  <2>6. P(m)
    BY <2>2, <2>3, <2>4, <2>5, NextWorkingDayIs
  <2> QED BY <1>3, <2>6
<1> QED BY <1>4, <1>5

LEMMA BackwardCounts ==
    ASSUME calendar \in Calendars, NEW start \in Int, NEW n \in Nat, NEW f, Backward(start, f, n)
    PROVE  /\ f[n] \in Int /\ f[n] <= NextWorkingDay(start) /\ IsWorkingDay(f[n])
           /\ WorkingDaysBetween(f[n], NextWorkingDay(start)) = n + 1
<1> DEFINE P(k) == /\ f[k] \in Int /\ f[k] <= NextWorkingDay(start) /\ IsWorkingDay(f[k])
                   /\ WorkingDaysBetween(f[k], NextWorkingDay(start)) = k + 1
           T == {k \in Nat : k <= n /\ ~P(k)}
<1>1. SUFFICES ASSUME T # {} PROVE FALSE
  <2>1. n \in Nat /\ n <= n
    OBVIOUS
  <2> QED BY <2>1
<1>2. PICK m \in T : \A x \in T : m <= x
  <2>1. T \subseteq Nat
    OBVIOUS
  <2> HIDE DEF T
  <2> QED BY <1>1, <2>1, LeastNumber
<1>3. m \in Nat /\ m \in 0..n /\ ~P(m)
  OBVIOUS
<1>4. NextWorkingDay(start) \in Int /\ IsWorkingDay(NextWorkingDay(start))
  BY NextWorkingDayIs
<1>5. CASE m = 0
  <2>1. f[m] = NextWorkingDay(start)
    BY <1>3, <1>5, Zenon DEF Backward
  <2>2. WorkingDaysBetween(f[m], NextWorkingDay(start)) = 1
    BY <1>4, <2>1, CountOfDay
  <2>3. P(m)
    BY <1>4, <1>5, <2>1, <2>2
  <2> QED BY <1>3, <2>3
<1>6. CASE m # 0
  <2>1. P(m - 1)
    BY <1>2, <1>3, <1>6
  <2>2. f[m] = PreviousWorkingDay(f[m - 1] - 1)
    BY <1>3, <1>6, Zenon DEF Backward
  <2>3. PICK p \in Int : /\ p = f[m - 1] /\ p <= NextWorkingDay(start)
                         /\ WorkingDaysBetween(p, NextWorkingDay(start)) = m
    BY <1>3, <2>1
  <2>4. p <= NextWorkingDay(start) + 1 /\ p - 1 \in Int
    BY <1>4, <2>3
  <2>5. WorkingDaysBetween(PreviousWorkingDay(p - 1), NextWorkingDay(start)) = m + 1
    BY <1>4, <2>3, <2>4, PreviousCounts
  <2>6. P(m)
    BY <1>4, <2>2, <2>3, <2>4, <2>5, PreviousWorkingDayIs
  <2> QED BY <1>3, <2>6
<1> QED BY <1>5, <1>6

(* What add_working_days returns, whatever the week and the holidays. *)
LEMMA AddNoDays == ASSUME NEW start PROVE AddWorkingDays(start, 0) = start
BY DEF AddWorkingDays

LEMMA AddDays ==
    ASSUME calendar \in Calendars, NEW start \in Int, NEW n \in Nat, n > 0
    PROVE  /\ AddWorkingDays(start, n) \in Int /\ AddWorkingDays(start, n) >= start
           /\ IsWorkingDay(AddWorkingDays(start, n))
           /\ WorkingDaysBetween(start, AddWorkingDays(start, n)) = n
<1> DEFINE f == CHOOSE f : Forward(start, f, n - 1)
<1>1. n - 1 \in Nat /\ n # 0 /\ (n - 1) + 1 = n
  OBVIOUS
<1>2. Forward(start, f, n - 1)
  <2>1. \E g : Forward(start, g, n - 1)
    BY <1>1, ForwardRuns
  <2> QED BY <2>1, Zenon
<1>3. AddWorkingDays(start, n) = f[n - 1]
  BY <1>1, Zenon DEF AddWorkingDays, Forward
<1> HIDE DEF f
<1> QED BY <1>1, <1>2, <1>3, ForwardCounts

LEMMA SubtractDays ==
    ASSUME calendar \in Calendars, NEW start \in Int, NEW n \in Nat, n > 0
    PROVE  /\ AddWorkingDays(start, -n) \in Int
           /\ AddWorkingDays(start, -n) <= NextWorkingDay(start)
           /\ IsWorkingDay(AddWorkingDays(start, -n))
           /\ WorkingDaysBetween(AddWorkingDays(start, -n), NextWorkingDay(start)) = n + 1
<1>1. PICK m \in Int : m = -n
  OBVIOUS
<1> DEFINE f == CHOOSE f : Backward(start, f, -m)
<1>2. -m = n /\ m # 0 /\ ~(m > 0)
  BY <1>1
<1>3. Backward(start, f, -m)
  <2>1. \E g : Backward(start, g, n)
    BY BackwardRuns
  <2> QED BY <1>2, <2>1, Zenon
<1>4. AddWorkingDays(start, m) = f[-m]
  BY <1>2, Zenon DEF AddWorkingDays, Backward
<1> HIDE DEF f
<1>5. /\ f[n] \in Int /\ f[n] <= NextWorkingDay(start) /\ IsWorkingDay(f[n])
      /\ WorkingDaysBetween(f[n], NextWorkingDay(start)) = n + 1
  BY <1>2, <1>3, BackwardCounts
<1>6. AddWorkingDays(start, -n) = f[n]
  BY <1>1, <1>2, <1>4
<1> QED BY <1>5, <1>6

LEMMA AddIsInt ==
    ASSUME calendar \in Calendars, NEW start \in Int, NEW n \in Int
    PROVE  AddWorkingDays(start, n) \in Int
<1>1. CASE n = 0
  BY <1>1, AddNoDays
<1>2. CASE n > 0
  BY <1>2, AddDays
<1>3. CASE n < 0
  <2>1. PICK m \in Nat : m > 0 /\ n = -m
    <3>1. -n \in Nat /\ -n > 0 /\ n = -(-n)
      BY <1>3
    <3> QED BY <3>1
  <2> QED BY <2>1, SubtractDays
<1> QED BY <1>1, <1>2, <1>3

(* A working day is its own next working day. *)
LEMMA NextOfWorking ==
    ASSUME calendar \in Calendars, NEW d \in Int, IsWorkingDay(d)
    PROVE  NextWorkingDay(d) = d
<1>1. PICK n \in Int : n = NextWorkingDay(d) /\ n >= d /\ \A e \in d..n - 1 : ~IsWorkingDay(e)
  BY NextWorkingDayIs
<1>2. n > d => d \in d..n - 1
  OBVIOUS
<1> QED BY <1>1, <1>2

(* The days from a date are counted from its next working day. *)
LEMMA CountFromNext ==
    ASSUME calendar \in Calendars, NEW d \in Int, NEW x \in Int, IsWorkingDay(x), d <= x
    PROVE  /\ NextWorkingDay(d) \in Int /\ d <= NextWorkingDay(d) /\ NextWorkingDay(d) <= x
           /\ WorkingDaysBetween(d, x) = WorkingDaysBetween(NextWorkingDay(d), x)
<1>1. PICK z \in Int : z = NextWorkingDay(d) /\ z >= d /\ \A e \in d..z - 1 : ~IsWorkingDay(e)
  BY NextWorkingDayIs
<1>2. z <= x
  <2>1. z > x => x \in d..z - 1
    OBVIOUS
  <2> QED BY <1>1, <2>1
<1>3. WorkingDaysBetween(d, x) = WorkingDaysBetween(d, z - 1) + WorkingDaysBetween(z, x)
  <2>1. z - 1 \in Int /\ d <= (z - 1) + 1 /\ z - 1 <= x /\ (z - 1) + 1 = z
    BY <1>1, <1>2
  <2> QED BY <2>1, CountSplit
<1>4. WorkingDaysBetween(d, z - 1) = 0
  <2>1. z - 1 \in Int
    OBVIOUS
  <2> QED BY <1>1, <2>1, CountNone
<1>5. WorkingDaysBetween(z, x) \in Nat
  BY CountIs
<1> QED BY <1>1, <1>2, <1>3, <1>4, <1>5

(* A working day is known by the count from it or to it. *)
LEMMA CountUnique ==
    ASSUME NEW a \in Int, NEW x \in Int, NEW y \in Int, IsWorkingDay(x), IsWorkingDay(y)
    PROVE  /\ a <= x /\ a <= y /\ WorkingDaysBetween(a, x) = WorkingDaysBetween(a, y) => x = y
           /\ x <= a /\ y <= a /\ WorkingDaysBetween(x, a) = WorkingDaysBetween(y, a) => x = y
<1>1. /\ WorkingDaysBetween(a, x) \in Nat /\ WorkingDaysBetween(a, y) \in Nat
      /\ WorkingDaysBetween(x, a) \in Nat /\ WorkingDaysBetween(y, a) \in Nat
  BY CountIs
<1>2. CASE x < y
  <2>1. /\ a <= y => WorkingDaysBetween(a, x) < WorkingDaysBetween(a, y)
        /\ x <= a => WorkingDaysBetween(y, a) < WorkingDaysBetween(x, a)
    BY <1>2, CountTells
  <2> QED BY <1>1, <2>1
<1>3. CASE y < x
  <2>1. /\ a <= x => WorkingDaysBetween(a, y) < WorkingDaysBetween(a, x)
        /\ y <= a => WorkingDaysBetween(x, a) < WorkingDaysBetween(y, a)
    BY <1>3, CountTells
  <2> QED BY <1>1, <2>1
<1>4. x < y \/ y < x \/ x = y
  OBVIOUS
<1> QED BY <1>2, <1>3, <1>4

(* The two passes use one arithmetic. *)
LEMMA FinishInverse ==
    ASSUME calendar \in Calendars, NEW d \in Int, NEW n \in Nat, n > 0
    PROVE  AddWorkingDays(AddWorkingDays(d, n), -(n - 1)) = NextWorkingDay(d)
<1>1. PICK x \in Int : /\ x = AddWorkingDays(d, n) /\ x >= d /\ IsWorkingDay(x)
                       /\ WorkingDaysBetween(d, x) = n
  BY AddDays
<1>2. PICK z \in Int : /\ z = NextWorkingDay(d) /\ z <= x /\ IsWorkingDay(z)
                       /\ WorkingDaysBetween(z, x) = n
  BY <1>1, CountFromNext, NextWorkingDayIs
<1>3. NextWorkingDay(x) = x
  BY <1>1, NextOfWorking
<1>4. PICK m \in Nat : m = n - 1 /\ -(n - 1) = -m /\ m + 1 = n
  OBVIOUS
<1>5. CASE m = 0
  <2>1. AddWorkingDays(x, -m) = x
    <3>1. \A k \in Int : \A j \in Int : (k <= 0 /\ k >= 0 /\ j = -k) => j = 0
      OBVIOUS
    <3>2. m \in Int /\ -m \in Int /\ m <= 0 /\ m >= 0
      BY <1>5
    <3>3. -m = 0
      BY <1>5, <3>1, <3>2, Zenon
    <3> QED BY <3>3, AddNoDays
  <2>2. x <= x /\ WorkingDaysBetween(x, x) = n
    BY <1>1, <1>4, <1>5, CountOfDay
  <2>3. x = z
    BY <1>1, <1>2, <2>2, CountUnique
  <2> QED BY <1>1, <1>2, <1>4, <2>1, <2>3
<1>6. CASE m > 0
  <2>1. PICK y \in Int : /\ y = AddWorkingDays(x, -m) /\ y <= x /\ IsWorkingDay(y)
                         /\ WorkingDaysBetween(y, x) = n
    BY <1>3, <1>4, <1>6, SubtractDays
  <2>2. y = z
    BY <1>1, <1>2, <2>1, CountUnique
  <2> QED BY <1>1, <1>2, <1>4, <2>1, <2>2
<1> QED BY <1>5, <1>6

(* The arithmetic agrees with counting, for every date and number of days. *)
LEMMA ArithmeticExact ==
    ASSUME calendar \in Calendars
    PROVE  AddWorkingDaysExact /\ FinishAndStartInverse
<1>1. ASSUME NEW d \in 0..13, NEW n \in 1..4
      PROVE  /\ IsWorkingDay(AddWorkingDays(d, n))
             /\ WorkingDaysBetween(d, AddWorkingDays(d, n)) = n
             /\ IsWorkingDay(AddWorkingDays(d, -n))
             /\ WorkingDaysBetween(AddWorkingDays(d, -n), NextWorkingDay(d)) = n + 1
             /\ AddWorkingDays(AddWorkingDays(d, n), -(n - 1)) = NextWorkingDay(d)
  <2>1. d \in Int /\ n \in Nat /\ n > 0
    OBVIOUS
  <2>2. /\ IsWorkingDay(AddWorkingDays(d, n))
        /\ WorkingDaysBetween(d, AddWorkingDays(d, n)) = n
    BY <2>1, AddDays
  <2>3. /\ IsWorkingDay(AddWorkingDays(d, -n))
        /\ WorkingDaysBetween(AddWorkingDays(d, -n), NextWorkingDay(d)) = n + 1
    BY <2>1, SubtractDays
  <2>4. AddWorkingDays(AddWorkingDays(d, n), -(n - 1)) = NextWorkingDay(d)
    BY <2>1, FinishInverse
  <2> QED BY <2>2, <2>3, <2>4
<1> QED BY <1>1, Zenon DEF AddWorkingDaysExact, FinishAndStartInverse

-----------------------------------------------------------------------------
(* Reachability: the least closed set of tasks *)

LinksOf(links) == {<<d.pred, d.succ>> : d \in links}

LEMMA ReachSelf ==
    ASSUME NEW L, NEW s \in Tasks
    PROVE  s \in Reachable(s, L) /\ Reachable(s, L) \subseteq Tasks
BY DEF Reachable

LEMMA ReachLeast ==
    ASSUME NEW L, NEW s, NEW S \in SUBSET Tasks, s \in S, Closed(S, L)
    PROVE  Reachable(s, L) \subseteq S
BY Zenon DEF Reachable

LEMMA ReachClosed ==
    ASSUME NEW L, L \subseteq Tasks \X Tasks, NEW s
    PROVE  Closed(Reachable(s, L), L)
<1> SUFFICES ASSUME NEW l \in L, l[1] \in Reachable(s, L)
             PROVE  l[2] \in Reachable(s, L)
  BY Zenon DEF Closed
<1>1. l[2] \in Tasks
  OBVIOUS
<1>2. ASSUME NEW S \in SUBSET Tasks, s \in S, Closed(S, L)
      PROVE  l[2] \in S
  <2>1. l[1] \in S
    BY <1>2, Zenon DEF Reachable
  <2> QED BY <1>2, <2>1, Zenon DEF Closed
<1> QED BY <1>1, <1>2, Zenon DEF Reachable

(* What is reached from a reached task is reached. *)
LEMMA ReachStep ==
    ASSUME NEW L, L \subseteq Tasks \X Tasks, NEW s, NEW t, t \in Reachable(s, L)
    PROVE  Reachable(t, L) \subseteq Reachable(s, L)
<1>1. Reachable(s, L) \in SUBSET Tasks
  BY Zenon DEF Reachable
<1> QED BY <1>1, ReachClosed, ReachLeast, Zenon

(* The closed sets of fewer links are more. *)
LEMMA ClosedFewer ==
    ASSUME NEW L, NEW M, L \subseteq M, NEW S, Closed(S, M)
    PROVE  Closed(S, L)
BY Zenon DEF Closed

LEMMA LinksTyped ==
    ASSUME NEW D, D \subseteq Dependencies
    PROVE  /\ LinksOf(D) \subseteq Tasks \X Tasks
           /\ \A d \in D : d.pred \in Tasks /\ d.succ \in Tasks /\ <<d.pred, d.succ>> \in LinksOf(D)
<1>1. \A d \in D : d.pred \in Tasks /\ d.succ \in Tasks
  BY DEF Dependencies
<1> QED BY <1>1 DEF LinksOf

(* A network is acyclic when every dependency has a closed set between its ends. *)
LEMMA AcyclicIff ==
    ASSUME NEW D
    PROVE  Acyclic(D) <=> \A d \in D : d.pred \notin Reachable(d.succ, LinksOf(D))
BY Zenon DEF Acyclic, LinksOf

(* Fewer dependencies close no cycle. *)
LEMMA AcyclicFewer ==
    ASSUME NEW D, D \subseteq Dependencies, Acyclic(D), NEW E, E \subseteq D
    PROVE  Acyclic(E)
<1>1. LinksOf(E) \subseteq LinksOf(D)
  BY DEF LinksOf
<1> SUFFICES ASSUME NEW d \in E PROVE d.pred \notin Reachable(d.succ, LinksOf(E))
  BY AcyclicIff
<1>2. d \in D /\ d.pred \in Tasks /\ d.succ \in Tasks
  BY LinksTyped
<1>3. d.pred \notin Reachable(d.succ, LinksOf(D))
  BY <1>2, AcyclicIff
<1>4. /\ d.succ \in Reachable(d.succ, LinksOf(D)) /\ Reachable(d.succ, LinksOf(D)) \in SUBSET Tasks
  BY <1>2, ReachSelf
<1>5. Closed(Reachable(d.succ, LinksOf(D)), LinksOf(E))
  BY <1>1, LinksTyped, ReachClosed, ClosedFewer, Zenon
<1>6. Reachable(d.succ, LinksOf(E)) \subseteq Reachable(d.succ, LinksOf(D))
  BY <1>4, <1>5, ReachLeast, Zenon
<1> QED BY <1>3, <1>6

(* A dependency whose predecessor is not reached from its successor closes none. *)
LEMMA AcyclicMore ==
    ASSUME NEW D, D \subseteq Dependencies, Acyclic(D), NEW n \in Dependencies,
           n.pred \notin Reachable(n.succ, LinksOf(D))
    PROVE  Acyclic(D \cup {n})
<1> DEFINE L == LinksOf(D)
           M == LinksOf(D \cup {n})
           R(t) == Reachable(t, L)
<1>1. n.pred \in Tasks /\ n.succ \in Tasks
  BY DEF Dependencies
<1>2. M = L \cup {<<n.pred, n.succ>>}
  BY DEF LinksOf
<1>3. L \subseteq Tasks \X Tasks /\ \A d \in D : d.pred \in Tasks /\ d.succ \in Tasks /\ <<d.pred, d.succ>> \in L
  BY LinksTyped
<1>4. \A t \in Tasks : t \in R(t) /\ R(t) \in SUBSET Tasks /\ Closed(R(t), L)
  BY <1>3, ReachSelf, ReachClosed
<1>5. \A s \in Tasks : \A t \in R(s) : R(t) \subseteq R(s)
  BY <1>3, ReachStep
<1>6. ASSUME NEW S, Closed(S, L), n.pred \in S => n.succ \in S
      PROVE  Closed(S, M)
  <2> SUFFICES ASSUME NEW l \in M, l[1] \in S PROVE l[2] \in S
    BY Zenon DEF Closed
  <2>1. l \in L \/ l = <<n.pred, n.succ>>
    BY <1>2
  <2>2. CASE l \in L
    BY <1>6, <2>2, Zenon DEF Closed
  <2>3. CASE l = <<n.pred, n.succ>>
    BY <1>6, <2>3
  <2> QED BY <2>1, <2>2, <2>3
<1> HIDE DEF L, M, R
<1>7. ASSUME NEW t \in Tasks, n.pred \notin R(t)
      PROVE  Reachable(t, M) \subseteq R(t)
  BY <1>4, <1>6, <1>7, ReachLeast, Zenon
<1>8. ASSUME NEW t \in Tasks
      PROVE  Reachable(t, M) \subseteq R(t) \cup R(n.succ)
  <2>1. R(t) \cup R(n.succ) \in SUBSET Tasks /\ t \in R(t) \cup R(n.succ)
    BY <1>1, <1>4
  <2>2. Closed(R(t) \cup R(n.succ), L)
    <3>1. Closed(R(t), L) /\ Closed(R(n.succ), L)
      BY <1>1, <1>4
    <3> QED BY <3>1, Zenon DEF Closed
  <2>3. n.succ \in R(t) \cup R(n.succ)
    BY <1>1, <1>4
  <2> QED BY <1>6, <2>1, <2>2, <2>3, ReachLeast, Zenon
<1> SUFFICES ASSUME NEW d \in D \cup {n} PROVE d.pred \notin Reachable(d.succ, M)
  BY AcyclicIff DEF M
<1>9. n.pred \notin R(n.succ)
  BY DEF R, L
<1>10. CASE d = n
  BY <1>1, <1>7, <1>9, <1>10
<1>11. CASE d \in D
  <2>1. d.pred \notin R(d.succ)
    BY <1>11, AcyclicIff DEF R, L
  <2>2. d.pred \in Tasks /\ d.succ \in Tasks /\ <<d.pred, d.succ>> \in L
    BY <1>3, <1>11
  <2>3. CASE n.pred \notin R(d.succ)
    BY <1>7, <2>1, <2>2, <2>3
  <2>4. CASE n.pred \in R(d.succ)
    <3>1. d.pred \notin R(n.succ)
      <4> SUFFICES ASSUME d.pred \in R(n.succ) PROVE FALSE
        OBVIOUS
      <4>1. Closed(R(n.succ), L)
        BY <1>1, <1>4
      <4>2. <<d.pred, d.succ>>[1] = d.pred /\ <<d.pred, d.succ>>[2] = d.succ
        OBVIOUS
      <4>3. d.succ \in R(n.succ)
        BY <2>2, <4>1, <4>2, Zenon DEF Closed
      <4> QED BY <1>1, <1>5, <1>9, <2>4, <4>3
    <3> QED BY <1>8, <2>1, <2>2, <3>1
  <2> QED BY <2>3, <2>4
<1> QED BY <1>10, <1>11

(* Some task of any nonempty set has no predecessor in it. *)
LEMMA SomeFirst ==
    ASSUME NEW D, D \subseteq Dependencies, Acyclic(D), NEW U \in SUBSET Tasks, U # {}
    PROVE  \E t \in U : \A d \in D : d.succ = t => d.pred \notin U
<1> DEFINE L == LinksOf(D)
           R(t) == Reachable(t, L)
           F == {Tasks \ R(t) : t \in U}
<1>1. IsFiniteSet(Tasks) /\ F \subseteq SUBSET Tasks /\ F # {}
  <2>1. F \subseteq SUBSET Tasks /\ F # {}
    OBVIOUS
  <2> QED BY <2>1, ScheduleAssumption
<1>2. PICK S \in F : \A T \in F : T \subseteq S => T = S
  <2> HIDE DEF F
  <2> QED BY <1>1, MinimalSubset
<1>3. PICK t \in U : S = Tasks \ R(t)
  OBVIOUS
<1>4. L \subseteq Tasks \X Tasks /\ \A d \in D : d.pred \in Tasks /\ d.succ \in Tasks /\ <<d.pred, d.succ>> \in L
  BY LinksTyped
<1>5. \A u \in Tasks : u \in R(u) /\ R(u) \in SUBSET Tasks /\ Closed(R(u), L)
  BY <1>4, ReachSelf, ReachClosed
<1>6. ASSUME NEW d \in D, d.succ = t, d.pred \in U
      PROVE  FALSE
  <2>1. d.pred \notin R(d.succ)
    BY AcyclicIff
  <2>2. d.pred \in R(d.pred) /\ Closed(R(d.pred), L)
    BY <1>4, <1>5
  <2>3. <<d.pred, d.succ>>[1] = d.pred /\ <<d.pred, d.succ>>[2] = d.succ
    OBVIOUS
  <2> HIDE DEF R, L
  <2>4. d.succ \in R(d.pred)
    BY <1>4, <2>2, <2>3, Zenon DEF Closed
  <2>5. R(d.succ) \subseteq R(d.pred)
    BY <1>4, <2>4, ReachStep DEF R
  <2>6. Tasks \ R(d.pred) \in F
    BY <1>6
  <2>7. Tasks \ R(d.pred) = Tasks \ R(t)
    BY <1>2, <1>3, <1>6, <2>5, <2>6
  <2> QED BY <1>4, <1>6, <2>1, <2>2, <2>7
<1> QED BY <1>6

-----------------------------------------------------------------------------
(* The forward pass *)

(* What run_forward_pass computes for one task from the dates of its predecessors. *)
Candidates(rows, links, f, t) ==
    {Candidate(d, f[d.pred], Days(rows[t])) : d \in {e \in links : e.succ = t /\ f[e.pred] # None}}
EarlyOf(rows, links, f, t) ==
    ApplyActuals(rows[t], Planned(rows[t], Candidates(rows, links, f, t)))
IsEarly(rows, links, f, S) == f = [t \in S |-> EarlyOf(rows, links, f, t)]

(* A network the pass can be run on. *)
Network(rows, links) ==
    /\ links \subseteq Dependencies /\ IsFiniteSet(links) /\ Acyclic(links)
    /\ \A d \in links : rows[d.pred] # None /\ rows[d.succ] # None

(* Only the dates of the predecessors matter. *)
LEMMA EarlyLocal ==
    ASSUME NEW rows, NEW links, NEW f, NEW g, NEW t,
           \A d \in links : d.succ = t => f[d.pred] = g[d.pred]
    PROVE  EarlyOf(rows, links, f, t) = EarlyOf(rows, links, g, t)
<1>1. {e \in links : e.succ = t /\ f[e.pred] # None} = {e \in links : e.succ = t /\ g[e.pred] # None}
  OBVIOUS
<1>2. Candidates(rows, links, f, t) = Candidates(rows, links, g, t)
  <2> DEFINE D == {e \in links : e.succ = t /\ f[e.pred] # None}
  <2>1. \A d \in D : f[d.pred] = g[d.pred]
    OBVIOUS
  <2>2. Candidates(rows, links, f, t) = {Candidate(d, f[d.pred], Days(rows[t])) : d \in D}
    BY Zenon DEF Candidates
  <2>3. Candidates(rows, links, g, t) = {Candidate(d, g[d.pred], Days(rows[t])) : d \in D}
    BY <1>1, Zenon DEF Candidates
  <2> HIDE DEF D
  <2>4. {Candidate(d, f[d.pred], Days(rows[t])) : d \in D}
        = {Candidate(d, g[d.pred], Days(rows[t])) : d \in D}
    BY <2>1
  <2> QED BY <2>2, <2>3, <2>4
<1> QED BY <1>2, Zenon DEF EarlyOf

(* The recursion of the pass has a solution on every network without a cycle, ... *)
LEMMA EarlyExists ==
    ASSUME NEW rows, NEW links, Network(rows, links)
    PROVE  \E f : IsEarly(rows, links, f, Existing(rows))
<1> DEFINE X == Existing(rows)
           Before0(S) == \A d \in links : d.succ \in S => d.pred \in S
           F == {U \in SUBSET X : Before0(X \ U) /\ \E f : IsEarly(rows, links, f, X \ U)}
<1>1. X \in SUBSET Tasks
  BY DEF Existing
<1>2. /\ links \subseteq Dependencies /\ Acyclic(links)
      /\ \A d \in links : d.pred \in X /\ d.succ \in X
  BY LinksTyped DEF Network, Existing
<1>3. F # {}
  <2> DEFINE f == [t \in {} |-> None]
  <2>1. f = [t \in {} |-> EarlyOf(rows, links, f, t)]
    OBVIOUS
  <2> HIDE DEF f
  <2>2. X \ X = {} /\ X \in SUBSET X
    OBVIOUS
  <2>3. IsEarly(rows, links, f, X \ X)
    BY <2>1, <2>2, Zenon DEF IsEarly
  <2>4. Before0(X \ X)
    OBVIOUS
  <2> QED BY <2>2, <2>3, <2>4
<1>4. PICK U \in F : \A V \in F : V \subseteq U => V = U
  <2>1. F \subseteq SUBSET X
    OBVIOUS
  <2>2. IsFiniteSet(X)
    BY <1>1, ScheduleAssumption, FS_Subset
  <2> HIDE DEF F, X
  <2> QED BY <1>3, <2>1, <2>2, MinimalSubset
<1>5. U \in SUBSET X /\ Before0(X \ U)
  OBVIOUS
<1>6. PICK f : IsEarly(rows, links, f, X \ U)
  OBVIOUS
<1>7. CASE U = {}
  <2>1. X \ U = X
    BY <1>7
  <2> QED BY <1>6, <2>1
<1>8. CASE U # {}
  <2>1. PICK t \in U : \A d \in links : d.succ = t => d.pred \notin U
    <3>1. U \in SUBSET Tasks
      BY <1>1, <1>5
    <3> HIDE DEF X
    <3> QED BY <1>2, <1>8, <3>1, SomeFirst
  <2> DEFINE S == X \ U
             V == U \ {t}
             g == [u \in X \ V |-> IF u = t THEN EarlyOf(rows, links, f, t) ELSE f[u]]
  <2>2. X \ V = S \cup {t} /\ t \notin S /\ V \subseteq U /\ V # U /\ V \in SUBSET X
    BY <1>5
  <2>3. DOMAIN f = S /\ \A u \in S : f[u] = EarlyOf(rows, links, f, u)
    BY <1>6, Zenon DEF IsEarly
  <2>4. \A u \in S : g[u] = f[u]
    BY <2>2
  <2>5. \A u \in X \ V : \A d \in links : d.succ = u => d.pred \in S
    BY <1>2, <1>5, <2>1, <2>2
  <2>6. g[t] = EarlyOf(rows, links, f, t)
    BY <2>2
  <2>7. g = [u \in X \ V |-> g[u]]
    OBVIOUS
  <2> HIDE DEF g, S, V, X
  <2>8. ASSUME NEW u \in X \ V
        PROVE  g[u] = EarlyOf(rows, links, g, u)
    <3>1. EarlyOf(rows, links, g, u) = EarlyOf(rows, links, f, u)
      BY <2>4, <2>5, EarlyLocal
    <3>2. g[u] = EarlyOf(rows, links, f, u)
      BY <2>2, <2>3, <2>4, <2>6
    <3> QED BY <3>1, <3>2
  <2>9. IsEarly(rows, links, g, X \ V)
    BY <2>7, <2>8, Zenon DEF IsEarly
  <2>10. Before0(X \ V)
    BY <2>2, <2>5
  <2>11. V \in F
    BY <2>2, <2>9, <2>10
  <2> QED BY <1>4, <2>2, <2>11
<1> QED BY <1>7, <1>8

(* ... and only one. *)
LEMMA EarlyUnique ==
    ASSUME NEW rows, NEW links, Network(rows, links), NEW f, NEW g,
           IsEarly(rows, links, f, Existing(rows)), IsEarly(rows, links, g, Existing(rows))
    PROVE  f = g
<1> DEFINE X == Existing(rows)
           U == {t \in X : f[t] # g[t]}
<1>1. X \in SUBSET Tasks
  BY DEF Existing
<1>2. links \subseteq Dependencies /\ Acyclic(links) /\ \A d \in links : d.pred \in X /\ d.succ \in X
  BY LinksTyped DEF Network, Existing
<1>3. /\ DOMAIN f = X /\ \A u \in X : f[u] = EarlyOf(rows, links, f, u)
      /\ f = [u \in X |-> f[u]]
  <2>1. f = [t \in X |-> EarlyOf(rows, links, f, t)]
    BY Zenon DEF IsEarly
  <2> QED BY <2>1, Zenon
<1>4. /\ DOMAIN g = X /\ \A u \in X : g[u] = EarlyOf(rows, links, g, u)
      /\ g = [u \in X |-> g[u]]
  <2>1. g = [t \in X |-> EarlyOf(rows, links, g, t)]
    BY Zenon DEF IsEarly
  <2> QED BY <2>1, Zenon
<1> HIDE DEF X
<1>5. ASSUME U # {}
      PROVE  FALSE
  <2>1. U \in SUBSET Tasks
    BY <1>1
  <2>2. PICK t \in U : \A d \in links : d.succ = t => d.pred \notin U
    <3> HIDE DEF U
    <3> QED BY <1>2, <1>5, <2>1, SomeFirst
  <2>3. \A d \in links : d.succ = t => f[d.pred] = g[d.pred]
    BY <1>2, <2>2
  <2>4. EarlyOf(rows, links, f, t) = EarlyOf(rows, links, g, t)
    BY <2>3, EarlyLocal
  <2> QED BY <1>3, <1>4, <2>2, <2>4
<1>6. \A u \in X : f[u] = g[u]
  BY <1>5
<1> QED BY <1>3, <1>4, <1>6

(* The dates of the forward pass are its one solution. *)
LEMMA EarlyIs ==
    ASSUME NEW rows, NEW links, Network(rows, links)
    PROVE  IsEarly(rows, links, Early(rows, links), Existing(rows))
<1> DEFINE f == CHOOSE f : IsEarly(rows, links, f, Existing(rows))
<1>1. IsEarly(rows, links, f, Existing(rows))
  <2>1. \E g : IsEarly(rows, links, g, Existing(rows))
    BY EarlyExists
  <2> QED BY <2>1, Zenon
<1>2. Early(rows, links) = [t \in Existing(rows) |-> f[t]]
  BY Zenon DEF Early, IsEarly, EarlyOf, Candidates
<1> HIDE DEF f
<1>3. f = [t \in Existing(rows) |-> f[t]]
  <2>1. f = [t \in Existing(rows) |-> EarlyOf(rows, links, f, t)]
    BY <1>1, Zenon DEF IsEarly
  <2> QED BY <2>1, Zenon
<1> QED BY <1>1, <1>2, <1>3

(* What a function gives on a finite set is finite. *)
LEMMA ImageFinite ==
    ASSUME NEW S, IsFiniteSet(S), NEW R, NEW f \in [S -> R]
    PROVE  IsFiniteSet({f[x] : x \in S})
<1> DEFINE T == {f[x] : x \in S}
<1>1. f \in [S -> T] /\ \A y \in T : \E x \in S : f[x] = y
  OBVIOUS
<1>2. f \in Surjection(S, T)
  BY <1>1 DEF Surjection
<1> QED BY <1>2, FS_Surjection

(* A finite set of dates has a latest one. *)
UpFrom(S, x) == {y \in S : y >= x}

LEMMA NothingAbove ==
    ASSUME NEW S, IsFiniteSet(S), S # {}
    PROVE  \E x \in S : \A y \in S : UpFrom(S, y) \subseteq UpFrom(S, x)
                                     => UpFrom(S, y) = UpFrom(S, x)
<1> DEFINE F == {UpFrom(S, x) : x \in S}
<1>1. F \subseteq SUBSET S /\ F # {}
  BY DEF UpFrom
<1>2. PICK T \in F : \A R \in F : R \subseteq T => R = T
  <2> HIDE DEF F
  <2> QED BY <1>1, MinimalSubset
<1> QED BY <1>2

LEMMA LatestIs ==
    ASSUME NEW S, S \subseteq Int, IsFiniteSet(S), S # {}
    PROVE  Max(S) \in S /\ \A x \in S : x <= Max(S)
<1>1. PICK x \in S : \A y \in S : UpFrom(S, y) \subseteq UpFrom(S, x)
                                  => UpFrom(S, y) = UpFrom(S, x)
  BY NothingAbove, Zenon
<1>2. ASSUME NEW y \in S, y > x
      PROVE  FALSE
  <2>1. \A z \in S : z >= y => z >= x
    BY <1>2
  <2>2. UpFrom(S, y) \subseteq UpFrom(S, x)
    BY <2>1 DEF UpFrom
  <2>3. UpFrom(S, y) = UpFrom(S, x)
    BY <1>1, <2>2, Zenon
  <2>4. x \in UpFrom(S, x) /\ x \notin UpFrom(S, y)
    BY <1>2 DEF UpFrom
  <2> QED BY <2>3, <2>4, Zenon
<1>3. \A y \in S : x >= y
  BY <1>2
<1>4. \E z \in S : \A y \in S : z >= y
  BY <1>3
<1>5. Max(S) \in S /\ \A y \in S : Max(S) >= y
  BY <1>4 DEF Max
<1> QED BY <1>5

LEMMA RowIs ==
    ASSUME NEW row \in Rows
    PROVE  /\ Days(row) \in Nat
           /\ row.start \in Int \cup {None} /\ row.end \in Int \cup {None}
           /\ row.actualStart \in Int \cup {None} /\ row.actualEnd \in Int \cup {None}
           /\ row.duration \in Durations
<1>1. /\ row.start \in Int \cup {None} /\ row.end \in Int \cup {None}
      /\ row.actualStart \in Int \cup {None} /\ row.actualEnd \in Int \cup {None}
      /\ row.duration \in Durations
  BY DEF Rows, Dates
<1> QED BY <1>1, ScheduleAssumption DEF Days

LEMMA FromIs ==
    ASSUME calendar \in Calendars, NEW s \in Int, NEW n \in Nat
    PROVE  From(s, n) \in EarlyDates /\ From(s, n).es = s
           /\ From(s, n).ef = IF n = 0 THEN s ELSE AddWorkingDays(s, n)
<1>1. AddWorkingDays(s, n) \in Int
  BY AddIsInt
<1> QED BY <1>1 DEF From, EarlyDates

LEMMA FinishingByIs ==
    ASSUME calendar \in Calendars, NEW x \in Int, NEW n \in Nat
    PROVE  FinishingBy(x, n) \in Int
<1>1. CASE n > 0
  <2>1. -(n - 1) \in Int
    OBVIOUS
  <2>2. AddWorkingDays(x, -(n - 1)) \in Int
    BY <2>1, AddIsInt
  <2> QED BY <1>1, <2>2 DEF FinishingBy
<1>2. CASE ~(n > 0)
  BY <1>2 DEF FinishingBy
<1> QED BY <1>1, <1>2

LEMMA CandidateIs ==
    ASSUME calendar \in Calendars, NEW d \in Dependencies, NEW e \in EarlyDates, NEW n \in Nat
    PROVE  Candidate(d, e, n) \in Int
<1>1. e.es \in Int /\ e.ef \in Int /\ d.lag \in Int /\ d.lag + 2 \in Int
  <2>1. e.es \in Int /\ e.ef \in Int
    BY DEF EarlyDates
  <2>2. d.lag \in Lags
    BY DEF Dependencies
  <2>3. d.lag \in Int
    BY <2>2, ScheduleAssumption
  <2> QED BY <2>1, <2>3
<1>2. d.type \in {"FS", "SS", "FF", "SF"}
  BY ScheduleAssumption DEF Dependencies
<1>3. /\ AddWorkingDays(e.ef, d.lag + 2) \in Int /\ AddWorkingDays(e.es, d.lag) \in Int
      /\ AddWorkingDays(e.ef, d.lag) \in Int
  BY <1>1, AddIsInt
<1>4. /\ FinishingBy(AddWorkingDays(e.ef, d.lag), n) \in Int
      /\ FinishingBy(AddWorkingDays(e.es, d.lag), n) \in Int
  BY <1>3, FinishingByIs
<1> QED BY <1>2, <1>3, <1>4 DEF Candidate

(* The dates of one task. *)
LEMMA CandidatesAre ==
    ASSUME calendar \in Calendars, NEW rows, NEW links, IsFiniteSet(links),
           links \subseteq Dependencies, NEW f, NEW t, rows[t] \in Rows,
           \A d \in links : d.succ = t => f[d.pred] \in EarlyDates \cup {None}
    PROVE  /\ Candidates(rows, links, f, t) \subseteq Int
           /\ IsFiniteSet(Candidates(rows, links, f, t))
<1> DEFINE D == {e \in links : e.succ = t /\ f[e.pred] # None}
           C(d) == Candidate(d, f[d.pred], Days(rows[t]))
           c == [d \in D |-> C(d)]
<1>1. Days(rows[t]) \in Nat
  BY RowIs
<1>2. \A d \in D : C(d) \in Int
  <2> SUFFICES ASSUME NEW d \in D PROVE C(d) \in Int
    OBVIOUS
  <2>1. d \in Dependencies /\ f[d.pred] \in EarlyDates
    OBVIOUS
  <2> QED BY <1>1, <2>1, CandidateIs
<1>3. IsFiniteSet(D)
  BY FS_Subset
<1>4. Candidates(rows, links, f, t) = {C(d) : d \in D}
  BY Zenon DEF Candidates
<1> HIDE DEF D, C
<1>5. c \in [D -> Int] /\ {C(d) : d \in D} = {c[d] : d \in D}
  BY <1>2
<1> HIDE DEF c
<1>6. IsFiniteSet({c[d] : d \in D})
  <2>1. PICK R : c \in [D -> R]
    BY <1>5
  <2> QED BY <1>3, <2>1, ImageFinite
<1> QED BY <1>2, <1>4, <1>5, <1>6

LEMMA PlannedIs ==
    ASSUME calendar \in Calendars, NEW row \in Rows, NEW S, S \subseteq Int, IsFiniteSet(S)
    PROVE  /\ Planned(row, S) \in EarlyDates \cup {None}
           /\ S # {} => /\ Max(S) \in Int /\ Planned(row, S) = From(Max(S), Days(row))
                        /\ \A x \in S : x <= Max(S)
           /\ S = {} /\ row.start # None => Planned(row, S) = From(row.start, Days(row))
           /\ S = {} /\ row.start = None => Planned(row, S) = None
<1>1. Days(row) \in Nat /\ row.start \in Int \cup {None}
  BY RowIs
<1>2. CASE S # {}
  <2>1. Max(S) \in Int /\ \A x \in S : x <= Max(S)
    BY <1>2, LatestIs
  <2>2. Planned(row, S) = From(Max(S), Days(row))
    BY <1>2, Zenon DEF Planned
  <2> QED BY <1>1, <1>2, <2>1, <2>2, FromIs
<1>3. CASE S = {} /\ row.start # None
  <2>1. Planned(row, S) = From(row.start, Days(row))
    BY <1>3, Zenon DEF Planned
  <2> QED BY <1>1, <1>3, <2>1, FromIs
<1>4. CASE S = {} /\ row.start = None
  <2>1. Planned(row, S) = None
    BY <1>4, Zenon DEF Planned
  <2> QED BY <1>4, <2>1
<1> QED BY <1>2, <1>3, <1>4

(* What an actual finish, an actual start after the planned one, and neither do. *)
LEMMA ActualsAre ==
    ASSUME calendar \in Calendars, NEW row \in Rows, NEW e \in EarlyDates \cup {None}
    PROVE  /\ ApplyActuals(row, e) \in EarlyDates \cup {None}
           /\ row.actualEnd = None =>
                  \/ ApplyActuals(row, e) = e
                  \/ /\ row.actualStart \in Int /\ row.actualStart # None
                     /\ e = None \/ e.es < row.actualStart
                     /\ ApplyActuals(row, e) = From(row.actualStart, Days(row))
<1>1. /\ Days(row) \in Nat /\ row.actualStart \in Int \cup {None}
      /\ row.actualEnd \in Int \cup {None}
  BY RowIs
<1>2. CASE row.actualEnd # None
  <2>1. FinishingBy(row.actualEnd, Days(row)) \in Int
    BY <1>1, <1>2, FinishingByIs
  <2> QED BY <1>1, <1>2, <2>1 DEF ApplyActuals, EarlyDates
<1>3. CASE row.actualEnd = None
  <2> DEFINE moved == row.actualStart # None /\ (e = None \/ Before(e.es, row.actualStart))
  <2>1. ApplyActuals(row, e) = IF moved THEN From(row.actualStart, Days(row)) ELSE e
    BY <1>3, Zenon DEF ApplyActuals
  <2>2. moved => /\ row.actualStart \in Int /\ row.actualStart # None
                 /\ e = None \/ e.es < row.actualStart
                 /\ From(row.actualStart, Days(row)) \in EarlyDates
    BY <1>1, FromIs DEF Before
  <2> HIDE DEF moved
  <2> QED BY <1>3, <2>1, <2>2
<1> QED BY <1>2, <1>3

(* Every date the pass computes is a day. *)
LEMMA EarlyTyped ==
    ASSUME calendar \in Calendars, NEW rows \in [Tasks -> Rows \cup {None}], NEW links,
           Network(rows, links), NEW f, IsEarly(rows, links, f, Existing(rows))
    PROVE  f \in [Existing(rows) -> EarlyDates \cup {None}]
<1> DEFINE X == Existing(rows)
           U == {t \in X : f[t] \notin EarlyDates \cup {None}}
<1>1. X \in SUBSET Tasks /\ \A t \in X : rows[t] \in Rows
  BY DEF Existing
<1>2. /\ links \subseteq Dependencies /\ Acyclic(links) /\ IsFiniteSet(links)
      /\ \A d \in links : d.pred \in X /\ d.succ \in X
  BY LinksTyped DEF Network, Existing
<1>3. /\ \A u \in X : f[u] = EarlyOf(rows, links, f, u)
      /\ f = [u \in X |-> f[u]]
  <2>1. f = [t \in X |-> EarlyOf(rows, links, f, t)]
    BY Zenon DEF IsEarly
  <2> QED BY <2>1, Zenon
<1> HIDE DEF X
<1>4. ASSUME U # {}
      PROVE  FALSE
  <2>1. PICK t \in U : \A d \in links : d.succ = t => d.pred \notin U
    <3>1. U \in SUBSET Tasks
      BY <1>1
    <3> HIDE DEF U
    <3> QED BY <1>2, <1>4, <3>1, SomeFirst
  <2>2. t \in X /\ rows[t] \in Rows /\ \A d \in links : d.succ = t => f[d.pred] \in EarlyDates \cup {None}
    BY <1>1, <1>2, <2>1
  <2>3. PICK C : C = Candidates(rows, links, f, t) /\ C \subseteq Int /\ IsFiniteSet(C)
    BY <1>2, <2>2, CandidatesAre
  <2>4. Planned(rows[t], C) \in EarlyDates \cup {None}
    BY <2>2, <2>3, PlannedIs
  <2>5. ApplyActuals(rows[t], Planned(rows[t], C)) \in EarlyDates \cup {None}
    BY <2>2, <2>4, ActualsAre
  <2>6. f[t] = ApplyActuals(rows[t], Planned(rows[t], C))
    BY <1>3, <2>2, <2>3 DEF EarlyOf
  <2> QED BY <2>5, <2>6
<1>5. \A u \in X : f[u] \in EarlyDates \cup {None}
  BY <1>4
<1> QED BY <1>3, <1>5 DEF X

(* The dates of one task follow those of its predecessors. *)
LEMMA EarlyOne ==
    ASSUME calendar \in Calendars, NEW rows \in [Tasks -> Rows \cup {None}], NEW links,
           Network(rows, links), NEW t \in Existing(rows)
    PROVE  /\ Early(rows, links) \in [Existing(rows) -> EarlyDates \cup {None}]
           /\ rows[t] \in Rows
           /\ \A d \in links : d.pred \in Existing(rows) /\ d.succ \in Existing(rows)
           /\ Candidates(rows, links, Early(rows, links), t) \subseteq Int
           /\ IsFiniteSet(Candidates(rows, links, Early(rows, links), t))
           /\ Early(rows, links)[t] =
                  ApplyActuals(rows[t], Planned(rows[t], Candidates(rows, links, Early(rows, links), t)))
<1>1. PICK f : f = Early(rows, links) /\ IsEarly(rows, links, f, Existing(rows))
  BY EarlyIs
<1>2. f \in [Existing(rows) -> EarlyDates \cup {None}]
  BY <1>1, EarlyTyped
<1>3. f[t] = EarlyOf(rows, links, f, t)
  BY <1>1, Zenon DEF IsEarly
<1>4. rows[t] \in Rows
  BY DEF Existing
<1>5. \A d \in links : d.pred \in Existing(rows) /\ d.succ \in Existing(rows)
  BY LinksTyped DEF Network, Existing
<1>6. \A d \in links : f[d.pred] \in EarlyDates \cup {None}
  BY <1>2, <1>5
<1>7. Candidates(rows, links, f, t) \subseteq Int /\ IsFiniteSet(Candidates(rows, links, f, t))
  BY <1>4, <1>6, CandidatesAre DEF Network
<1> QED BY <1>1, <1>2, <1>3, <1>4, <1>5, <1>7 DEF EarlyOf

-----------------------------------------------------------------------------
(* Dependencies are honoured *)

(* Going back from a finish and forward again does not come out before it. *)
LEMMA FinishReached ==
    ASSUME calendar \in Calendars, NEW x \in Int, NEW n \in Nat, NEW s \in Int,
           FinishingBy(x, n) <= s
    PROVE  From(s, n).ef \in Int /\ From(s, n).ef >= x
<1>1. CASE n = 0
  <2>1. FinishingBy(x, n) = x
    BY <1>1 DEF FinishingBy
  <2> QED BY <1>1, <2>1, FromIs
<1>2. CASE n > 0
  <2>1. FinishingBy(x, n) = AddWorkingDays(x, -(n - 1))
    BY <1>2, Zenon DEF FinishingBy
  <2>2. PICK e \in Int : /\ e = From(s, n).ef /\ e >= s
                         /\ WorkingDaysBetween(s, e) = n
    <3>1. From(s, n).ef = AddWorkingDays(s, n)
      BY <1>2, FromIs
    <3> QED BY <1>2, <3>1, AddDays
  <2>3. PICK m \in Nat : m = n - 1 /\ -(n - 1) = -m /\ m + 1 = n
    BY <1>2
  <2>4. CASE m = 0
    <3>1. \A k \in Int : \A j \in Int : (k <= 0 /\ k >= 0 /\ j = -k) => j = 0
      OBVIOUS
    <3>2. m \in Int /\ -m \in Int /\ m <= 0 /\ m >= 0
      BY <2>4
    <3>3. -m = 0
      BY <3>1, <3>2, Zenon
    <3>4. x <= s
      BY <2>1, <2>3, <3>3, AddNoDays
    <3> QED BY <2>2, <3>4
  <2>5. CASE m > 0
    <3>1. PICK c \in Int : /\ c = AddWorkingDays(x, -m) /\ c <= NextWorkingDay(x)
                           /\ WorkingDaysBetween(c, NextWorkingDay(x)) = n
      BY <2>3, <2>5, SubtractDays
    <3>2. PICK z \in Int : z = NextWorkingDay(x) /\ x <= z /\ IsWorkingDay(z)
      BY NextWorkingDayIs
    <3>3. c <= s
      BY <2>1, <2>3, <3>1
    <3>4. ASSUME e < x
          PROVE  FALSE
      <4>1. e < z /\ c <= z
        BY <3>1, <3>2, <3>4
      <4>2. WorkingDaysBetween(c, e) < n
        BY <3>1, <3>2, <4>1, CountTells
      <4>3. WorkingDaysBetween(s, e) <= WorkingDaysBetween(c, e)
        BY <3>3, CountGrows
      <4>4. WorkingDaysBetween(c, e) \in Nat
        BY CountIs
      <4> QED BY <2>2, <4>2, <4>3, <4>4
    <3> QED BY <2>2, <3>4
  <2> QED BY <2>4, <2>5
<1> QED BY <1>1, <1>2

(* A lag of at least 0 days leads to a day that honours it. *)
LEMMA LagReached ==
    ASSUME calendar \in Calendars, NEW a \in Int, NEW n \in Nat, NEW b \in Int,
           AddWorkingDays(a, n) <= b
    PROVE  a <= b /\ WorkingDaysBetween(a, b) >= n
<1>1. WorkingDaysBetween(a, b) \in Nat
  BY CountIs
<1>2. CASE n = 0
  BY <1>1, <1>2, AddNoDays
<1>3. CASE n > 0
  <2>1. PICK x \in Int : x = AddWorkingDays(a, n) /\ x >= a /\ WorkingDaysBetween(a, x) = n
    BY <1>3, AddDays
  <2>2. WorkingDaysBetween(a, x) <= WorkingDaysBetween(a, b)
    BY <2>1, CountGrows
  <2> QED BY <1>1, <2>1, <2>2
<1> QED BY <1>2, <1>3

(* A successor that starts no earlier than a candidate honours its dependency. *)
LEMMA CandidateHonoured ==
    ASSUME calendar \in Calendars, NEW d \in Dependencies, d.lag >= 0,
           NEW p \in EarlyDates, NEW n \in Nat, NEW s \in Int, Candidate(d, p, n) <= s
    PROVE  Honoured(d, p, From(s, n))
<1>1. PICK lag \in Nat : d.lag = lag
  <2>1. d.lag \in Lags
    BY DEF Dependencies
  <2>2. Lags \subseteq Int
    BY ScheduleAssumption
  <2>3. d.lag \in Int
    BY <2>1, <2>2, Zenon
  <2>4. \A l \in Int : l >= 0 => l \in Nat
    OBVIOUS
  <2> QED BY <2>3, <2>4, Zenon
<1>2. PICK a \in Int, b \in Int : p.es = a /\ p.ef = b
  BY DEF EarlyDates
<1>3. PICK e \in Int : From(s, n).es = s /\ From(s, n).ef = e
  <2>1. From(s, n) \in EarlyDates /\ From(s, n).es = s
    BY FromIs
  <2> QED BY <2>1 DEF EarlyDates
<1>4. d.type \in {"FS", "SS", "FF", "SF"}
  BY ScheduleAssumption DEF Dependencies
<1>5. CASE d.type = "FS"
  <2>1. Candidate(d, p, n) = AddWorkingDays(b, lag + 2)
    BY <1>1, <1>2, <1>5 DEF Candidate
  <2>2. lag + 2 \in Nat /\ lag + 2 > 0
    OBVIOUS
  <2>3. PICK x \in Int : /\ x = AddWorkingDays(b, lag + 2) /\ x >= b
                         /\ WorkingDaysBetween(b, x) = lag + 2
    BY <2>2, AddDays
  <2>4. WorkingDaysBetween(b, x) = WorkingDaysBetween(b, b) + WorkingDaysBetween(b + 1, x)
    BY <2>3, CountSplit
  <2>5. WorkingDaysBetween(b, b) <= 1
    <3>1. CASE IsWorkingDay(b)
      BY <3>1, CountOfDay
    <3>2. CASE ~IsWorkingDay(b)
      <4>1. \A y \in b..b : ~IsWorkingDay(y)
        BY <3>2
      <4>2. WorkingDaysBetween(b, b) = 0
        BY <4>1, CountNone
      <4> QED BY <4>2
    <3> QED BY <3>1, <3>2
  <2>6. WorkingDaysBetween(b + 1, x) <= WorkingDaysBetween(b + 1, s)
    <3>1. b + 1 \in Int /\ b + 1 <= b + 1 /\ x <= s
      BY <2>1, <2>3
    <3> QED BY <3>1, CountGrows
  <2>7. /\ WorkingDaysBetween(b, b) \in Nat /\ WorkingDaysBetween(b + 1, x) \in Nat
        /\ WorkingDaysBetween(b + 1, s) \in Nat
    <3>1. b + 1 \in Int
      OBVIOUS
    <3> QED BY <3>1, CountIs
  <2>8. WorkingDaysBetween(b + 1, s) > lag
    BY <2>3, <2>4, <2>5, <2>6, <2>7
  <2> QED BY <1>1, <1>2, <1>3, <1>5, <2>8, Zenon DEF Honoured
<1>6. CASE d.type = "SS"
  <2>1. Candidate(d, p, n) = AddWorkingDays(a, lag)
    BY <1>1, <1>2, <1>6 DEF Candidate
  <2>2. a <= s /\ WorkingDaysBetween(a, s) >= lag
    BY <2>1, LagReached
  <2>3. s >= a
    BY <2>2
  <2> QED BY <1>1, <1>2, <1>3, <1>6, <2>2, <2>3 DEF Honoured
<1>7. ASSUME NEW y \in Int, Candidate(d, p, n) = FinishingBy(AddWorkingDays(y, lag), n)
      PROVE  e >= y /\ WorkingDaysBetween(y, e) >= lag
  <2>1. PICK x \in Int : x = AddWorkingDays(y, lag)
    BY AddIsInt
  <2>2. x <= e
    BY <1>3, <1>7, <2>1, FinishReached
  <2>3. y <= e /\ WorkingDaysBetween(y, e) >= lag
    BY <2>1, <2>2, LagReached
  <2> QED BY <2>3
<1>8. CASE d.type = "FF"
  <2>1. Candidate(d, p, n) = FinishingBy(AddWorkingDays(b, lag), n)
    BY <1>1, <1>2, <1>8 DEF Candidate
  <2> QED BY <1>1, <1>2, <1>3, <1>7, <1>8, <2>1 DEF Honoured
<1>9. CASE d.type = "SF"
  <2>1. Candidate(d, p, n) = FinishingBy(AddWorkingDays(a, lag), n)
    BY <1>1, <1>2, <1>9 DEF Candidate
  <2> QED BY <1>1, <1>2, <1>3, <1>7, <1>9, <2>1 DEF Honoured
<1> QED BY <1>4, <1>5, <1>6, <1>8, <1>9

LEMMA NetworkHonoured ==
    ASSUME TypeOK, Network(task, deps)
    PROVE  DependenciesHonoured
<1>1. PICK f : f = Early(task, deps)
  OBVIOUS
<1>2. calendar \in Calendars /\ task \in [Tasks -> Rows \cup {None}] /\ deps \subseteq Dependencies
  BY DEF TypeOK
<1> SUFFICES ASSUME NEW d \in deps, d.lag >= 0, f[d.pred] # None,
                    task[d.succ].actualEnd = None
             PROVE  Honoured(d, f[d.pred], f[d.succ])
  BY <1>1, Zenon DEF DependenciesHonoured
<1>3. PICK t : t = d.succ
  OBVIOUS
<1>4. d.pred \in Existing(task) /\ t \in Existing(task)
  BY <1>2, <1>3, LinksTyped DEF Network, Existing
<1>5. /\ f \in [Existing(task) -> EarlyDates \cup {None}] /\ task[t] \in Rows
      /\ Candidates(task, deps, f, t) \subseteq Int /\ IsFiniteSet(Candidates(task, deps, f, t))
      /\ f[t] = ApplyActuals(task[t], Planned(task[t], Candidates(task, deps, f, t)))
  BY <1>1, <1>2, <1>4, EarlyOne
<1>6. PICK p \in EarlyDates : p = f[d.pred]
  BY <1>4, <1>5
<1>7. PICK row \in Rows : row = task[t]
  BY <1>5
<1>8. PICK n \in Nat : n = Days(row)
  BY RowIs
<1>9. PICK C : /\ C = Candidates(task, deps, f, t) /\ C \subseteq Int /\ IsFiniteSet(C)
               /\ f[t] = ApplyActuals(row, Planned(row, C))
  BY <1>5, <1>7
<1>10. PICK c \in Int : c = Candidate(d, p, n) /\ c \in C
  <2>1. Candidate(d, f[d.pred], Days(task[t])) \in Candidates(task, deps, f, t)
    BY <1>3, Zenon DEF Candidates
  <2> QED BY <1>6, <1>7, <1>8, <1>9, <2>1
<1>11. PICK m \in Int : m >= c /\ Planned(row, C) = From(m, n)
  <2>1. C # {}
    BY <1>10
  <2>2. /\ Max(C) \in Int /\ Planned(row, C) = From(Max(C), Days(row))
        /\ \A x \in C : x <= Max(C)
    BY <1>2, <1>9, <2>1, PlannedIs
  <2>3. c <= Max(C)
    BY <1>10, <2>2
  <2> QED BY <1>8, <2>2, <2>3
<1>12. PICK e \in EarlyDates : e = From(m, n) /\ e.es = m /\ e # None
  BY <1>2, FromIs, ScheduleRowsAssumption
<1>13. \E s \in Int : s >= c /\ f[t] = From(s, n)
  <2>1. row.actualEnd = None
    BY <1>3, <1>7
  <2>2. CASE ApplyActuals(row, e) = e
    BY <1>9, <1>11, <1>12, <2>2
  <2>3. CASE /\ row.actualStart \in Int /\ e.es < row.actualStart
             /\ ApplyActuals(row, e) = From(row.actualStart, n)
    BY <1>9, <1>11, <1>12, <2>3
  <2> QED BY <1>2, <1>8, <1>12, <2>1, <2>2, <2>3, ActualsAre
<1>14. PICK s \in Int : s >= c /\ f[t] = From(s, n)
  BY <1>13
<1>15. Candidate(d, p, n) <= s /\ d \in Dependencies
  BY <1>2, <1>10, <1>14
<1>16. Honoured(d, p, From(s, n))
  BY <1>2, <1>15, CandidateHonoured
<1> QED BY <1>3, <1>6, <1>14, <1>16

-----------------------------------------------------------------------------
(* A recalculation can be repeated *)

(* The dates written to a row. *)
LEMMA WithDatesIs ==
    ASSUME NEW row \in Rows, NEW e \in EarlyDates \cup {None}
    PROVE  /\ WithDates(row, e) \in Rows
           /\ WithDates(row, e).duration = row.duration
           /\ WithDates(row, e).actualStart = row.actualStart
           /\ WithDates(row, e).actualEnd = row.actualEnd
           /\ WithDates(row, e).start = IF row.actualStart # None THEN row.start
                                        ELSE IF e = None THEN None ELSE e.es
           /\ WithDates(row, e).end = IF row.actualEnd # None THEN row.end
                                      ELSE IF e = None THEN None ELSE e.ef
<1>1. row = [start |-> row.start, end |-> row.end, duration |-> row.duration,
             actualStart |-> row.actualStart, actualEnd |-> row.actualEnd]
  BY DEF Rows
<1>2. e # None => e.es \in Int /\ e.ef \in Int
  BY DEF EarlyDates
<1> QED BY <1>1, <1>2, RowIs DEF WithDates, Rows, Dates

LEMMA WithDatesTwice ==
    ASSUME NEW row \in Rows, NEW e \in EarlyDates \cup {None}
    PROVE  WithDates(WithDates(row, e), e) = WithDates(row, e)
<1>1. PICK w \in Rows :
          /\ w = WithDates(row, e)
          /\ w.actualStart = row.actualStart /\ w.actualEnd = row.actualEnd
          /\ w.start = IF row.actualStart # None THEN row.start
                       ELSE IF e = None THEN None ELSE e.es
          /\ w.end = IF row.actualEnd # None THEN row.end
                     ELSE IF e = None THEN None ELSE e.ef
  BY WithDatesIs
<1>2. w = [start |-> w.start, end |-> w.end, duration |-> w.duration,
           actualStart |-> w.actualStart, actualEnd |-> w.actualEnd]
  BY DEF Rows
<1>3. [w EXCEPT !.start = w.start, !.end = w.end] = w
  BY <1>2
<1>4. /\ w.start = IF w.actualStart # None THEN w.start ELSE IF e = None THEN None ELSE e.es
      /\ w.end = IF w.actualEnd # None THEN w.end ELSE IF e = None THEN None ELSE e.ef
  BY <1>1
<1>5. WithDates(w, e) = [w EXCEPT !.start = w.start, !.end = w.end]
  BY <1>1, <1>4 DEF WithDates
<1> QED BY <1>1, <1>3, <1>5

(* What a recalculation writes. *)
LEMMA ScheduledIs ==
    ASSUME NEW rows \in [Tasks -> Rows \cup {None}],
           NEW f \in [Existing(rows) -> EarlyDates \cup {None}]
    PROVE  /\ Scheduled(rows, f) \in [Tasks -> Rows \cup {None}]
           /\ \A t \in Tasks : Scheduled(rows, f)[t] = None <=> rows[t] = None
           /\ Existing(Scheduled(rows, f)) = Existing(rows)
           /\ \A t \in Existing(rows) : Scheduled(rows, f)[t] = WithDates(rows[t], f[t])
<1>1. ASSUME NEW t \in Existing(rows)
      PROVE  /\ WithDates(rows[t], f[t]) \in Rows /\ WithDates(rows[t], f[t]) # None
  <2>1. rows[t] \in Rows /\ f[t] \in EarlyDates \cup {None}
    BY DEF Existing
  <2>2. WithDates(rows[t], f[t]) \in Rows
    BY <2>1, WithDatesIs
  <2> QED BY <2>2, ScheduleRowsAssumption
<1>2. PICK w : w = [t \in Tasks |-> IF rows[t] = None THEN None ELSE WithDates(rows[t], f[t])]
  OBVIOUS
<1>3. w = Scheduled(rows, f)
  BY <1>2, Zenon DEF Scheduled
<1>4. \A t \in Tasks : t \in Existing(rows) <=> rows[t] # None
  BY DEF Existing
<1>5. \A t \in Tasks : /\ rows[t] = None => w[t] = None
                       /\ rows[t] # None => w[t] = WithDates(rows[t], f[t]) /\ w[t] \in Rows
                                            /\ w[t] # None
  BY <1>1, <1>2, <1>4
<1>6. w \in [Tasks -> Rows \cup {None}]
  <2>1. \A t \in Tasks : w[t] \in Rows \cup {None}
    BY <1>5
  <2>2. w = [t \in Tasks |-> w[t]]
    BY <1>2
  <2> QED BY <2>1, <2>2
<1>7. Existing(w) = Existing(rows)
  BY <1>5 DEF Existing
<1>8. \A t \in Existing(rows) : t \in Tasks /\ rows[t] # None
  BY DEF Existing
<1> QED BY <1>3, <1>5, <1>6, <1>7, <1>8

LEMMA RecalculatedIs ==
    ASSUME calendar \in Calendars, NEW rows \in [Tasks -> Rows \cup {None}], NEW links,
           Network(rows, links)
    PROVE  /\ Recalculated(rows, links) \in [Tasks -> Rows \cup {None}]
           /\ \A t \in Tasks : Recalculated(rows, links)[t] = None <=> rows[t] = None
<1>1. Early(rows, links) \in [Existing(rows) -> EarlyDates \cup {None}]
  BY EarlyIs, EarlyTyped
<1>2. PICK w : w = Scheduled(rows, Early(rows, links))
  OBVIOUS
<1>3. w \in [Tasks -> Rows \cup {None}] /\ \A t \in Tasks : w[t] = None <=> rows[t] = None
  BY <1>1, <1>2, ScheduledIs
<1>4. Recalculated(rows, links) = w \/ Recalculated(rows, links) = rows
  BY <1>2, Zenon DEF Recalculated
<1> QED BY <1>3, <1>4

(* The dates written are the dates that the written rows lead to. *)
LEMMA SameDates ==
    ASSUME calendar \in Calendars, NEW row \in Rows, NEW S, S \subseteq Int, IsFiniteSet(S),
           NEW e \in EarlyDates \cup {None}, e = ApplyActuals(row, Planned(row, S))
    PROVE  ApplyActuals(WithDates(row, e), Planned(WithDates(row, e), S)) = e
<1>1. PICK w \in Rows :
          /\ w = WithDates(row, e) /\ w.duration = row.duration
          /\ w.actualStart = row.actualStart /\ w.actualEnd = row.actualEnd
          /\ w.start = IF row.actualStart # None THEN row.start
                       ELSE IF e = None THEN None ELSE e.es
  BY WithDatesIs
<1>2. Days(w) = Days(row) /\ Days(row) \in Nat
  BY <1>1, RowIs DEF Days
<1>3. \A x : ApplyActuals(w, x) = ApplyActuals(row, x)
  BY <1>1, <1>2, Zenon DEF ApplyActuals
<1>4. CASE row.actualEnd # None
  <2>1. \A x, y : ApplyActuals(row, x) = ApplyActuals(row, y)
    BY <1>4, Zenon DEF ApplyActuals
  <2> QED BY <1>1, <1>3, <2>1, Zenon
<1>5. CASE Planned(w, S) = Planned(row, S)
  BY <1>1, <1>3, <1>5, Zenon
<1>6. CASE S # {}
  <2>1. Planned(w, S) = Planned(row, S)
    BY <1>2, <1>6, Zenon DEF Planned
  <2> QED BY <1>5, <2>1
<1>7. CASE S = {} /\ row.actualStart # None
  <2>1. w.start = row.start
    BY <1>1, <1>7
  <2>2. Planned(w, S) = Planned(row, S)
    BY <1>2, <2>1, Zenon DEF Planned
  <2> QED BY <1>5, <2>2
<1>8. CASE S = {} /\ row.actualStart = None /\ row.actualEnd = None
  <2>1. e = Planned(row, S)
    BY <1>8, Zenon DEF ApplyActuals
  <2>2. CASE row.start # None
    <3>1. row.start \in Int
      BY <2>2, RowIs
    <3>2. e = From(row.start, Days(row))
      BY <1>8, <2>1, <2>2, PlannedIs
    <3>3. e \in EarlyDates /\ e.es = row.start
      BY <1>2, <3>1, <3>2, FromIs
    <3>4. w.start = row.start
      BY <1>1, <1>8, <3>3, ScheduleRowsAssumption
    <3>5. Planned(w, S) = Planned(row, S)
      BY <1>2, <3>4, Zenon DEF Planned
    <3> QED BY <1>5, <3>5
  <2>3. CASE row.start = None
    <3>1. e = None
      BY <1>8, <2>1, <2>3, PlannedIs
    <3>2. w.start = row.start
      BY <1>1, <1>8, <2>3, <3>1
    <3>3. Planned(w, S) = Planned(row, S)
      BY <1>2, <3>2, Zenon DEF Planned
    <3> QED BY <1>5, <3>3
  <2> QED BY <2>2, <2>3
<1> QED BY <1>4, <1>6, <1>7, <1>8

LEMMA NetworkStable ==
    ASSUME TypeOK, Network(task, deps)
    PROVE  RecalculationStable
<1>1. calendar \in Calendars /\ task \in [Tasks -> Rows \cup {None}]
  BY DEF TypeOK
<1>2. PICK once : once = Recalculated(task, deps)
  OBVIOUS
<1> SUFFICES Recalculated(once, deps) = once
  BY <1>2, Zenon DEF RecalculationStable
<1>3. CASE ~Recalculable(task, deps)
  <2>1. once = task
    BY <1>2, <1>3, Zenon DEF Recalculated
  <2> QED BY <1>2, <2>1
<1>4. CASE Recalculable(task, deps)
  <2>1. PICK f : f = Early(task, deps)
    OBVIOUS
  <2>2. once = Scheduled(task, f)
    BY <1>2, <1>4, <2>1, Zenon DEF Recalculated
  <2>3. f \in [Existing(task) -> EarlyDates \cup {None}]
    BY <1>1, <2>1, EarlyIs, EarlyTyped
  <2>4. /\ once \in [Tasks -> Rows \cup {None}] /\ Existing(once) = Existing(task)
        /\ \A t \in Tasks : once[t] = None <=> task[t] = None
        /\ \A t \in Existing(task) : once[t] = WithDates(task[t], f[t])
    BY <1>1, <2>2, <2>3, ScheduledIs
  <2>5. Network(once, deps)
    <3>1. \A d \in deps : d.pred \in Tasks /\ d.succ \in Tasks
      BY LinksTyped DEF Network
    <3> QED BY <2>4, <3>1 DEF Network
  <2>6. ASSUME NEW t \in Existing(task)
        PROVE  f[t] = EarlyOf(once, deps, f, t)
    <3>1. PICK C : C = Candidates(task, deps, f, t)
      OBVIOUS
    <3>2. /\ task[t] \in Rows /\ C \subseteq Int /\ IsFiniteSet(C)
          /\ f[t] = ApplyActuals(task[t], Planned(task[t], C))
      BY <1>1, <2>1, <3>1, EarlyOne
    <3>3. PICK row \in Rows : row = task[t]
      BY <3>2
    <3>4. PICK e \in EarlyDates \cup {None} : e = f[t]
      BY <2>3
    <3>5. once[t] = WithDates(row, e)
      BY <2>4, <3>3, <3>4
    <3>6. Days(once[t]) = Days(row)
      <4>1. WithDates(row, e).duration = row.duration
        BY WithDatesIs
      <4> QED BY <3>5, <4>1 DEF Days
    <3>7. Candidates(once, deps, f, t) = C
      BY <3>1, <3>3, <3>6, Zenon DEF Candidates
    <3>8. ApplyActuals(WithDates(row, e), Planned(WithDates(row, e), C)) = e
      BY <1>1, <3>2, <3>3, <3>4, SameDates
    <3> QED BY <3>4, <3>5, <3>7, <3>8, Zenon DEF EarlyOf
  <2>7. IsEarly(once, deps, f, Existing(once))
    <3>1. f = [t \in Existing(task) |-> f[t]]
      BY <2>3
    <3> QED BY <2>4, <2>6, <3>1, Zenon DEF IsEarly
  <2>8. Early(once, deps) = f
    BY <2>5, <2>7, EarlyIs, EarlyUnique
  <2>9. Recalculable(once, deps)
    BY <1>4, <2>1, <2>8, Zenon DEF Recalculable
  <2>10. Recalculated(once, deps) = Scheduled(once, f)
    BY <2>8, <2>9, Zenon DEF Recalculated
  <2>11. PICK twice : twice = Scheduled(once, f)
    OBVIOUS
  <2>12. /\ twice \in [Tasks -> Rows \cup {None}]
         /\ \A t \in Tasks : twice[t] = None <=> once[t] = None
         /\ \A t \in Existing(once) : twice[t] = WithDates(once[t], f[t])
    BY <2>3, <2>4, <2>11, ScheduledIs
  <2>13. ASSUME NEW t \in Tasks PROVE twice[t] = once[t]
    <3>1. CASE once[t] = None
      BY <2>12, <3>1
    <3>2. CASE once[t] # None
      <4>1. t \in Existing(once) /\ t \in Existing(task) /\ task[t] \in Rows
        BY <1>1, <2>4, <3>2 DEF Existing
      <4>2. twice[t] = WithDates(WithDates(task[t], f[t]), f[t])
        BY <2>4, <2>12, <4>1
      <4>3. f[t] \in EarlyDates \cup {None}
        BY <2>3, <4>1
      <4>4. WithDates(WithDates(task[t], f[t]), f[t]) = WithDates(task[t], f[t])
        BY <4>1, <4>3, WithDatesTwice
      <4> QED BY <2>4, <4>1, <4>2, <4>4
    <3> QED BY <3>1, <3>2
  <2>14. twice = once
    BY <2>4, <2>12, <2>13
  <2> QED BY <2>10, <2>11, <2>14
<1> QED BY <1>3, <1>4

-----------------------------------------------------------------------------
(* The invariant of the network *)

NetInv == NetworkSound /\ IsFiniteSet(deps)

(* A request for an addition knows tasks that exist or that its predecessor is gone, one
   for a removal a dependency of the network; no two wait for one entity. *)
AskedOf(r, rows, links) ==
    /\ r.type = "dependency.add" => /\ rows[r.link.succ] # None
                                    /\ r.link.pred # None => rows[r.link.pred] # None
    /\ r.type = "dependency.remove" => r.link \in links

RequestsOK(asked, rows, links) ==
    /\ asked \subseteq RequestRows
    /\ \A q, r \in asked : SameEntity(q, r) => q = r
    /\ \A r \in asked : AskedOf(r, rows, links)

SInv == NetInv /\ RequestsOK(waiting, task, deps)

LEMMA NetInvIs ==
    NetInv <=> /\ calendar \in Calendars /\ task \in [Tasks -> Rows \cup {None}]
               /\ edits \in 0..MaxEdits /\ Network(task, deps)
BY DEF NetInv, NetworkSound, TypeOK, NoCycle, DependenciesResolve, Network

(* The rows and dependencies a step leaves form a network again when they do ... *)
LEMMA NetInvAfter ==
    ASSUME calendar' \in Calendars, task' \in [Tasks -> Rows \cup {None}],
           edits' \in 0..MaxEdits, Network(task', deps')
    PROVE  NetInv'
BY DEF NetInv, NetworkSound, TypeOK, NoCycle, DependenciesResolve, Network, Calendars,
       Rows, Dates, Dependencies, Acyclic, Reachable, Closed

(* ... and they do after any recalculation of a network. *)
LEMMA NetworkKept ==
    ASSUME NEW rows, NEW links, Network(rows, links), NEW after,
           \A t \in Tasks : rows[t] # None => after[t] # None
    PROVE  Network(after, links)
<1>1. \A d \in links : d.pred \in Tasks /\ d.succ \in Tasks
  BY LinksTyped DEF Network
<1> QED BY <1>1 DEF Network

LEMMA NetworkFewer ==
    ASSUME NEW rows, NEW links, Network(rows, links), NEW D, D \subseteq links
    PROVE  Network(rows, D)
BY AcyclicFewer, FS_Subset DEF Network

LEMMA NetworkMore ==
    ASSUME NetInv, NEW n \in Dependencies, DependencyValid(n.pred, n.succ),
           task[n.pred] # None, task[n.succ] # None
    PROVE  Network(task, deps \cup {n})
<1>1. Network(task, deps)
  BY NetInvIs
<1>2. n.pred \notin Reachable(n.succ, LinksOf(deps))
  BY Zenon DEF DependencyValid, Links, LinksOf
<1>3. Acyclic(deps \cup {n})
  BY <1>1, <1>2, AcyclicMore DEF Network
<1>4. IsFiniteSet(deps \cup {n})
  BY <1>1, FS_AddElement DEF Network
<1> QED BY <1>1, <1>3, <1>4 DEF Network

(* The calendar a change of it leaves. *)
LEMMA CalendarKept ==
    ASSUME calendar \in Calendars, CalendarNext
    PROVE  calendar' \in Calendars
<1>1. ASSUME NEW pattern \in WeekPatterns, SetWorkingDays(pattern)
      PROVE  calendar' \in Calendars
  BY <1>1 DEF SetWorkingDays, Calendars
<1>2. ASSUME NEW h \in Holidays, NEW d \in HolidayDates, AddHoliday(h, d)
      PROVE  calendar' \in Calendars
  BY <1>2 DEF AddHoliday, Calendars
<1>3. ASSUME NEW h \in Holidays, DeleteHoliday(h)
      PROVE  calendar' \in Calendars
  BY <1>3 DEF DeleteHoliday, Calendars
<1> QED BY <1>1, <1>2, <1>3 DEF CalendarNext

(* A project starts without tasks and dependencies. *)
LEMMA NetInvInit == Init => NetInv
<1> SUFFICES ASSUME Init PROVE NetInv
  OBVIOUS
<1>1. calendar \in Calendars
  BY CalendarAssumption DEF Init, CalendarInit, Calendars
<1>2. task \in [Tasks -> Rows \cup {None}] /\ edits \in 0..MaxEdits
  BY ScheduleAssumption DEF Init
<1>3. Network(task, deps)
  BY FS_EmptySet DEF Init, Network, Acyclic
<1> QED BY <1>1, <1>2, <1>3, NetInvIs

(* An end is a day or, without a start or a duration, none. *)
LEMMA EndOfIs ==
    ASSUME calendar \in Calendars, NEW start \in Int \cup {None}, NEW duration \in Durations
    PROVE  EndOf(start, duration) \in Int \cup {None}
<1>1. duration # None => duration \in Int
  BY ScheduleAssumption
<1> QED BY <1>1, AddIsInt DEF EndOf

(* An edit of a row. *)
LEMMA RowWritten ==
    ASSUME NetInv, NEW t \in Tasks, NEW row \in Rows, task' = [task EXCEPT ![t] = row],
           Edit, UNCHANGED <<calendar, deps>>
    PROVE  /\ NetInv'
           /\ \A u \in Tasks : task[u] # None => task'[u] # None
<1>1. /\ calendar \in Calendars /\ task \in [Tasks -> Rows \cup {None}]
      /\ edits \in 0..MaxEdits /\ Network(task, deps)
  BY NetInvIs
<1>2. task' \in [Tasks -> Rows \cup {None}] /\ \A u \in Tasks : task[u] # None => task'[u] # None
  BY <1>1, ScheduleRowsAssumption
<1>3. edits' \in 0..MaxEdits
  BY <1>1, ScheduleAssumption DEF Edit
<1>4. Network(task', deps)
  BY <1>1, <1>2, NetworkKept
<1> QED BY <1>1, <1>2, <1>3, <1>4, NetInvAfter

(* A change of the network with or without a recalculation. *)
LEMMA Rescheduled ==
    ASSUME NetInv, Network(task, deps'), task' \in {task, Recalculated(task, deps')},
           edits' \in 0..MaxEdits, UNCHANGED calendar
    PROVE  /\ NetInv'
           /\ \A u \in Tasks : task'[u] # None <=> task[u] # None
<1>1. calendar \in Calendars /\ task \in [Tasks -> Rows \cup {None}]
  BY NetInvIs
<1>2. task' \in [Tasks -> Rows \cup {None}] /\ \A u \in Tasks : task'[u] = None <=> task[u] = None
  <2>1. PICK D : D = deps'
    OBVIOUS
  <2>2. CASE task' = task
    BY <1>1, <2>2
  <2>3. CASE task' = Recalculated(task, D)
    BY <1>1, <2>1, <2>3, RecalculatedIs
  <2> QED BY <2>1, <2>2, <2>3
<1>3. Network(task', deps')
  BY <1>2, NetworkKept
<1> QED BY <1>1, <1>2, <1>3, NetInvAfter

(* Every step of the tasks, the dependencies and the calendar keeps the network, and
   only deletions take away what requests ask about. *)
LEMMA NetInvNext ==
    ASSUME NetInv, Next
    PROVE  NetInv'
<1>1. /\ calendar \in Calendars /\ task \in [Tasks -> Rows \cup {None}]
      /\ edits \in 0..MaxEdits /\ Network(task, deps)
  BY NetInvIs
<1>2. deps \subseteq Dependencies
  BY <1>1 DEF Network
<1>3. ASSUME NEW t \in Tasks, NEW start \in StartDates, NEW duration \in Durations,
             CreateTask(t, start, duration)
      PROVE  NetInv'
  <2> DEFINE row == [start |-> start, end |-> EndOf(start, duration), duration |-> duration,
                     actualStart |-> None, actualEnd |-> None]
  <2>1. start \in Int \cup {None}
    BY ScheduleAssumption
  <2>2. EndOf(start, duration) \in Int \cup {None}
    BY <1>1, <2>1, EndOfIs
  <2>3. row \in Rows
    BY <2>1, <2>2 DEF Rows, Dates
  <2>4. task' = [task EXCEPT ![t] = row] /\ Edit /\ UNCHANGED <<calendar, deps>>
    BY <1>3, Zenon DEF CreateTask
  <2> HIDE DEF row
  <2> QED BY <2>3, <2>4, RowWritten
<1>4. ASSUME NEW t \in Tasks, NEW start \in StartDates, NEW duration \in Durations,
             UpdateTask(t, start, duration)
      PROVE  NetInv'
  <2>1. PICK row \in Rows : row = task[t]
    BY <1>1, <1>4 DEF UpdateTask
  <2> DEFINE newStart == Given(start, row.start)
             newDuration == Given(duration, row.duration)
             newEnd == Given(EndOf(newStart, newDuration), row.end)
             new == [row EXCEPT !.start = newStart, !.end = newEnd, !.duration = newDuration]
  <2>2. /\ row.start \in Int \cup {None} /\ row.end \in Int \cup {None}
        /\ row.duration \in Durations
    BY RowIs
  <2>3. newStart \in Int \cup {None} /\ newDuration \in Durations
    BY <2>2, ScheduleAssumption DEF Given
  <2>4. EndOf(newStart, newDuration) \in Int \cup {None}
    BY <1>1, <2>3, EndOfIs
  <2>5. newEnd \in Int \cup {None}
    BY <2>2, <2>4 DEF Given
  <2>6. task' = [task EXCEPT ![t] = new] /\ Edit /\ UNCHANGED <<calendar, deps>>
    BY <1>4, <2>1, Zenon DEF UpdateTask
  <2> HIDE DEF newStart, newDuration, newEnd
  <2>7. new \in Rows
    BY <2>3, <2>5 DEF Rows, Dates
  <2> HIDE DEF new
  <2> QED BY <2>6, <2>7, RowWritten
<1>5. ASSUME NEW t \in Tasks, NEW a \in ActualDates \cup {None}, NEW b \in ActualDates \cup {None},
             UpdateProgress(t, a, b)
      PROVE  NetInv'
  <2>1. PICK row \in Rows : row = task[t]
    BY <1>1, <1>5 DEF UpdateProgress
  <2> DEFINE newStart == Given(a, row.actualStart)
             newEnd == Given(b, row.actualEnd)
             new == [row EXCEPT !.actualStart = newStart, !.actualEnd = newEnd]
  <2>2. newStart \in Int \cup {None} /\ newEnd \in Int \cup {None}
    BY RowIs, ScheduleAssumption DEF Given
  <2>3. task' = [task EXCEPT ![t] = new] /\ Edit /\ UNCHANGED <<calendar, deps>>
    BY <1>5, <2>1, Zenon DEF UpdateProgress
  <2> HIDE DEF newStart, newEnd
  <2>4. new \in Rows
    BY <2>2 DEF Rows, Dates
  <2> HIDE DEF new
  <2> QED BY <2>3, <2>4, RowWritten
<1>6. ASSUME NEW t \in Tasks, DeleteTask(t)
      PROVE  NetInv'
  <2>1. /\ task' = [task EXCEPT ![t] = None] /\ Edit /\ calendar' = calendar
        /\ deps' = {d \in deps : d.pred # t /\ d.succ # t}
    BY <1>6 DEF DeleteTask
  <2>2. task' \in [Tasks -> Rows \cup {None}]
    BY <1>1, <2>1
  <2>3. edits' \in 0..MaxEdits
    BY <1>1, <2>1, ScheduleAssumption DEF Edit
  <2>4. Network(task, deps')
    BY <1>1, <2>1, NetworkFewer
  <2>5. \A d \in deps' : task'[d.pred] # None /\ task'[d.succ] # None
    <3>1. \A d \in deps : /\ d.pred \in Tasks /\ d.succ \in Tasks
                          /\ task[d.pred] # None /\ task[d.succ] # None
      BY <1>1, <1>2, LinksTyped DEF Network
    <3> QED BY <1>1, <2>1, <3>1
  <2>6. Network(task', deps')
    BY <2>4, <2>5 DEF Network
  <2> QED BY <1>1, <2>1, <2>2, <2>3, <2>6, NetInvAfter
<1>7. ASSUME NEW p \in Tasks, NEW s \in Tasks, NEW type \in Types, NEW lag \in Lags,
             AddDependency(p, s, type, lag)
      PROVE  NetInv'
  <2>1. PICK n \in Dependencies : n = [pred |-> p, succ |-> s, type |-> type, lag |-> lag]
    BY DEF Dependencies
  <2>2. n.pred = p /\ n.succ = s
    BY <2>1
  <2>3. /\ deps' = deps \cup {n} /\ task' = Recalculated(task, deps')
        /\ UNCHANGED <<calendar, edits>>
        /\ DependencyValid(p, s) /\ task[p] # None /\ task[s] # None
    BY <1>7, <2>1, Zenon DEF AddDependency
  <2>4. Network(task, deps')
    BY <2>2, <2>3, NetworkMore
  <2> QED BY <1>1, <2>3, <2>4, Rescheduled
<1>8. ASSUME NEW d \in deps, RemoveDependency(d)
      PROVE  NetInv'
  <2>1. /\ deps' = deps \ {d} /\ task' = Recalculated(task, deps')
        /\ Edit /\ UNCHANGED calendar
    BY <1>8, Zenon DEF RemoveDependency
  <2>2. Network(task, deps')
    BY <1>1, <2>1, NetworkFewer
  <2>3. edits' \in 0..MaxEdits
    BY <1>1, <2>1, ScheduleAssumption DEF Edit
  <2> QED BY <2>1, <2>2, <2>3, Rescheduled
<1>9. CASE RecalculateSchedule
  <2>1. task' = Recalculated(task, deps) /\ UNCHANGED <<calendar, deps, edits>>
    BY <1>9, Zenon DEF RecalculateSchedule
  <2>2. deps' = deps
    BY <2>1
  <2>3. Network(task, deps') /\ task' = Recalculated(task, deps')
    BY <1>1, <2>1, <2>2
  <2> QED BY <1>1, <2>1, <2>3, Rescheduled
<1>10. CASE ChangeCalendar
  <2>1. CalendarNext /\ Edit /\ task' = task /\ deps' = deps
    BY <1>10 DEF ChangeCalendar
  <2>2. edits' \in 0..MaxEdits
    BY <1>1, <2>1, ScheduleAssumption DEF Edit
  <2>3. calendar' \in Calendars
    BY <1>1, <2>1, CalendarKept
  <2>4. task' \in [Tasks -> Rows \cup {None}] /\ Network(task', deps')
    BY <1>1, <2>1
  <2> QED BY <2>2, <2>3, <2>4, NetInvAfter
<1> QED BY <1>3, <1>4, <1>5, <1>6, <1>7, <1>8, <1>9, <1>10, Zenon DEF Next, TaskStep

-----------------------------------------------------------------------------
(* The pending requests *)

(* What becomes of a request while the network changes. *)
FollowedAs(r) == [r EXCEPT !.link.pred = IF @ \in Existing(task') THEN @ ELSE None]

(* The parts of a request. *)
LEMMA RequestIs ==
    ASSUME NEW r \in RequestRows
    PROVE  /\ r.type \in {"dependency.add", "dependency.remove"}
           /\ r.link.pred \in Tasks \cup {None} /\ r.link.succ \in Tasks
           /\ r.link.type \in Types /\ r.link.lag \in Lags
           /\ r.link.pred # None => r.link \in Dependencies
           /\ r = [type |-> r.type, link |-> r.link]
           /\ r.link = [pred |-> r.link.pred, succ |-> r.link.succ, type |-> r.link.type,
                        lag |-> r.link.lag]
<1>1. /\ r.type \in {"dependency.add", "dependency.remove"}
      /\ r.link \in [pred : Tasks \cup {None}, succ : Tasks, type : Types, lag : Lags]
      /\ r = [type |-> r.type, link |-> r.link]
  BY DEF RequestRows
<1>2. PICK l \in [pred : Tasks \cup {None}, succ : Tasks, type : Types, lag : Lags] : l = r.link
  BY <1>1
<1>3. /\ l.pred \in Tasks \cup {None} /\ l.succ \in Tasks /\ l.type \in Types /\ l.lag \in Lags
      /\ l = [pred |-> l.pred, succ |-> l.succ, type |-> l.type, lag |-> l.lag]
  OBVIOUS
<1>4. l.pred # None => l \in Dependencies
  BY <1>3 DEF Dependencies
<1> QED BY <1>1, <1>2, <1>3, <1>4

(* What a request becomes when tasks are deleted. *)
LEMMA FollowedIs ==
    ASSUME NEW r \in RequestRows
    PROVE  /\ FollowedAs(r) \in RequestRows
           /\ FollowedAs(r).type = r.type
           /\ FollowedAs(r).link.succ = r.link.succ
           /\ FollowedAs(r).link.pred = IF r.link.pred \in Existing(task') THEN r.link.pred ELSE None
           /\ r.link.pred \in Existing(task') => FollowedAs(r) = r
<1>1. PICK p \in Tasks \cup {None} :
          p = IF r.link.pred \in Existing(task') THEN r.link.pred ELSE None
  BY RequestIs
<1>2. PICK l : l = [r.link EXCEPT !.pred = p]
  OBVIOUS
<1>3. FollowedAs(r) = [type |-> r.type, link |-> l]
  <2>1. r = [type |-> r.type, link |-> r.link]
    BY RequestIs
  <2> QED BY <1>1, <1>2, <2>1 DEF FollowedAs
<1>4. l = [pred |-> p, succ |-> r.link.succ, type |-> r.link.type, lag |-> r.link.lag]
  <2>1. r.link = [pred |-> r.link.pred, succ |-> r.link.succ, type |-> r.link.type,
                  lag |-> r.link.lag]
    BY RequestIs
  <2> QED BY <1>2, <2>1
<1>5. l.pred = p /\ l.succ = r.link.succ
  BY <1>4
<1>6. FollowedAs(r).type = r.type /\ FollowedAs(r).link = l
  BY <1>3
<1>7. FollowedAs(r) \in RequestRows
  BY <1>3, <1>4, RequestIs DEF RequestRows
<1>8. ASSUME r.link.pred \in Existing(task')
      PROVE  FollowedAs(r) = r
  <2>1. p = r.link.pred
    BY <1>1, <1>8
  <2>2. l = r.link
    BY <1>4, <2>1, RequestIs
  <2> QED BY <1>3, <2>2, RequestIs
<1> QED BY <1>1, <1>5, <1>6, <1>7, <1>8

(* The requests that are left know what the new network is, whatever it has become. *)
LEMMA RequestsFollow ==
    ASSUME NetInv', RequestsOK(waiting, task, deps), NEW Q, Q \subseteq waiting
    PROVE  RequestsOK(Following(Q), task', deps')
<1> DEFINE L == {q \in Q : ~EntityGone(q)}
<1>1. Following(Q) = {FollowedAs(r) : r \in L}
  BY Zenon DEF Following, FollowedAs
<1>2. L \subseteq RequestRows /\ \A q, r \in L : SameEntity(q, r) => q = r
  <2>1. waiting \subseteq RequestRows /\ \A q, r \in waiting : SameEntity(q, r) => q = r
    BY Zenon DEF RequestsOK
  <2> QED BY <2>1
<1>3. ASSUME NEW r \in L, r.type = "dependency.remove"
      PROVE  FollowedAs(r) = r /\ r.link \in deps'
  <2>1. r.link \in deps'
    BY <1>3 DEF EntityGone
  <2>2. r.link.pred \in Tasks /\ task'[r.link.pred] # None
    BY <2>1 DEF NetInv, NetworkSound, TypeOK, DependenciesResolve, Dependencies
  <2>3. r.link.pred \in Existing(task')
    BY <2>2 DEF Existing
  <2> QED BY <1>2, <2>1, <2>3, FollowedIs
<1>4. ASSUME NEW r \in L, r.type = "dependency.add"
      PROVE  task'[r.link.succ] # None
  BY <1>4 DEF EntityGone
<1> HIDE DEF L
<1>5. ASSUME NEW r \in L
      PROVE  FollowedAs(r) \in RequestRows /\ AskedOf(FollowedAs(r), task', deps')
  <2>1. PICK f : /\ f = FollowedAs(r) /\ f \in RequestRows /\ f.type = r.type
                 /\ f.link.succ = r.link.succ
                 /\ f.link.pred = IF r.link.pred \in Existing(task') THEN r.link.pred ELSE None
    BY <1>2, FollowedIs
  <2>2. f.type = "dependency.add" => /\ task'[f.link.succ] # None
                                     /\ f.link.pred # None => task'[f.link.pred] # None
    BY <1>4, <2>1 DEF Existing
  <2>3. f.type = "dependency.remove" => f.link \in deps'
    BY <1>3, <2>1
  <2> QED BY <2>1, <2>2, <2>3 DEF AskedOf
<1>6. ASSUME NEW q \in L, NEW r \in L, SameEntity(FollowedAs(q), FollowedAs(r))
      PROVE  FollowedAs(q) = FollowedAs(r)
  <2>1. /\ FollowedAs(q).type = q.type /\ FollowedAs(q).link.succ = q.link.succ
        /\ FollowedAs(r).type = r.type /\ FollowedAs(r).link.succ = r.link.succ
    BY <1>2, FollowedIs
  <2>2. q.type = r.type
    BY <1>6, <2>1 DEF SameEntity
  <2>3. CASE q.type = "dependency.add"
    <3>1. SameEntity(q, r)
      BY <1>6, <2>1, <2>2, <2>3 DEF SameEntity
    <3> QED BY <1>2, <3>1
  <2>4. CASE q.type # "dependency.add"
    <3>1. q.type = "dependency.remove"
      BY <1>2, <2>4, RequestIs
    <3>2. FollowedAs(q) = q /\ FollowedAs(r) = r
      BY <1>3, <2>2, <3>1
    <3> QED BY <1>2, <1>6, <3>2
  <2> QED BY <2>3, <2>4
<1>7. Following(Q) \subseteq RequestRows /\ \A f \in Following(Q) : AskedOf(f, task', deps')
  BY <1>1, <1>5
<1>8. \A f, g \in Following(Q) : SameEntity(f, g) => f = g
  BY <1>1, <1>6
<1> QED BY <1>7, <1>8, Zenon DEF RequestsOK

(* One more request about another entity. *)
LEMMA RequestAdded ==
    ASSUME RequestsOK(waiting, task, deps), NEW r \in RequestRows, AskedOf(r, task, deps),
           RequestChange(r)
    PROVE  RequestsOK(waiting', task', deps')
<1>1. /\ waiting' = waiting \cup {r} /\ \A q \in waiting : ~SameEntity(q, r)
      /\ task' = task /\ deps' = deps
  BY DEF RequestChange, vars
<1>2. \A q \in waiting : ~SameEntity(r, q)
  BY <1>1 DEF SameEntity
<1>3. /\ waiting \subseteq RequestRows /\ \A p, q \in waiting : SameEntity(p, q) => p = q
      /\ \A q \in waiting : AskedOf(q, task, deps)
  BY Zenon DEF RequestsOK
<1>4. waiting' \subseteq RequestRows /\ \A q \in waiting' : AskedOf(q, task, deps)
  BY <1>1, <1>3
<1>5. \A p, q \in waiting' : SameEntity(p, q) => p = q
  BY <1>1, <1>2, <1>3, Zenon
<1> QED BY <1>1, <1>4, <1>5, Zenon DEF RequestsOK

(* Every step under governance keeps the invariant. *)
LEMMA SInvNext ==
    ASSUME SInv, [GovernedNext]_governedVars
    PROVE  SInv'
<1>1. /\ NetInv /\ RequestsOK(waiting, task, deps)
      /\ waiting \subseteq RequestRows /\ \A q \in waiting : AskedOf(q, task, deps)
  BY Zenon DEF SInv, RequestsOK
<1>2. /\ calendar \in Calendars /\ task \in [Tasks -> Rows \cup {None}]
      /\ edits \in 0..MaxEdits /\ Network(task, deps) /\ deps \subseteq Dependencies
  BY <1>1, NetInvIs DEF Network
<1>3. ASSUME UNCHANGED vars
      PROVE  NetInv' /\ task' = task /\ deps' = deps
  <2>1. calendar' = calendar /\ task' = task /\ deps' = deps /\ edits' = edits
    BY <1>3 DEF vars
  <2>2. /\ calendar' \in Calendars /\ task' \in [Tasks -> Rows \cup {None}]
        /\ edits' \in 0..MaxEdits /\ Network(task', deps')
    BY <1>2, <2>1
  <2> QED BY <2>1, <2>2, NetInvAfter
<1>4. CASE Next /\ waiting' = Following(waiting)
  <2>1. NetInv'
    BY <1>1, <1>4, NetInvNext
  <2>2. RequestsOK(waiting', task', deps')
    BY <1>1, <1>4, <2>1, RequestsFollow
  <2> QED BY <2>1, <2>2, Zenon DEF SInv, RequestsOK
<1>5. ASSUME NEW p \in Tasks, NEW s \in Tasks, NEW kind \in RequestTypes,
             NEW lag \in RequestLags, RequestAdd(p, s, kind, lag)
      PROVE  SInv'
  <2>1. kind \in Types /\ lag \in Lags
    BY RequestAssumption
  <2>2. PICK r : r = Asked("dependency.add", p, s, kind, lag)
    OBVIOUS
  <2>3. /\ r \in RequestRows /\ r.type = "dependency.add"
        /\ r.link.pred = p /\ r.link.succ = s
    BY <2>1, <2>2 DEF Asked, RequestRows
  <2>4. task[p] # None /\ task[s] # None /\ RequestChange(r)
    BY <1>5, <2>2, Zenon DEF RequestAdd
  <2>5. AskedOf(r, task, deps)
    BY <2>3, <2>4 DEF AskedOf
  <2>6. NetInv'
    BY <1>3, <2>4, Zenon DEF RequestChange
  <2>7. RequestsOK(waiting', task', deps')
    BY <1>1, <2>3, <2>4, <2>5, RequestAdded
  <2> QED BY <2>6, <2>7, Zenon DEF SInv, RequestsOK
<1>6. ASSUME NEW d \in deps, RequestRemove(d)
      PROVE  SInv'
  <2>1. PICK r : r = Asked("dependency.remove", d.pred, d.succ, d.type, d.lag)
    OBVIOUS
  <2>2. d \in Dependencies
    BY <1>2
  <2>3. r \in RequestRows /\ r.type = "dependency.remove" /\ r.link = d
    BY <2>1, <2>2 DEF Asked, RequestRows, Dependencies
  <2>4. RequestChange(r)
    BY <1>6, <2>1, Zenon DEF RequestRemove
  <2>5. AskedOf(r, task, deps)
    BY <2>3 DEF AskedOf
  <2>6. NetInv'
    BY <1>3, <2>4, Zenon DEF RequestChange
  <2>7. RequestsOK(waiting', task', deps')
    BY <1>1, <2>3, <2>4, <2>5, RequestAdded
  <2> QED BY <2>6, <2>7, Zenon DEF SInv, RequestsOK
<1>7. ASSUME NEW r \in waiting, Applied(r)
      PROVE  /\ task' \in {task, Recalculated(task, deps')}
             /\ \E Q : Q \subseteq waiting /\ waiting' = Following(Q)
  <2>1. CASE /\ task' = Recalculated(task, deps')
             /\ waiting' = Following(IF Recalculable(task, deps') THEN waiting \ {r} ELSE waiting)
    BY <2>1
  <2>2. CASE /\ task' \in {task, Recalculated(task, deps')}
             /\ waiting' = Following(waiting)
    BY <2>2
  <2> QED BY <1>7, <2>1, <2>2, Zenon DEF Applied
<1>8. ASSUME NEW r \in waiting, ApproveAdd(r)
      PROVE  SInv'
  <2>1. /\ r.type = "dependency.add" /\ StillValid(r) /\ deps' = deps \cup {r.link}
        /\ Applied(r) /\ calendar' = calendar /\ edits' = edits
    BY <1>8 DEF ApproveAdd
  <2>2. r \in RequestRows /\ AskedOf(r, task, deps)
    BY <1>1
  <2>3. r.link.pred # None /\ DependencyValid(r.link.pred, r.link.succ)
    BY <2>1, Zenon DEF StillValid
  <2>4. PICK n \in Dependencies : n = r.link
    BY <2>2, <2>3, RequestIs
  <2>5. task[n.pred] # None /\ task[n.succ] # None
    BY <2>1, <2>2, <2>3, <2>4 DEF AskedOf
  <2>6. Network(task, deps')
    BY <1>1, <2>1, <2>3, <2>4, <2>5, NetworkMore
  <2>7. NetInv'
    BY <1>1, <1>2, <1>7, <2>1, <2>6, Rescheduled
  <2>8. RequestsOK(waiting', task', deps')
    BY <1>1, <1>7, <2>1, <2>7, RequestsFollow
  <2> QED BY <2>7, <2>8, Zenon DEF SInv, RequestsOK
<1>9. ASSUME NEW r \in waiting, ApproveRemove(r)
      PROVE  SInv'
  <2>1. /\ deps' = deps \ {r.link} /\ Applied(r) /\ Edit /\ calendar' = calendar
    BY <1>9 DEF ApproveRemove
  <2>2. Network(task, deps')
    BY <1>2, <2>1, NetworkFewer
  <2>3. edits' \in 0..MaxEdits
    BY <1>2, <2>1, ScheduleAssumption DEF Edit
  <2>4. NetInv'
    BY <1>1, <1>7, <2>1, <2>2, <2>3, Rescheduled
  <2>5. RequestsOK(waiting', task', deps')
    BY <1>1, <1>7, <2>1, <2>4, RequestsFollow
  <2> QED BY <2>4, <2>5, Zenon DEF SInv, RequestsOK
<1>10. ASSUME NEW r \in waiting, Reject(r)
       PROVE  SInv'
  <2>1. waiting' = waiting \ {r} /\ NetInv' /\ task' = task /\ deps' = deps
    BY <1>3, <1>10, Zenon DEF Reject
  <2>2. RequestsOK(waiting', task', deps')
    <3>1. waiting' \subseteq waiting
      BY <2>1
    <3> QED BY <1>1, <2>1, <3>1, Zenon DEF RequestsOK
  <2> QED BY <2>1, <2>2, Zenon DEF SInv, RequestsOK
<1>11. CASE UNCHANGED governedVars
  <2>1. UNCHANGED vars /\ waiting' = waiting
    BY <1>11 DEF governedVars
  <2>2. NetInv' /\ task' = task /\ deps' = deps
    BY <1>3, <2>1
  <2> QED BY <1>1, <2>1, <2>2, Zenon DEF SInv, RequestsOK
<1> QED BY <1>4, <1>5, <1>6, <1>8, <1>9, <1>10, <1>11, Zenon DEF GovernedNext

(* Nothing is asked for in the beginning. *)
LEMMA SInvInit == GovernedInit => SInv
BY NetInvInit DEF GovernedInit, SInv, RequestsOK

(* ScheduleInvariant: under governance the network stays one the passes can be run on,
   and the pending requests keep track of it. *)
THEOREM ScheduleInvariant == GovernedSpec => []SInv
BY SInvInit, SInvNext, PTL DEF GovernedSpec

(* Theorem NetworkIsSound: no order of direct changes, deletions and late approvals closes
   a cycle or leaves a dependency without its task (add_dependency and the approval
   handlers, for every number of tasks). *)
THEOREM NetworkIsSound == GovernedSpec => []NetworkStaysSound
<1>1. SInv => NetworkStaysSound
  BY Zenon DEF SInv, NetInv, RequestsOK, AskedOf, NetworkStaysSound
<1> QED BY <1>1, ScheduleInvariant, PTL

(* Theorem CalendarIsExact: the arithmetic on working days agrees with counting them, for
   every week pattern and any holidays (WorkCalendarEngine). *)
THEOREM CalendarIsExact == GovernedSpec => []CalendarExact
<1>1. SInv => CalendarExact
  BY NetInvIs, ArithmeticExact, Zenon DEF SInv, CalendarExact
<1> QED BY <1>1, ScheduleInvariant, PTL

(* Theorem DependenciesAreHonoured: the forward pass gives every successor dates that its
   dependencies with lags of at least 0 ask for (run_forward_pass, any network). *)
THEOREM DependenciesAreHonoured == GovernedSpec => []DependenciesHonoured
<1>1. SInv => DependenciesHonoured
  BY NetInvIs, NetworkHonoured, Zenon DEF SInv, NetInv, NetworkSound
<1> QED BY <1>1, ScheduleInvariant, PTL

(* Theorem RecalculationIsStable: a second recalculation writes what the first wrote. *)
THEOREM RecalculationIsStable == GovernedSpec => []RecalculationStable
<1>1. SInv => RecalculationStable
  BY NetInvIs, NetworkStable, Zenon DEF SInv, NetInv, NetworkSound
<1> QED BY <1>1, ScheduleInvariant, PTL


-----------------------------------------------------------------------------
(* The backward pass *)

(* Two days make a pair of dates. *)
LEMMA DatesPair ==
    ASSUME NEW x \in Int, NEW y \in Int
    PROVE  \E e \in EarlyDates : e = [es |-> x, ef |-> y] /\ e.es = x
<1>1. [es |-> x, ef |-> y] \in EarlyDates
  BY DEF EarlyDates
<1>2. [es |-> x, ef |-> y].es = x
  OBVIOUS
<1> QED BY <1>1, <1>2, Zenon

(* Going forward is monotone, ... *)
LEMMA AddGrows ==
    ASSUME calendar \in Calendars, NEW x \in Int, NEW y \in Int, x <= y, NEW n \in Nat, n > 0
    PROVE  AddWorkingDays(x, n) <= AddWorkingDays(y, n)
<1>1. PICK a \in Int : /\ a = AddWorkingDays(x, n) /\ a >= x /\ IsWorkingDay(a)
                       /\ WorkingDaysBetween(x, a) = n
  BY AddDays
<1>2. PICK b \in Int : /\ b = AddWorkingDays(y, n) /\ b >= y /\ IsWorkingDay(b)
                       /\ WorkingDaysBetween(y, b) = n
  BY AddDays
<1>3. ASSUME b < a
      PROVE  FALSE
  <2>1. WorkingDaysBetween(x, b) \in Nat /\ WorkingDaysBetween(y, b) <= WorkingDaysBetween(x, b)
    BY CountIs, CountGrows
  <2>2. WorkingDaysBetween(x, b) < WorkingDaysBetween(x, a)
    BY <1>1, <1>3, CountTells
  <2> QED BY <1>1, <1>2, <2>1, <2>2
<1> QED BY <1>1, <1>2, <1>3

(* ... and n days forward from a day do not pass a working day exactly when the day does
   not pass what is n - 1 days back from it: the backward pass undoes the forward pass. *)
LEMMA Adjoint ==
    ASSUME calendar \in Calendars, NEW last \in Int, IsWorkingDay(last), NEW n \in Nat, n > 0,
           NEW e \in Int
    PROVE  /\ AddWorkingDays(last, -(n - 1)) \in Int
           /\ AddWorkingDays(last, -(n - 1)) <= last
           /\ IsWorkingDay(AddWorkingDays(last, -(n - 1)))
           /\ AddWorkingDays(e, n) <= last <=> e <= AddWorkingDays(last, -(n - 1))
<1>1. PICK w \in Int : /\ w = AddWorkingDays(last, -(n - 1)) /\ w <= last /\ IsWorkingDay(w)
                       /\ WorkingDaysBetween(w, last) = n
  <2>1. PICK m \in Nat : m = n - 1 /\ -(n - 1) = -m /\ m + 1 = n
    OBVIOUS
  <2>2. CASE m = 0
    <3>1. \A k \in Int : \A j \in Int : (k <= 0 /\ k >= 0 /\ j = -k) => j = 0
      OBVIOUS
    <3>2. m \in Int /\ -m \in Int /\ m <= 0 /\ m >= 0
      BY <2>2
    <3>3. AddWorkingDays(last, -m) = last
      <4>1. -m = 0
        BY <2>2, <3>1, <3>2, Zenon
      <4> QED BY <4>1, AddNoDays
    <3> QED BY <2>1, <2>2, <3>3, CountOfDay
  <2>3. CASE m > 0
    <3>1. NextWorkingDay(last) = last
      BY NextOfWorking
    <3>2. /\ AddWorkingDays(last, -m) \in Int /\ AddWorkingDays(last, -m) <= last
          /\ IsWorkingDay(AddWorkingDays(last, -m))
          /\ WorkingDaysBetween(AddWorkingDays(last, -m), last) = m + 1
      BY <2>3, <3>1, SubtractDays
    <3> QED BY <2>1, <3>2
  <2> QED BY <2>2, <2>3
<1>2. PICK a \in Int : /\ a = AddWorkingDays(e, n) /\ a >= e /\ IsWorkingDay(a)
                       /\ WorkingDaysBetween(e, a) = n
  BY AddDays
<1>3. ASSUME a <= last
      PROVE  e <= w
  <2> SUFFICES ASSUME w < e PROVE FALSE
    BY <1>1
  <2>1. WorkingDaysBetween(e, last) < WorkingDaysBetween(w, last)
    BY <1>1, CountTells
  <2>2. WorkingDaysBetween(e, a) <= WorkingDaysBetween(e, last)
    BY <1>2, <1>3, CountGrows
  <2>3. WorkingDaysBetween(e, last) \in Nat
    BY CountIs
  <2> QED BY <1>1, <1>2, <2>1, <2>2, <2>3
<1>4. ASSUME e <= w
      PROVE  a <= last
  <2>1. PICK z \in Int : /\ z = AddWorkingDays(w, n) /\ z >= w /\ IsWorkingDay(z)
                         /\ WorkingDaysBetween(w, z) = n
    BY AddDays
  <2>2. z = last
    BY <1>1, <2>1, CountUnique
  <2> QED BY <1>2, <1>4, <2>1, <2>2, AddGrows
<1> QED BY <1>1, <1>2, <1>3, <1>4

(* A task of n days, milestones included, ends by a working day exactly when it starts by
   the latest start for it. *)
LEMMA FinishAdjoint ==
    ASSUME calendar \in Calendars, NEW last \in Int, IsWorkingDay(last), NEW n \in Nat, NEW s \in Int
    PROVE  /\ FinishingBy(last, n) \in Int /\ FinishingBy(last, n) <= last
           /\ IsWorkingDay(FinishingBy(last, n))
           /\ From(s, n).ef \in Int
           /\ From(s, n).ef <= last <=> s <= FinishingBy(last, n)
<1>1. From(s, n).ef = IF n = 0 THEN s ELSE AddWorkingDays(s, n)
  BY FromIs
<1>2. AddWorkingDays(s, n) \in Int
  BY AddIsInt
<1>3. CASE n = 0
  BY <1>1, <1>3 DEF FinishingBy
<1>4. CASE n > 0
  <2>1. FinishingBy(last, n) = AddWorkingDays(last, -(n - 1))
    BY <1>4 DEF FinishingBy
  <2> QED BY <1>1, <1>2, <1>4, <2>1, Adjoint
<1> QED BY <1>3, <1>4

(* A finite set of dates has an earliest one. *)
DownFrom(S, x) == {y \in S : y <= x}

LEMMA NothingBelow ==
    ASSUME NEW S, IsFiniteSet(S), S # {}
    PROVE  \E x \in S : \A y \in S : DownFrom(S, y) \subseteq DownFrom(S, x)
                                     => DownFrom(S, y) = DownFrom(S, x)
<1> DEFINE F == {DownFrom(S, x) : x \in S}
<1>1. F \subseteq SUBSET S /\ F # {}
  BY DEF DownFrom
<1>2. PICK T \in F : \A R \in F : R \subseteq T => R = T
  <2> HIDE DEF F
  <2> QED BY <1>1, MinimalSubset
<1> QED BY <1>2

LEMMA EarliestIs ==
    ASSUME NEW S, S \subseteq Int, IsFiniteSet(S), S # {}
    PROVE  Min(S) \in S /\ \A x \in S : Min(S) <= x
<1>1. PICK x \in S : \A y \in S : DownFrom(S, y) \subseteq DownFrom(S, x)
                                  => DownFrom(S, y) = DownFrom(S, x)
  BY NothingBelow, Zenon
<1>2. ASSUME NEW y \in S, y < x
      PROVE  FALSE
  <2>1. \A z \in S : z <= y => z <= x
    BY <1>2
  <2>2. DownFrom(S, y) \subseteq DownFrom(S, x)
    BY <2>1 DEF DownFrom
  <2>3. DownFrom(S, y) = DownFrom(S, x)
    BY <1>1, <2>2, Zenon
  <2>4. x \in DownFrom(S, x) /\ x \notin DownFrom(S, y)
    BY <1>2 DEF DownFrom
  <2> QED BY <2>3, <2>4, Zenon
<1>3. \A y \in S : x <= y
  BY <1>2
<1>4. \E z \in S : \A y \in S : z <= y
  BY <1>3
<1>5. Min(S) \in S /\ \A y \in S : Min(S) <= y
  BY <1>4 DEF Min
<1> QED BY <1>5

(* Some task of any nonempty set has no successor in it. *)
LEMMA SomeLast ==
    ASSUME NEW D, D \subseteq Dependencies, Acyclic(D), NEW U \in SUBSET Tasks, U # {}
    PROVE  \E t \in U : \A d \in D : d.pred = t => d.succ \notin U
<1> DEFINE L == LinksOf(D)
           R(t) == Reachable(t, L)
           F == {R(t) : t \in U}
<1>1. IsFiniteSet(Tasks) /\ F \subseteq SUBSET Tasks /\ F # {}
  <2>1. \A t \in U : R(t) \in SUBSET Tasks
    BY ReachSelf
  <2>2. F \subseteq SUBSET Tasks /\ F # {}
    BY <2>1
  <2> QED BY <2>2, ScheduleAssumption
<1>2. PICK S \in F : \A T \in F : T \subseteq S => T = S
  <2> HIDE DEF F
  <2> QED BY <1>1, MinimalSubset
<1>3. PICK t \in U : S = R(t)
  OBVIOUS
<1>4. L \subseteq Tasks \X Tasks /\ \A d \in D : d.pred \in Tasks /\ d.succ \in Tasks /\ <<d.pred, d.succ>> \in L
  BY LinksTyped
<1>5. \A u \in Tasks : u \in R(u) /\ R(u) \in SUBSET Tasks /\ Closed(R(u), L)
  BY <1>4, ReachSelf, ReachClosed
<1>6. ASSUME NEW d \in D, d.pred = t, d.succ \in U
      PROVE  FALSE
  <2>1. d.pred \notin R(d.succ)
    BY AcyclicIff
  <2>2. d.pred \in R(d.pred) /\ Closed(R(d.pred), L)
    BY <1>4, <1>5
  <2>3. <<d.pred, d.succ>>[1] = d.pred /\ <<d.pred, d.succ>>[2] = d.succ
    OBVIOUS
  <2> HIDE DEF R, L
  <2>4. d.succ \in R(d.pred)
    BY <1>4, <2>2, <2>3, Zenon DEF Closed
  <2>5. R(d.succ) \subseteq R(d.pred)
    BY <1>4, <2>4, ReachStep DEF R
  <2>6. R(d.succ) \in F
    BY <1>6
  <2>7. R(d.succ) = R(t)
    BY <1>2, <1>3, <1>6, <2>5, <2>6
  <2> QED BY <1>6, <2>1, <2>2, <2>7
<1> QED BY <1>6

(* What run_backward_pass computes for one task from the dates of its successors. *)
LateOf(rows, links, finish, f, t) ==
    LET days == Days(rows[t])
        out == {d \in links : d.pred = t}
        finishes == {LateFinish(d, f[d.succ]) : d \in {e \in out : e.type \in {"FS", "FF"}}}
        starts == {LateStart(d, f[d.succ]) : d \in {e \in out : e.type \in {"SS", "SF"}}}
        by(fin) == [ls |-> FinishingBy(fin, days), lf |-> fin]
    IN  IF out = {} THEN by(finish)
        ELSE IF finishes # {} THEN by(Min(finishes))
        ELSE LET ls == Min(starts)
             IN  [ls |-> ls, lf |-> IF days > 0 THEN AddWorkingDays(ls, days - 1) ELSE ls]
IsLate(rows, links, finish, f, S) == f = [t \in S |-> LateOf(rows, links, finish, f, t)]

(* Only the dates of the successors matter. *)
LEMMA LateLocal ==
    ASSUME NEW rows, NEW links, NEW finish, NEW f, NEW g, NEW t,
           \A d \in links : d.pred = t => f[d.succ] = g[d.succ]
    PROVE  LateOf(rows, links, finish, f, t) = LateOf(rows, links, finish, g, t)
<1> DEFINE E == {e \in {d \in links : d.pred = t} : e.type \in {"FS", "FF"}}
           B == {e \in {d \in links : d.pred = t} : e.type \in {"SS", "SF"}}
<1>1. /\ \A d \in E : f[d.succ] = g[d.succ]
      /\ \A d \in B : f[d.succ] = g[d.succ]
  OBVIOUS
<1> HIDE DEF E, B
<1>2. {LateFinish(d, f[d.succ]) : d \in E} = {LateFinish(d, g[d.succ]) : d \in E}
  BY <1>1
<1>3. {LateStart(d, f[d.succ]) : d \in B} = {LateStart(d, g[d.succ]) : d \in B}
  BY <1>1
<1> QED BY <1>2, <1>3, Zenon DEF LateOf, E, B

(* The recursion of the pass has a solution on every network without a cycle, ... *)
LEMMA LateExists ==
    ASSUME NEW rows, NEW links, Network(rows, links), NEW finish
    PROVE  \E f : IsLate(rows, links, finish, f, Existing(rows))
<1> DEFINE X == Existing(rows)
           After0(S) == \A d \in links : d.pred \in S => d.succ \in S
           F == {U \in SUBSET X : After0(X \ U) /\ \E f : IsLate(rows, links, finish, f, X \ U)}
<1>1. X \in SUBSET Tasks
  BY DEF Existing
<1>2. /\ links \subseteq Dependencies /\ Acyclic(links)
      /\ \A d \in links : d.pred \in X /\ d.succ \in X
  BY LinksTyped DEF Network, Existing
<1>3. F # {}
  <2> DEFINE f == [t \in {} |-> None]
  <2>1. f = [t \in {} |-> LateOf(rows, links, finish, f, t)]
    OBVIOUS
  <2> HIDE DEF f
  <2>2. X \ X = {} /\ X \in SUBSET X
    OBVIOUS
  <2>3. IsLate(rows, links, finish, f, X \ X)
    BY <2>1, <2>2, Zenon DEF IsLate
  <2>4. After0(X \ X)
    OBVIOUS
  <2> QED BY <2>2, <2>3, <2>4
<1>4. PICK U \in F : \A V \in F : V \subseteq U => V = U
  <2>1. F \subseteq SUBSET X
    OBVIOUS
  <2>2. IsFiniteSet(X)
    BY <1>1, ScheduleAssumption, FS_Subset
  <2> HIDE DEF F, X
  <2> QED BY <1>3, <2>1, <2>2, MinimalSubset
<1>5. U \in SUBSET X /\ After0(X \ U)
  OBVIOUS
<1>6. PICK f : IsLate(rows, links, finish, f, X \ U)
  OBVIOUS
<1>7. CASE U = {}
  <2>1. X \ U = X
    BY <1>7
  <2> QED BY <1>6, <2>1
<1>8. CASE U # {}
  <2>1. PICK t \in U : \A d \in links : d.pred = t => d.succ \notin U
    <3>1. U \in SUBSET Tasks
      BY <1>1, <1>5
    <3> HIDE DEF X
    <3> QED BY <1>2, <1>8, <3>1, SomeLast
  <2> DEFINE S == X \ U
             V == U \ {t}
             g == [u \in X \ V |-> IF u = t THEN LateOf(rows, links, finish, f, t) ELSE f[u]]
  <2>2. X \ V = S \cup {t} /\ t \notin S /\ V \subseteq U /\ V # U /\ V \in SUBSET X
    BY <1>5
  <2>3. DOMAIN f = S /\ \A u \in S : f[u] = LateOf(rows, links, finish, f, u)
    BY <1>6, Zenon DEF IsLate
  <2>4. \A u \in S : g[u] = f[u]
    BY <2>2
  <2>5. \A u \in X \ V : \A d \in links : d.pred = u => d.succ \in S
    BY <1>2, <1>5, <2>1, <2>2
  <2>6. g[t] = LateOf(rows, links, finish, f, t)
    BY <2>2
  <2>7. g = [u \in X \ V |-> g[u]]
    OBVIOUS
  <2> HIDE DEF g, S, V, X
  <2>8. ASSUME NEW u \in X \ V
        PROVE  g[u] = LateOf(rows, links, finish, g, u)
    <3>1. LateOf(rows, links, finish, g, u) = LateOf(rows, links, finish, f, u)
      BY <2>4, <2>5, LateLocal
    <3>2. g[u] = LateOf(rows, links, finish, f, u)
      BY <2>2, <2>3, <2>4, <2>6
    <3> QED BY <3>1, <3>2
  <2>9. IsLate(rows, links, finish, g, X \ V)
    BY <2>7, <2>8, Zenon DEF IsLate
  <2>10. After0(X \ V)
    BY <2>2, <2>5
  <2>11. V \in F
    BY <2>2, <2>9, <2>10
  <2> QED BY <1>4, <2>2, <2>11
<1> QED BY <1>7, <1>8

(* ... which the dates of the backward pass are. *)
LEMMA LateIs ==
    ASSUME NEW rows, NEW links, Network(rows, links), NEW finish
    PROVE  IsLate(rows, links, finish, Late(rows, links, finish), Existing(rows))
<1> DEFINE f == CHOOSE f : IsLate(rows, links, finish, f, Existing(rows))
<1>1. IsLate(rows, links, finish, f, Existing(rows))
  <2>1. \E g : IsLate(rows, links, finish, g, Existing(rows))
    BY LateExists
  <2> QED BY <2>1, Zenon
<1>2. Late(rows, links, finish) = [t \in Existing(rows) |-> f[t]]
  BY Zenon DEF Late, IsLate, LateOf
<1> HIDE DEF f
<1>3. f = [t \in Existing(rows) |-> f[t]]
  <2>1. f = [t \in Existing(rows) |-> LateOf(rows, links, finish, f, t)]
    BY <1>1, Zenon DEF IsLate
  <2> QED BY <2>1, Zenon
<1> QED BY <1>1, <1>2, <1>3

(* With finish-to-start links a task ends by the finish of the project or, if it has
   successors, by the least of the days they leave it. *)
PlainLinks(links) == \A d \in links : d.type = "FS" /\ d.lag >= 0

Out(links, t) == {d \in links : d.pred = t}
Limits(links, f, t) == {LateFinish(d, f[d.succ]) : d \in Out(links, t)}
LastDay(links, finish, f, t) == IF Out(links, t) = {} THEN finish ELSE Min(Limits(links, f, t))

LEMMA LateOfPlain ==
    ASSUME NEW rows, NEW links, PlainLinks(links), NEW finish, NEW f, NEW t
    PROVE  LateOf(rows, links, finish, f, t) =
               [ls |-> FinishingBy(LastDay(links, finish, f, t), Days(rows[t])),
                lf |-> LastDay(links, finish, f, t)]
<1> DEFINE E == {e \in Out(links, t) : e.type \in {"FS", "FF"}}
<1>1. E = Out(links, t)
  BY DEF PlainLinks, Out
<1>2. CASE Out(links, t) = {}
  BY <1>2, Zenon DEF LateOf, LastDay, Out
<1>3. CASE Out(links, t) # {}
  <2>1. PICK W : W = Limits(links, f, t)
    OBVIOUS
  <2>2. W # {}
    BY <1>3, <2>1 DEF Limits
  <2>3. W = {LateFinish(d, f[d.succ]) : d \in E}
    BY <1>1, <2>1, Zenon DEF Limits
  <2>4. LateOf(rows, links, finish, f, t) = [ls |-> FinishingBy(Min(W), Days(rows[t])), lf |-> Min(W)]
    BY <1>3, <2>2, <2>3, Zenon DEF LateOf, Out
  <2> QED BY <1>3, <2>1, <2>4, Zenon DEF LastDay
<1> QED BY <1>2, <1>3

(* The day a successor that starts by its latest start leaves to its predecessor. *)
LEMMA LateFinishIs ==
    ASSUME calendar \in Calendars, NEW d \in Dependencies, d.type = "FS", d.lag >= 0,
           NEW late, late.ls \in Int, IsWorkingDay(late.ls), NEW p \in EarlyDates, NEW n \in Nat
    PROVE  /\ LateFinish(d, late) \in Int /\ LateFinish(d, late) <= late.ls
           /\ IsWorkingDay(LateFinish(d, late))
           /\ Candidate(d, p, n) <= late.ls <=> p.ef <= LateFinish(d, late)
<1>1. PICK lag \in Nat : lag = d.lag
  <2>1. d.lag \in Lags
    BY DEF Dependencies
  <2>2. d.lag \in Int
    BY <2>1, ScheduleAssumption
  <2> QED BY <2>2
<1>2. PICK k \in Nat : k = lag + 2 /\ k > 0 /\ k - 1 = lag + 1
  BY <1>1
<1>3. PICK e \in Int : e = p.ef
  BY DEF EarlyDates
<1>4. PICK ls \in Int : ls = late.ls /\ IsWorkingDay(ls)
  OBVIOUS
<1>5. LateFinish(d, late) = AddWorkingDays(ls, -(k - 1))
  BY <1>1, <1>2, <1>4 DEF LateFinish
<1>6. Candidate(d, p, n) = AddWorkingDays(e, k)
  BY <1>1, <1>2, <1>3 DEF Candidate
<1> QED BY <1>2, <1>3, <1>4, <1>5, <1>6, Adjoint

(* What the backward pass gives a task: two working days before the finish. *)
LateDates(f, u, finish) ==
    /\ f[u].ls \in Int /\ f[u].lf \in Int /\ IsWorkingDay(f[u].ls) /\ IsWorkingDay(f[u].lf)
    /\ f[u].ls <= f[u].lf /\ f[u].lf <= finish

LateStep(rows, links, f, u, finish) ==
    /\ f[u].ls = FinishingBy(f[u].lf, Days(rows[u]))
    /\ \A d \in links : d.pred = u => f[u].lf <= LateFinish(d, f[d.succ])
    /\ \/ f[u].lf = finish
       \/ \E d \in links : d.pred = u /\ f[u].lf = LateFinish(d, f[d.succ])

LEMMA LateOne ==
    ASSUME calendar \in Calendars, NEW rows, NEW links, links \subseteq Dependencies,
           IsFiniteSet(links), PlainLinks(links), NEW finish \in Int, IsWorkingDay(finish),
           NEW f, NEW u, rows[u] \in Rows, f[u] = LateOf(rows, links, finish, f, u),
           \A d \in links : d.pred = u => LateDates(f, d.succ, finish)
    PROVE  LateDates(f, u, finish) /\ LateStep(rows, links, f, u, finish)
<1> DEFINE out == {d \in links : d.pred = u}
           c == [d \in out |-> LateFinish(d, f[d.succ])]
           W == {LateFinish(d, f[d.succ]) : d \in out}
<1>1. PICK n \in Nat : n = Days(rows[u])
  BY RowIs
<1>2. PICK m : /\ m = LastDay(links, finish, f, u)
               /\ f[u].ls = FinishingBy(m, n) /\ f[u].lf = m
  <2>1. PICK m : m = LastDay(links, finish, f, u)
    OBVIOUS
  <2>2. f[u] = [ls |-> FinishingBy(m, n), lf |-> m]
    <3>1. PICK v : v = LateOf(rows, links, finish, f, u)
      OBVIOUS
    <3>2. v = [ls |-> FinishingBy(m, Days(rows[u])), lf |-> m]
      BY <2>1, <3>1, LateOfPlain
    <3> QED BY <1>1, <3>1, <3>2
  <2> QED BY <2>1, <2>2
<1>3. ASSUME NEW d \in out
      PROVE  /\ c[d] = LateFinish(d, f[d.succ])
             /\ c[d] \in Int /\ c[d] <= finish /\ IsWorkingDay(c[d])
  <2>1. PICK ls \in Int, lf \in Int : /\ ls = f[d.succ].ls /\ lf = f[d.succ].lf
                                      /\ IsWorkingDay(ls) /\ ls <= lf /\ lf <= finish
    BY DEF LateDates
  <2>2. d \in Dependencies /\ d.type = "FS" /\ d.lag >= 0
    BY DEF PlainLinks
  <2>3. PICK p \in EarlyDates : p = [es |-> 0, ef |-> 0]
    BY DatesPair
  <2>4. PICK x : x = LateFinish(d, f[d.succ])
    OBVIOUS
  <2>5. x \in Int /\ x <= ls /\ IsWorkingDay(x)
    BY <2>1, <2>2, <2>4, LateFinishIs
  <2> QED BY <2>1, <2>4, <2>5
<1>4. c \in [out -> Int] /\ W = {c[d] : d \in out}
  BY <1>3
<1>5. IsFiniteSet(W)
  <2>1. IsFiniteSet(out)
    BY FS_Subset
  <2>2. PICK R : c \in [out -> R]
    BY <1>4
  <2> HIDE DEF c, out, W
  <2> QED BY <1>4, <2>1, <2>2, ImageFinite
<1>6. W \subseteq Int /\ (out # {} => W # {})
  BY <1>3
<1>7. CASE out = {}
  <2>1. m = finish
    BY <1>2, <1>7 DEF LastDay, Out
  <2>2. \A d \in links : d.pred # u
    BY <1>7
  <2> HIDE DEF out, c, W
  <2>3. /\ FinishingBy(finish, n) \in Int /\ FinishingBy(finish, n) <= finish
        /\ IsWorkingDay(FinishingBy(finish, n))
    BY FinishAdjoint
  <2> QED BY <1>1, <1>2, <2>1, <2>2, <2>3 DEF LateDates, LateStep
<1>8. CASE out # {}
  <2>1. m = Min(W)
    BY <1>2, <1>8, Zenon DEF LastDay, Limits, Out
  <2>2. m \in W /\ \A x \in W : m <= x
    <3> HIDE DEF W, out
    <3> QED BY <1>5, <1>6, <1>8, <2>1, EarliestIs
  <2>3. PICK d \in out : m = LateFinish(d, f[d.succ])
    BY <2>2
  <2>4. m \in Int /\ m <= finish /\ IsWorkingDay(m)
    BY <1>3, <2>3
  <2>5. \A e \in links : e.pred = u => m <= LateFinish(e, f[e.succ])
    BY <2>2
  <2>6. d \in links /\ d.pred = u
    OBVIOUS
  <2> HIDE DEF W, out, c
  <2>7. /\ FinishingBy(m, n) \in Int /\ FinishingBy(m, n) <= m
        /\ IsWorkingDay(FinishingBy(m, n))
    BY <2>4, FinishAdjoint
  <2>8. LateDates(f, u, finish)
    BY <1>2, <2>4, <2>7 DEF LateDates
  <2>9. LateStep(rows, links, f, u, finish)
    BY <1>1, <1>2, <2>3, <2>5, <2>6, Zenon DEF LateStep
  <2> QED BY <2>8, <2>9
<1> QED BY <1>7, <1>8

LEMMA LatesAre ==
    ASSUME calendar \in Calendars, NEW rows \in [Tasks -> Rows \cup {None}], NEW links,
           Network(rows, links), PlainLinks(links), NEW finish \in Int, IsWorkingDay(finish),
           NEW u \in Existing(rows)
    PROVE  /\ LateDates(Late(rows, links, finish), u, finish)
           /\ LateStep(rows, links, Late(rows, links, finish), u, finish)
<1>1. PICK f : f = Late(rows, links, finish) /\ IsLate(rows, links, finish, f, Existing(rows))
  BY LateIs
<1>2. PICK X : X = Existing(rows)
  OBVIOUS
<1>3. X \in SUBSET Tasks /\ \A t \in X : rows[t] \in Rows
  BY <1>2 DEF Existing
<1>4. /\ links \subseteq Dependencies /\ Acyclic(links) /\ IsFiniteSet(links)
      /\ \A d \in links : d.pred \in X /\ d.succ \in X
  BY <1>2, LinksTyped DEF Network, Existing
<1>5. \A t \in X : f[t] = LateOf(rows, links, finish, f, t)
  BY <1>1, <1>2, Zenon DEF IsLate
<1>6. ASSUME NEW t \in X, \A d \in links : d.pred = t => LateDates(f, d.succ, finish)
      PROVE  LateDates(f, t, finish) /\ LateStep(rows, links, f, t, finish)
  BY <1>3, <1>4, <1>5, <1>6, LateOne
<1> DEFINE U == {t \in X : ~LateDates(f, t, finish)}
<1>7. U = {}
  <2> SUFFICES ASSUME U # {} PROVE FALSE
    OBVIOUS
  <2>1. PICK t \in U : \A d \in links : d.pred = t => d.succ \notin U
    <3>1. U \in SUBSET Tasks
      BY <1>3
    <3> HIDE DEF U
    <3> QED BY <1>4, <3>1, SomeLast
  <2>2. \A d \in links : d.pred = t => LateDates(f, d.succ, finish)
    BY <1>4, <2>1
  <2> QED BY <1>6, <2>1, <2>2
<1>8. \A t \in X : LateDates(f, t, finish)
  BY <1>7
<1>9. u \in X /\ \A d \in links : d.pred = u => LateDates(f, d.succ, finish)
  BY <1>2, <1>4, <1>8
<1> QED BY <1>1, <1>6, <1>9

(* A project with a date has a last one. *)
LEMMA FinishIs ==
    ASSUME NEW X, IsFiniteSet(X), NEW f \in [X -> EarlyDates \cup {None}], Computable(f)
    PROVE  /\ ProjectFinish(f) \in Int
           /\ \A u \in X : f[u] # None => f[u].ef <= ProjectFinish(f)
           /\ \E u \in X : f[u] # None /\ f[u].ef = ProjectFinish(f)
<1> DEFINE U == {u \in X : f[u] # None}
           c == [u \in U |-> f[u].ef]
           W == {f[u].ef : u \in U}
<1>1. \A u \in U : f[u].ef \in Int
  BY DEF EarlyDates
<1>2. U # {} /\ DOMAIN f = X
  BY DEF Computable
<1>3. ProjectFinish(f) = Max(W)
  BY <1>2, Zenon DEF ProjectFinish
<1>4. c \in [U -> Int] /\ W = {c[u] : u \in U} /\ W \subseteq Int /\ W # {}
  BY <1>1, <1>2
<1>5. IsFiniteSet(W)
  <2>1. IsFiniteSet(U)
    BY FS_Subset
  <2>2. PICK R : c \in [U -> R]
    BY <1>4
  <2> HIDE DEF c, U, W
  <2>3. IsFiniteSet({c[u] : u \in U})
    BY <2>1, <2>2, ImageFinite
  <2> QED BY <1>4, <2>3, Zenon
<1>6. Max(W) \in W /\ \A x \in W : x <= Max(W)
  <2> HIDE DEF W
  <2> QED BY <1>4, <1>5, LatestIs
<1> QED BY <1>1, <1>3, <1>4, <1>6

(* The dates of a task that has not finished: no earlier than what its predecessors, its
   stored start and its actual start ask for, and as early as one of them allows. *)
EarlyStep(rows, links, f, u) ==
    /\ f[u] \in EarlyDates \cup {None}
    /\ f[u] # None => f[u] = From(f[u].es, Days(rows[u]))
    /\ \A d \in links : d.succ = u /\ f[d.pred] # None =>
          f[u] # None /\ Candidate(d, f[d.pred], Days(rows[u])) <= f[u].es
    /\ rows[u].actualStart # None => f[u] # None /\ rows[u].actualStart <= f[u].es
    /\ rows[u].start # None /\ (\A d \in links : d.succ = u => f[d.pred] = None) =>
          f[u] # None /\ rows[u].start <= f[u].es
    /\ f[u] # None =>
          \/ \E d \in links : /\ d.succ = u /\ f[d.pred] # None
                              /\ f[u].es = Candidate(d, f[d.pred], Days(rows[u]))
          \/ /\ \A d \in links : d.succ = u => f[d.pred] = None
             /\ rows[u].start # None /\ f[u].es = rows[u].start
          \/ rows[u].actualStart # None /\ f[u].es = rows[u].actualStart

LEMMA EarlySteps ==
    ASSUME calendar \in Calendars, NEW rows \in [Tasks -> Rows \cup {None}], NEW links,
           Network(rows, links), NEW u \in Existing(rows), rows[u].actualEnd = None
    PROVE  EarlyStep(rows, links, Early(rows, links), u)
<1>1. PICK f : f = Early(rows, links)
  OBVIOUS
<1>2. PICK C : C = Candidates(rows, links, f, u)
  OBVIOUS
<1>3. PICK row \in Rows : row = rows[u]
  BY EarlyOne
<1>4. /\ C \subseteq Int /\ IsFiniteSet(C) /\ f[u] = ApplyActuals(row, Planned(row, C))
  BY <1>1, <1>2, <1>3, EarlyOne
<1>5. PICK n \in Nat : n = Days(row)
  BY <1>3, RowIs
<1>6. PICK p \in EarlyDates \cup {None} : p = Planned(row, C)
  BY <1>4, PlannedIs
<1>7. PICK e \in EarlyDates \cup {None} : e = f[u] /\ e = ApplyActuals(row, p)
  BY <1>4, <1>6, ActualsAre
<1>8. /\ row.start \in Int \cup {None} /\ row.actualStart \in Int \cup {None}
  BY RowIs
<1>9. PICK a \in Int \cup {None} : a = row.actualStart
  BY <1>8
<1>10. e = IF a # None /\ (p = None \/ Before(p.es, a)) THEN From(a, n) ELSE p
  BY <1>3, <1>5, <1>7, <1>9, Zenon DEF ApplyActuals
<1>11. \A x \in Int : From(x, n) \in EarlyDates /\ From(x, n) # None /\ From(x, n).es = x
  BY FromIs, ScheduleRowsAssumption
<1>12. p # None => p.es \in Int /\ p.es # None
  BY ScheduleRowsAssumption DEF EarlyDates
<1>13. p # None => p = From(p.es, n)
  <2>1. CASE C # {}
    <3>1. Max(C) \in Int /\ p = From(Max(C), n)
      BY <1>4, <1>5, <1>6, <2>1, PlannedIs
    <3> QED BY <1>11, <3>1
  <2>2. CASE C = {} /\ row.start # None
    <3>1. p = From(row.start, n)
      BY <1>4, <1>5, <1>6, <2>2, PlannedIs
    <3> QED BY <1>8, <1>11, <2>2, <3>1
  <2>3. CASE C = {} /\ row.start = None
    BY <1>4, <1>6, <2>3, PlannedIs
  <2> QED BY <2>1, <2>2, <2>3
<1>14. e # None => e = From(e.es, n)
  BY <1>9, <1>10, <1>11, <1>13
<1>15. ASSUME p # None
       PROVE  e # None /\ p.es <= e.es
  BY <1>9, <1>10, <1>11, <1>12, <1>15 DEF Before
<1>16. ASSUME a # None
       PROVE  e # None /\ a <= e.es
  BY <1>9, <1>10, <1>11, <1>12, <1>16 DEF Before
<1>17. ASSUME e # None
       PROVE  (p # None /\ e = p) \/ (a # None /\ e.es = a)
  BY <1>9, <1>10, <1>11, <1>17
<1>18. C = {Candidate(d, f[d.pred], n) : d \in {x \in links : x.succ = u /\ f[x.pred] # None}}
  BY <1>2, <1>3, <1>5, Zenon DEF Candidates
<1>19. ASSUME NEW d \in links, d.succ = u, f[d.pred] # None
       PROVE  e # None /\ Candidate(d, f[d.pred], n) <= e.es
  <2>1. PICK x \in C : x = Candidate(d, f[d.pred], n)
    BY <1>18, <1>19
  <2>2. Max(C) \in Int /\ x <= Max(C) /\ p = From(Max(C), n)
    BY <1>4, <1>5, <1>6, PlannedIs
  <2>3. p # None /\ p.es = Max(C)
    BY <1>11, <2>2
  <2>4. e # None /\ Max(C) <= e.es
    BY <1>15, <2>3
  <2>5. e.es \in Int /\ x \in Int
    BY <1>4, <2>4 DEF EarlyDates
  <2> QED BY <2>1, <2>2, <2>4, <2>5
<1>20. ASSUME row.start # None, \A d \in links : d.succ = u => f[d.pred] = None
       PROVE  e # None /\ row.start <= e.es
  <2>1. C = {}
    BY <1>18, <1>20
  <2>2. p = From(row.start, n)
    BY <1>4, <1>5, <1>6, <1>20, <2>1, PlannedIs
  <2> QED BY <1>8, <1>11, <1>15, <1>20, <2>2
<1>21. ASSUME e # None
       PROVE  \/ \E d \in links : /\ d.succ = u /\ f[d.pred] # None
                                  /\ e.es = Candidate(d, f[d.pred], n)
              \/ /\ \A d \in links : d.succ = u => f[d.pred] = None
                 /\ row.start # None /\ e.es = row.start
              \/ a # None /\ e.es = a
  <2>1. CASE p # None /\ e = p /\ C # {}
    <3>1. Max(C) \in C /\ p.es = Max(C)
      <4>1. Max(C) \in Int /\ p = From(Max(C), n)
        BY <1>4, <1>5, <1>6, <2>1, PlannedIs
      <4> QED BY <1>4, <1>11, <2>1, <4>1, LatestIs
    <3>2. PICK d \in {x \in links : x.succ = u /\ f[x.pred] # None} : Max(C) = Candidate(d, f[d.pred], n)
      BY <1>18, <3>1, Zenon
    <3> QED BY <2>1, <3>1, <3>2
  <2>2. CASE p # None /\ e = p /\ C = {}
    <3>1. row.start # None /\ p = From(row.start, n)
      BY <1>4, <1>5, <1>6, <2>2, PlannedIs
    <3>2. e.es = row.start
      BY <1>8, <1>11, <2>2, <3>1
    <3>3. \A d \in links : d.succ = u => f[d.pred] = None
      BY <1>18, <2>2
    <3> QED BY <3>1, <3>2, <3>3
  <2> QED BY <1>17, <1>21, <2>1, <2>2
<1> QED BY <1>1, <1>3, <1>5, <1>7, <1>9, <1>14, <1>16, <1>19, <1>20, <1>21, Zenon DEF EarlyStep

(* Both passes over a plain network whose tasks X have not finished; the forward pass may
   be over rows with other actual starts than those of the backward pass. *)
Passes(X, links, rows, f, base, g, finish) ==
    /\ X \in SUBSET Tasks /\ links \subseteq Dependencies /\ Acyclic(links) /\ PlainLinks(links)
    /\ \A d \in links : d.pred \in X /\ d.succ \in X
    /\ \A u \in X : /\ EarlyStep(rows, links, f, u)
                    /\ LateDates(g, u, finish) /\ LateStep(base, links, g, u, finish)
                    /\ Days(rows[u]) = Days(base[u]) /\ Days(rows[u]) \in Nat

(* A task that has dates starts by its latest start. *)
InTime(f, g, u) == f[u] # None => f[u].es <= g[u].ls

(* It then ends by its latest finish, and the other way round. *)
LEMMA InTimeFinish ==
    ASSUME calendar \in Calendars, NEW X, NEW links, NEW rows, NEW f, NEW base, NEW g, NEW finish,
           Passes(X, links, rows, f, base, g, finish), NEW u \in X, f[u] # None
    PROVE  InTime(f, g, u) <=> f[u].ef <= g[u].lf
<1>1. /\ f[u] \in EarlyDates \cup {None} /\ f[u] = From(f[u].es, Days(rows[u]))
      /\ g[u].lf \in Int /\ IsWorkingDay(g[u].lf)
      /\ g[u].ls = FinishingBy(g[u].lf, Days(rows[u])) /\ Days(rows[u]) \in Nat
  BY DEF Passes, EarlyStep, LateDates, LateStep
<1>2. PICK e \in EarlyDates, n \in Nat, s \in Int, last \in Int :
         /\ e = f[u] /\ n = Days(rows[u]) /\ s = e.es /\ last = g[u].lf /\ IsWorkingDay(last)
  BY <1>1 DEF EarlyDates
<1>3. e = From(s, n) /\ g[u].ls = FinishingBy(last, n)
  BY <1>1, <1>2
<1>4. From(s, n).ef <= last <=> s <= FinishingBy(last, n)
  BY <1>2, FinishAdjoint
<1> QED BY <1>2, <1>3, <1>4 DEF InTime

(* A successor that starts by its latest start leaves its predecessor the day that the
   backward pass gives it. *)
LEMMA InTimeLink ==
    ASSUME calendar \in Calendars, NEW X, NEW links, NEW rows, NEW f, NEW base, NEW g, NEW finish,
           Passes(X, links, rows, f, base, g, finish), NEW d \in links, f[d.pred] # None
    PROVE  /\ Candidate(d, f[d.pred], Days(rows[d.succ])) <= g[d.succ].ls
                  <=> f[d.pred].ef <= LateFinish(d, g[d.succ])
           /\ LateFinish(d, g[d.succ]) \in Int
           /\ Candidate(d, f[d.pred], Days(rows[d.succ])) \in Int
<1>1. /\ d \in Dependencies /\ d.type = "FS" /\ d.lag >= 0 /\ d.pred \in X /\ d.succ \in X
  BY DEF Passes, PlainLinks
<1>2. /\ f[d.pred] \in EarlyDates /\ Days(rows[d.succ]) \in Nat
      /\ g[d.succ].ls \in Int /\ IsWorkingDay(g[d.succ].ls)
  BY <1>1 DEF Passes, EarlyStep, LateDates
<1> QED BY <1>1, <1>2, LateFinishIs, CandidateIs

(* When no task ends after the finish, every task is in time. *)
LEMMA AllInTime ==
    ASSUME calendar \in Calendars, NEW X, NEW links, NEW rows, NEW f, NEW base, NEW g, NEW finish,
           Passes(X, links, rows, f, base, g, finish),
           \A u \in X : f[u] # None => f[u].ef <= finish
    PROVE  \A u \in X : InTime(f, g, u)
<1> DEFINE U == {u \in X : ~InTime(f, g, u)}
<1> SUFFICES ASSUME U # {} PROVE FALSE
  OBVIOUS
<1>1. /\ X \in SUBSET Tasks /\ links \subseteq Dependencies /\ Acyclic(links)
      /\ \A d \in links : d.pred \in X /\ d.succ \in X
  BY DEF Passes
<1>2. PICK u \in U : \A d \in links : d.pred = u => d.succ \notin U
  <2>1. U \in SUBSET Tasks
    BY <1>1
  <2> HIDE DEF U
  <2> QED BY <1>1, <2>1, SomeLast
<1>3. u \in X /\ f[u] # None /\ ~InTime(f, g, u)
  BY DEF InTime
<1>4. ~(f[u].ef <= g[u].lf)
  BY <1>3, InTimeFinish
<1>5. LateStep(base, links, g, u, finish)
  BY <1>3 DEF Passes
<1>6. CASE g[u].lf = finish
  BY <1>3, <1>4, <1>6
<1>7. ASSUME NEW d \in links, d.pred = u, g[u].lf = LateFinish(d, g[d.succ])
      PROVE  FALSE
  <2>1. d.succ \in X /\ InTime(f, g, d.succ)
    BY <1>1, <1>2, <1>7
  <2>2. EarlyStep(rows, links, f, d.succ)
    BY <2>1 DEF Passes
  <2>3. PICK c \in Int : c = Candidate(d, f[d.pred], Days(rows[d.succ]))
    BY <1>3, <1>7, InTimeLink
  <2>4. f[d.succ] \in EarlyDates /\ c <= f[d.succ].es
    BY <1>3, <1>7, <2>2, <2>3 DEF EarlyStep
  <2>5. f[d.succ] # None /\ f[d.succ].es \in Int
    BY <2>4, ScheduleRowsAssumption DEF EarlyDates
  <2>6. g[d.succ].ls \in Int
    BY <2>1 DEF Passes, LateDates
  <2>7. c <= g[d.succ].ls
    BY <2>1, <2>4, <2>5, <2>6 DEF InTime
  <2> QED BY <1>3, <1>4, <1>7, <2>3, <2>7, InTimeLink
<1> QED BY <1>5, <1>6, <1>7 DEF LateStep

(* Rows that differ from unstarted ones in the actual start of one task that has dates. *)
StartedAt(X, rows, base, t) ==
    \A u \in X : /\ rows[u].start = base[u].start /\ Days(rows[u]) = Days(base[u])
                 /\ Days(base[u]) \in Nat /\ base[u].actualStart = None
                 /\ u # t => rows[u].actualStart = None

(* A task has dates in both passes or in neither, and no earlier ones. *)
NoEarlier(e, f, u) == /\ e[u] = None <=> f[u] = None
                      /\ e[u] # None => e[u].es <= f[u].es /\ e[u].ef <= f[u].ef

LEMMA LaterFinish ==
    ASSUME calendar \in Calendars, NEW n \in Nat, NEW x \in Int, NEW y \in Int, x <= y
    PROVE  From(x, n).ef <= From(y, n).ef
<1>1. /\ From(x, n).ef = IF n = 0 THEN x ELSE AddWorkingDays(x, n)
      /\ From(y, n).ef = IF n = 0 THEN y ELSE AddWorkingDays(y, n)
  BY FromIs
<1>2. n > 0 => AddWorkingDays(x, n) <= AddWorkingDays(y, n)
  BY AddGrows
<1> QED BY <1>1, <1>2

LEMMA LaterCandidate ==
    ASSUME calendar \in Calendars, NEW d \in Dependencies, d.type = "FS", d.lag >= 0,
           NEW p \in EarlyDates, NEW q \in EarlyDates, p.ef <= q.ef, NEW n
    PROVE  /\ Candidate(d, p, n) \in Int /\ Candidate(d, q, n) \in Int
           /\ Candidate(d, p, n) <= Candidate(d, q, n)
<1>1. PICK lag \in Nat : lag = d.lag
  <2>1. d.lag \in Lags
    BY DEF Dependencies
  <2>2. d.lag \in Int
    BY <2>1, ScheduleAssumption
  <2> QED BY <2>2
<1>2. PICK x \in Int, y \in Int, k \in Nat : x = p.ef /\ y = q.ef /\ k = lag + 2 /\ k > 0 /\ x <= y
  BY <1>1 DEF EarlyDates
<1>3. Candidate(d, p, n) = AddWorkingDays(x, k) /\ Candidate(d, q, n) = AddWorkingDays(y, k)
  BY <1>1, <1>2 DEF Candidate
<1>4. k \in Int
  BY <1>2
<1>5. AddWorkingDays(x, k) \in Int /\ AddWorkingDays(y, k) \in Int
  BY <1>4, AddIsInt
<1>6. AddWorkingDays(x, k) <= AddWorkingDays(y, k)
  BY <1>2, AddGrows
<1> QED BY <1>3, <1>5, <1>6

(* A later start of one task makes no task earlier. *)
LEMMA NoneEarlier ==
    ASSUME calendar \in Calendars, NEW X \in SUBSET Tasks, NEW links, links \subseteq Dependencies,
           Acyclic(links), PlainLinks(links), \A d \in links : d.pred \in X /\ d.succ \in X,
           NEW rows, NEW base, NEW e, NEW f, NEW t \in X, e[t] # None, StartedAt(X, rows, base, t),
           \A u \in X : EarlyStep(base, links, e, u) /\ EarlyStep(rows, links, f, u)
    PROVE  \A u \in X : NoEarlier(e, f, u)
<1> DEFINE U == {u \in X : ~NoEarlier(e, f, u)}
<1> SUFFICES ASSUME U # {} PROVE FALSE
  OBVIOUS
<1>1. PICK u \in U : \A d \in links : d.succ = u => d.pred \notin U
  <2>1. U \in SUBSET Tasks
    OBVIOUS
  <2> HIDE DEF U
  <2> QED BY <2>1, SomeFirst
<1>2. u \in X /\ ~NoEarlier(e, f, u)
  OBVIOUS
<1>3. \A d \in links : d.succ = u => d.pred \in X /\ NoEarlier(e, f, d.pred)
  BY <1>1
<1> HIDE DEF U
<1>4. PICK n \in Nat : n = Days(base[u]) /\ n = Days(rows[u])
  BY <1>2 DEF StartedAt
<1>5. /\ e[u] \in EarlyDates \cup {None} /\ f[u] \in EarlyDates \cup {None}
      /\ e[u] # None => e[u] = From(e[u].es, n)
      /\ f[u] # None => f[u] = From(f[u].es, n)
  BY <1>2, <1>4, Zenon DEF EarlyStep
<1>6. ASSUME e[u] # None, f[u] # None, e[u].es <= f[u].es
      PROVE  FALSE
  <2>1. PICK x \in Int, y \in Int : x = e[u].es /\ y = f[u].es /\ x <= y
    BY <1>5, <1>6 DEF EarlyDates
  <2>2. e[u].ef <= f[u].ef
    <3>1. From(x, n).ef <= From(y, n).ef
      BY <2>1, LaterFinish
    <3> QED BY <1>5, <1>6, <2>1, <3>1
  <2> QED BY <1>2, <1>6, <2>2 DEF NoEarlier
<1>7. CASE e[u] # None
  <2>1. \/ \E d \in links : /\ d.succ = u /\ e[d.pred] # None
                            /\ e[u].es = Candidate(d, e[d.pred], n)
        \/ /\ \A d \in links : d.succ = u => e[d.pred] = None
           /\ base[u].start # None /\ e[u].es = base[u].start
    <3>1. base[u].actualStart = None
      BY <1>2 DEF StartedAt
    <3>2. \/ \E d \in links : /\ d.succ = u /\ e[d.pred] # None
                            /\ e[u].es = Candidate(d, e[d.pred], Days(base[u]))
          \/ /\ \A d \in links : d.succ = u => e[d.pred] = None
             /\ base[u].start # None /\ e[u].es = base[u].start
          \/ base[u].actualStart # None /\ e[u].es = base[u].actualStart
      <4>1. EarlyStep(base, links, e, u)
        BY <1>2
      <4> QED BY <1>7, <4>1, Zenon DEF EarlyStep
    <3>3. Days(base[u]) = n
      BY <1>4
    <3> QED BY <3>1, <3>2, <3>3
  <2>2. ASSUME NEW d \in links, d.succ = u, e[d.pred] # None, e[u].es = Candidate(d, e[d.pred], n)
        PROVE  FALSE
    <3>1. d.pred \in X /\ f[d.pred] # None /\ e[d.pred].ef <= f[d.pred].ef
      BY <1>3, <2>2 DEF NoEarlier
    <3>2. PICK p \in EarlyDates, q \in EarlyDates : p = e[d.pred] /\ q = f[d.pred] /\ p.ef <= q.ef
      BY <2>2, <3>1 DEF EarlyStep
    <3>3. d \in Dependencies /\ d.type = "FS" /\ d.lag >= 0
      BY DEF PlainLinks
    <3>4. PICK x \in Int, y \in Int : /\ x = Candidate(d, p, n) /\ y = Candidate(d, q, n)
                                      /\ x <= y
      BY <3>2, <3>3, LaterCandidate
    <3>5. f[u] # None /\ y <= f[u].es
      BY <1>2, <1>4, <2>2, <3>1, <3>2, <3>4, Zenon DEF EarlyStep
    <3>6. f[u].es \in Int
      BY <1>5, <3>5 DEF EarlyDates
    <3>7. e[u].es <= f[u].es
      BY <2>2, <3>2, <3>4, <3>5, <3>6
    <3> QED BY <1>6, <1>7, <3>5, <3>7
  <2>3. ASSUME \A d \in links : d.succ = u => e[d.pred] = None,
               base[u].start # None, e[u].es = base[u].start
        PROVE  FALSE
    <3>1. \A d \in links : d.succ = u => f[d.pred] = None
      BY <1>3, <2>3 DEF NoEarlier
    <3>2. rows[u].start = base[u].start
      BY <1>2 DEF StartedAt
    <3>3. f[u] # None /\ rows[u].start <= f[u].es
      BY <1>2, <2>3, <3>1, <3>2, Zenon DEF EarlyStep
    <3> QED BY <1>6, <1>7, <2>3, <3>2, <3>3
  <2> QED BY <2>1, <2>2, <2>3
<1>8. CASE e[u] = None
  <2>1. f[u] # None /\ u # t
    BY <1>2, <1>8 DEF NoEarlier
  <2>2. \/ \E d \in links : d.succ = u /\ f[d.pred] # None
        \/ /\ \A d \in links : d.succ = u => f[d.pred] = None
           /\ rows[u].start # None
    <3>1. rows[u].actualStart = None
      BY <1>2, <2>1 DEF StartedAt
    <3> QED BY <1>2, <2>1, <3>1, Zenon DEF EarlyStep
  <2>3. ASSUME NEW d \in links, d.succ = u, f[d.pred] # None
        PROVE  FALSE
    <3>1. e[d.pred] # None
      BY <1>3, <2>3 DEF NoEarlier
    <3> QED BY <1>2, <1>8, <2>3, <3>1, Zenon DEF EarlyStep
  <2>4. ASSUME \A d \in links : d.succ = u => f[d.pred] = None, rows[u].start # None
        PROVE  FALSE
    <3>1. \A d \in links : d.succ = u => e[d.pred] = None
      BY <1>3, <2>4 DEF NoEarlier
    <3>2. rows[u].start = base[u].start
      BY <1>2 DEF StartedAt
    <3> QED BY <1>2, <1>8, <2>4, <3>1, <3>2, Zenon DEF EarlyStep
  <2> QED BY <2>2, <2>3, <2>4
<1> QED BY <1>7, <1>8

(* When one task starts on its latest start, all tasks remain in time. *)
LEMMA StillInTime ==
    ASSUME calendar \in Calendars, NEW X, NEW links, NEW rows, NEW f, NEW base, NEW g, NEW finish,
           Passes(X, links, rows, f, base, g, finish), NEW e, NEW t \in X,
           StartedAt(X, rows, base, t), rows[t].actualStart = g[t].ls,
           \A u \in X : EarlyStep(base, links, e, u) /\ InTime(e, g, u) /\ NoEarlier(e, f, u)
    PROVE  \A u \in X : InTime(f, g, u)
<1> DEFINE U == {u \in X : ~InTime(f, g, u)}
<1> SUFFICES ASSUME U # {} PROVE FALSE
  OBVIOUS
<1>1. /\ X \in SUBSET Tasks /\ links \subseteq Dependencies /\ Acyclic(links)
      /\ \A d \in links : d.pred \in X /\ d.succ \in X
  BY DEF Passes
<1>2. PICK u \in U : \A d \in links : d.succ = u => d.pred \notin U
  <2>1. U \in SUBSET Tasks
    BY <1>1
  <2> HIDE DEF U
  <2> QED BY <1>1, <2>1, SomeFirst
<1>3. u \in X /\ f[u] # None /\ ~(f[u].es <= g[u].ls)
  BY DEF InTime
<1>4. \A d \in links : d.succ = u => d.pred \in X /\ InTime(f, g, d.pred)
  BY <1>1, <1>2
<1> HIDE DEF U
<1>5. EarlyStep(rows, links, f, u) /\ g[u].ls \in Int
  BY <1>3 DEF Passes, LateDates
<1>6. ASSUME NEW d \in links, d.succ = u, f[d.pred] # None,
             f[u].es = Candidate(d, f[d.pred], Days(rows[u]))
      PROVE  FALSE
  <2>1. d.pred \in X /\ f[d.pred].ef <= g[d.pred].lf
    BY <1>4, <1>6, InTimeFinish
  <2>2. /\ LateStep(base, links, g, d.pred, finish) /\ f[d.pred] \in EarlyDates
        /\ g[d.pred].lf \in Int
    BY <1>6, <2>1 DEF Passes, EarlyStep, LateDates
  <2>3. g[d.pred].lf <= LateFinish(d, g[u]) /\ LateFinish(d, g[u]) \in Int
    BY <1>6, <2>2, InTimeLink DEF LateStep
  <2>4. f[d.pred].ef <= LateFinish(d, g[u])
    BY <2>1, <2>2, <2>3 DEF EarlyDates
  <2> QED BY <1>3, <1>6, <2>4, InTimeLink
<1>7. ASSUME \A d \in links : d.succ = u => f[d.pred] = None,
             rows[u].start # None, f[u].es = rows[u].start
      PROVE  FALSE
  <2>1. \A d \in links : d.succ = u => e[d.pred] = None
    BY <1>4, <1>7 DEF NoEarlier
  <2>2. rows[u].start = base[u].start
    BY <1>3 DEF StartedAt
  <2>3. e[u] # None /\ base[u].start <= e[u].es /\ e[u] \in EarlyDates
    BY <1>3, <1>7, <2>1, <2>2 DEF EarlyStep
  <2>4. e[u].es <= f[u].es /\ e[u].es <= g[u].ls
    BY <1>3, <2>3 DEF NoEarlier, InTime
  <2>5. f[u].es \in Int /\ e[u].es \in Int
    BY <1>3, <1>5, <2>3 DEF EarlyDates, EarlyStep
  <2> QED BY <1>3, <1>5, <1>7, <2>2, <2>3, <2>4, <2>5
<1>8. ASSUME rows[u].actualStart # None, f[u].es = rows[u].actualStart
      PROVE  FALSE
  <2>1. u = t
    BY <1>3, <1>8 DEF StartedAt
  <2> QED BY <1>3, <1>5, <1>8, <2>1
<1> QED BY <1>3, <1>5, <1>6, <1>7, <1>8, Zenon DEF EarlyStep

(* A network X without actual dates, its early dates e and late dates g, and the early
   dates f it has when the task t reports an actual start on the day s. *)
Moving(X, base, links, finish, g, t, s, rows, e, f) ==
    /\ base \in [Tasks -> Rows \cup {None}] /\ Network(base, links) /\ PlainLinks(links)
    /\ X = Existing(base)
    /\ \A u \in X : base[u].actualStart = None /\ base[u].actualEnd = None
    /\ finish \in Int /\ IsWorkingDay(finish) /\ g = Late(base, links, finish)
    /\ t \in X /\ s \in Int /\ rows = [base EXCEPT ![t].actualStart = s]
    /\ e = Early(base, links) /\ f = Early(rows, links)

LEMMA Moved ==
    ASSUME calendar \in Calendars, NEW X, NEW base, NEW links, NEW finish, NEW g, NEW t, NEW s,
           NEW rows, NEW e, NEW f, Moving(X, base, links, finish, g, t, s, rows, e, f)
    PROVE  /\ IsFiniteSet(X) /\ e \in [X -> EarlyDates \cup {None}] /\ f \in [X -> EarlyDates \cup {None}]
           /\ StartedAt(X, rows, base, t) /\ rows[t].actualStart = s
           /\ Passes(X, links, base, e, base, g, finish)
           /\ Passes(X, links, rows, f, base, g, finish)
<1> USE DEF Moving
<1>1. /\ X \in SUBSET Tasks /\ \A u \in X : base[u] \in Rows
      /\ \A u \in Tasks \ X : base[u] = None
  BY DEF Existing
<1>2. IsFiniteSet(X)
  BY <1>1, ScheduleAssumption, FS_Subset
<1>3. /\ links \subseteq Dependencies /\ Acyclic(links)
      /\ \A d \in links : d.pred \in X /\ d.succ \in X
  BY LinksTyped DEF Network, Existing
<1>4. PICK row \in Rows : row = base[t]
  BY <1>1
<1>5. PICK new \in Rows : /\ new = [row EXCEPT !.actualStart = s]
                          /\ new.start = row.start /\ new.duration = row.duration
                          /\ new.actualStart = s /\ new.actualEnd = row.actualEnd
  <2>1. s \in Dates
    BY DEF Dates
  <2>2. [row EXCEPT !.actualStart = s] \in Rows
    BY <2>1 DEF Rows
  <2>3. PICK new : new = [row EXCEPT !.actualStart = s]
    OBVIOUS
  <2>4. /\ new.start = row.start /\ new.duration = row.duration
        /\ new.actualStart = s /\ new.actualEnd = row.actualEnd
    BY <2>3 DEF Rows
  <2> QED BY <2>2, <2>3, <2>4
<1>6. rows = [base EXCEPT ![t] = new]
  BY <1>4, <1>5
<1>7. t \in Tasks
  BY <1>1
<1>8. rows \in [Tasks -> Rows \cup {None}] /\ rows[t] = new /\ \A u \in Tasks \ {t} : rows[u] = base[u]
  BY <1>6, <1>7
<1>9. Existing(rows) = X
  BY <1>1, <1>7, <1>8, ScheduleRowsAssumption DEF Existing
<1>10. Network(rows, links)
  <2>1. \A u \in Tasks : base[u] # None => rows[u] # None
    BY <1>8, ScheduleRowsAssumption
  <2> QED BY <2>1, NetworkKept
<1>11. ASSUME NEW u \in X
       PROVE  /\ rows[u].start = base[u].start /\ Days(rows[u]) = Days(base[u])
              /\ Days(base[u]) \in Nat /\ rows[u].actualEnd = None
              /\ u # t => rows[u].actualStart = None
  <2>1. Days(base[u]) \in Nat
    BY <1>1, RowIs
  <2>2. CASE u = t
    <3>1. Days(new) = Days(row)
      BY <1>5 DEF Days
    <3> QED BY <1>4, <1>5, <1>8, <2>1, <2>2, <3>1
  <2>3. CASE u # t
    BY <1>1, <1>8, <2>1, <2>3
  <2> QED BY <2>2, <2>3
<1>12. StartedAt(X, rows, base, t) /\ rows[t].actualStart = s
  BY <1>5, <1>8, <1>11 DEF StartedAt
<1>13. e \in [X -> EarlyDates \cup {None}] /\ f \in [X -> EarlyDates \cup {None}]
  BY <1>8, <1>9, <1>10, EarlyOne
<1>14. ASSUME NEW u \in X
       PROVE  EarlyStep(base, links, e, u) /\ EarlyStep(rows, links, f, u)
  BY <1>8, <1>9, <1>10, <1>11, EarlySteps
<1>15. \A u \in X : LateDates(g, u, finish) /\ LateStep(base, links, g, u, finish)
  BY LatesAre
<1> QED BY <1>1, <1>2, <1>3, <1>11, <1>12, <1>13, <1>14, <1>15 DEF Passes

(* The same, of a network that has a finish: an actual start on the latest start of a task
   keeps the finish, any later one moves it. *)
Slipping(base, links, e, finish, g, t, s, f) ==
    /\ base \in [Tasks -> Rows \cup {None}] /\ Network(base, links) /\ PlainLinks(links)
    /\ \A u \in Existing(base) : base[u].actualStart = None /\ base[u].actualEnd = None
    /\ e = Early(base, links) /\ Computable(e)
    /\ finish = ProjectFinish(e) /\ IsWorkingDay(finish) /\ g = Late(base, links, finish)
    /\ t \in Existing(base) /\ e[t] # None
    /\ s \in Int /\ f = Early([base EXCEPT ![t].actualStart = s], links)

LEMMA NetworkFloat ==
    ASSUME calendar \in Calendars, NEW base, NEW links, NEW e, NEW finish, NEW g, NEW t, NEW s,
           NEW f, Slipping(base, links, e, finish, g, t, s, f)
    PROVE  /\ g[t].ls \in Int
           /\ s = g[t].ls => ProjectFinish(f) = finish
           /\ s > g[t].ls => ProjectFinish(f) > finish
<1> USE DEF Slipping
<1>1. PICK X : X = Existing(base)
  OBVIOUS
<1>2. PICK rows : rows = [base EXCEPT ![t].actualStart = s]
  OBVIOUS
<1>3. IsFiniteSet(X) /\ e \in [X -> EarlyDates \cup {None}]
  <2>1. X \in SUBSET Tasks
    BY <1>1 DEF Existing
  <2> QED BY <1>1, <2>1, ScheduleAssumption, FS_Subset, EarlyOne
<1>4. /\ finish \in Int
      /\ \A u \in X : e[u] # None => e[u].ef <= finish
      /\ \E u \in X : e[u] # None /\ e[u].ef = finish
  BY <1>3, FinishIs
<1>5. /\ f \in [X -> EarlyDates \cup {None}]
      /\ StartedAt(X, rows, base, t) /\ rows[t].actualStart = s
      /\ Passes(X, links, base, e, base, g, finish)
      /\ Passes(X, links, rows, f, base, g, finish)
  <2>1. t \in X /\ \A u \in X : base[u].actualStart = None /\ base[u].actualEnd = None
    BY <1>1
  <2>2. f = Early(rows, links)
    BY <1>2
  <2>3. Moving(X, base, links, finish, g, t, s, rows, e, f)
    BY <1>1, <1>2, <1>4, <2>1, <2>2, Zenon DEF Moving
  <2> HIDE DEF Slipping
  <2>4. f \in [X -> EarlyDates \cup {None}]
    BY <2>3, Moved
  <2>5. StartedAt(X, rows, base, t)
    BY <2>3, Moved
  <2>6. rows[t].actualStart = s
    BY <2>3, Moved
  <2>7. Passes(X, links, base, e, base, g, finish)
    BY <2>3, Moved
  <2>8. Passes(X, links, rows, f, base, g, finish)
    BY <2>3, Moved
  <2> QED BY <2>4, <2>5, <2>6, <2>7, <2>8
<1>6. \A u \in X : EarlyStep(base, links, e, u) /\ EarlyStep(rows, links, f, u)
  BY <1>5 DEF Passes
<1>7. \A u \in X : NoEarlier(e, f, u)
  <2>1. /\ X \in SUBSET Tasks /\ links \subseteq Dependencies /\ Acyclic(links)
        /\ \A d \in links : d.pred \in X /\ d.succ \in X
    BY <1>5 DEF Passes
  <2> QED BY <1>1, <1>5, <1>6, <2>1, NoneEarlier
<1>8. \A u \in X : InTime(e, g, u)
  BY <1>4, <1>5, AllInTime
<1>9. t \in X /\ f[t] # None /\ DOMAIN f = X
  BY <1>1, <1>5, <1>7 DEF NoEarlier
<1>10. Computable(f)
  BY <1>9 DEF Computable
<1>11. /\ ProjectFinish(f) \in Int
       /\ \A u \in X : f[u] # None => f[u].ef <= ProjectFinish(f)
       /\ \E u \in X : f[u] # None /\ f[u].ef = ProjectFinish(f)
  BY <1>3, <1>5, <1>10, FinishIs
<1>12. \A u \in X : LateDates(g, u, finish)
  BY <1>5 DEF Passes
<1>13. g[t].ls \in Int
  BY <1>9, <1>12 DEF LateDates
<1>14. ASSUME s = g[t].ls
       PROVE  ProjectFinish(f) = finish
  <2>1. \A u \in X : InTime(f, g, u)
    BY <1>5, <1>6, <1>7, <1>8, <1>9, <1>14, StillInTime
  <2>2. PICK u \in X : f[u] # None /\ f[u].ef = ProjectFinish(f)
    BY <1>11
  <2>3. f[u].ef <= g[u].lf
    BY <1>5, <2>1, <2>2, InTimeFinish
  <2>4. g[u].lf \in Int /\ g[u].lf <= finish
    BY <1>12 DEF LateDates
  <2>5. ProjectFinish(f) <= finish
    BY <1>4, <1>11, <2>2, <2>3, <2>4
  <2>6. PICK w \in X : e[w] # None /\ e[w].ef = finish
    BY <1>4
  <2>7. f[w] # None /\ finish <= f[w].ef
    BY <1>7, <2>6 DEF NoEarlier
  <2>8. f[w].ef <= ProjectFinish(f) /\ f[w].ef \in Int
    BY <1>5, <1>11, <2>7 DEF EarlyDates
  <2> QED BY <1>4, <1>11, <2>5, <2>7, <2>8
<1>15. ASSUME s > g[t].ls
       PROVE  ProjectFinish(f) > finish
  <2> SUFFICES ASSUME ProjectFinish(f) <= finish PROVE FALSE
    BY <1>4, <1>11
  <2>1. ASSUME NEW u \in X, f[u] # None
        PROVE  f[u].ef <= finish
    <3>1. f[u].ef \in Int /\ f[u].ef <= ProjectFinish(f)
      BY <1>5, <1>11, <2>1 DEF EarlyDates
    <3> QED BY <1>4, <1>11, <3>1
  <2>2. InTime(f, g, t)
    BY <1>5, <1>9, <2>1, AllInTime
  <2>3. f[t].es <= g[t].ls
    BY <1>9, <2>2 DEF InTime
  <2>4. s # None
    BY ScheduleRowsAssumption
  <2>5. s <= f[t].es
    BY <1>5, <1>6, <1>9, <2>4, Zenon DEF EarlyStep
  <2>6. f[t].es \in Int
    BY <1>5, <1>9 DEF EarlyDates
  <2> QED BY <1>13, <1>15, <2>3, <2>5, <2>6
<1> QED BY <1>13, <1>14, <1>15

(* Theorem FloatIsExact: the total float of the schedule is what a task can really lose: a
   task that starts on its latest start leaves the finish of the project where it was and
   one that starts on the working day after it moves it (run_backward_pass and
   build_schedule_result, any network with finish-to-start links). *)
THEOREM FloatIsExact == GovernedSpec => []FloatExact
<1>1. SInv => FloatExact
  <2> SUFFICES ASSUME SInv, Plain, Unstarted, NEW e, e = Early(task, deps), Computable(e),
                      NEW finish, finish = ProjectFinish(e), IsWorkingDay(finish),
                      NEW g, g = Late(task, deps, finish),
                      NEW t \in Existing(task), e[t] # None
               PROVE  /\ ProjectFinish(Early([task EXCEPT ![t].actualStart = g[t].ls], deps)) = finish
                      /\ ProjectFinish(Early([task EXCEPT ![t].actualStart = NextWorkingDay(g[t].ls + 1)],
                                             deps)) > finish
    BY Zenon DEF FloatExact
  <2>1. /\ calendar \in Calendars /\ task \in [Tasks -> Rows \cup {None}] /\ Network(task, deps)
        /\ PlainLinks(deps)
        /\ \A u \in Existing(task) : task[u].actualStart = None /\ task[u].actualEnd = None
    BY NetInvIs, Zenon DEF SInv, Plain, PlainLinks, Unstarted
  <2>2. ASSUME NEW s \in Int
        PROVE  LET f == Early([task EXCEPT ![t].actualStart = s], deps)
               IN  /\ g[t].ls \in Int
                   /\ s = g[t].ls => ProjectFinish(f) = finish
                   /\ s > g[t].ls => ProjectFinish(f) > finish
    <3>1. PICK f : f = Early([task EXCEPT ![t].actualStart = s], deps)
      OBVIOUS
    <3>2. /\ g[t].ls \in Int
          /\ s = g[t].ls => ProjectFinish(f) = finish
          /\ s > g[t].ls => ProjectFinish(f) > finish
      <4>1. Slipping(task, deps, e, finish, g, t, s, f)
        BY <2>1, <2>2, <3>1, Zenon DEF Slipping
      <4> QED BY <2>1, <4>1, NetworkFloat
    <3> QED BY <3>1, <3>2, Zenon
  <2>3. PICK ls \in Int : ls = g[t].ls
    <3>1. 0 \in Int
      OBVIOUS
    <3> QED BY <2>2, <3>1
  <2>4. PICK s \in Int : s = NextWorkingDay(ls + 1) /\ s > ls
    <3>1. ls + 1 \in Int
      OBVIOUS
    <3>2. NextWorkingDay(ls + 1) \in Int /\ NextWorkingDay(ls + 1) >= ls + 1
      BY <2>1, <3>1, NextWorkingDayIs
    <3> QED BY <3>2
  <2>5. ProjectFinish(Early([task EXCEPT ![t].actualStart = ls], deps)) = finish
    BY <2>2, <2>3
  <2>6. ProjectFinish(Early([task EXCEPT ![t].actualStart = s], deps)) > finish
    BY <2>2, <2>3, <2>4
  <2> QED BY <2>3, <2>4, <2>5, <2>6
<1> QED BY <1>1, ScheduleInvariant, PTL

-----------------------------------------------------------------------------
(* The levelling of resources (ResourceLeveling) *)

RunRecords ==
    [phase : {"idle", "leveled", "refused"}, hidden : BOOLEAN]
      \cup [phase : {"reading"}, hidden : BOOLEAN, left : Int, known : SUBSET Dependencies]
      \cup [phase : {"writing"}, hidden : BOOLEAN, left : Int, known : SUBSET Dependencies,
            task : Tasks, row : Rows]

(* A shift that waits for its commit moves the task as it is stored to a later start, and
   the task has no successor among the dependencies the run has read. *)
ShiftReady(run, rows) ==
    /\ rows[run.task] # None /\ rows[run.task].start # None
    /\ rows[run.task].actualEnd = None
    /\ run.row.start \in Int /\ run.row.end \in Int
    /\ run.row.start >= rows[run.task].start
    /\ ~HasSuccessor(run.task, run.known)

RunsOK == /\ leveling \in [Runs -> RunRecords]
          /\ \A r \in Runs : leveling[r].phase = "writing" => ShiftReady(leveling[r], task)

(* An assignment that waits for its commit was checked against rows of the same tasks. *)
CheckOK == checking # NotChecking =>
    /\ checking.task \in Tasks /\ checking.allocation \in Percentages
    /\ checking.rows \in [Tasks -> Rows \cup {None}]
    /\ task[checking.task] # None
    /\ Fits(checking.rows, checking.task, checking.allocation)

LoadOK == /\ assigned \in [Tasks -> Nat]
          /\ \A t \in Tasks : task[t] = None => assigned[t] = 0

(* When every task has a duration, a start comes with an end until the finish is
   reported. *)
EndKnown(row) == row.actualEnd = None /\ row.start # None => row.end # None
EndsKnown(rows) == \A t \in Tasks : rows[t] # None => EndKnown(rows[t])

LevelInv == /\ NetInv /\ LoadOK /\ RunsOK /\ CheckOK
            /\ None \notin Durations => EndsKnown(task)

(* A start and a duration give an end. *)
LEMMA EndOfKnown ==
    ASSUME calendar \in Calendars, NEW start \in Int \cup {None}, start # None,
           NEW duration \in Durations, duration # None
    PROVE  EndOf(start, duration) # None
<1>1. duration \in Int
  BY ScheduleAssumption
<1>2. AddWorkingDays(start, duration) \in Int
  BY <1>1, AddIsInt
<1> QED BY <1>2, ScheduleRowsAssumption DEF EndOf

(* A recalculation writes an end with every start. *)
LEMMA EndsRecalculated ==
    ASSUME calendar \in Calendars, NEW rows \in [Tasks -> Rows \cup {None}], NEW links,
           Network(rows, links), EndsKnown(rows)
    PROVE  EndsKnown(Recalculated(rows, links))
<1>1. PICK f : f = Early(rows, links)
  OBVIOUS
<1>2. f \in [Existing(rows) -> EarlyDates \cup {None}]
  BY <1>1, EarlyIs, EarlyTyped
<1>3. PICK w : w = Scheduled(rows, f)
  OBVIOUS
<1>4. /\ \A t \in Tasks : w[t] = None <=> rows[t] = None
      /\ \A t \in Existing(rows) : w[t] = WithDates(rows[t], f[t])
  BY <1>2, <1>3, ScheduledIs
<1>5. ASSUME NEW t \in Existing(rows)
      PROVE  EndKnown(WithDates(rows[t], f[t]))
  <2>1. PICK row \in Rows : row = rows[t]
    BY DEF Existing
  <2>2. EndKnown(row)
    BY <2>1 DEF EndsKnown, Existing
  <2>3. PICK C : C \subseteq Int /\ IsFiniteSet(C) /\ f[t] = ApplyActuals(row, Planned(row, C))
    BY <1>1, <2>1, EarlyOne
  <2>4. PICK e \in EarlyDates \cup {None} : e = f[t]
    BY <1>2
  <2>5. PICK v \in Rows :
           /\ v = WithDates(row, e)
           /\ v.actualStart = row.actualStart /\ v.actualEnd = row.actualEnd
           /\ v.start = IF row.actualStart # None THEN row.start
                        ELSE IF e = None THEN None ELSE e.es
           /\ v.end = IF row.actualEnd # None THEN row.end
                      ELSE IF e = None THEN None ELSE e.ef
    BY WithDatesIs
  <2>6. ASSUME row.actualEnd = None, row.actualStart # None
        PROVE  e # None
    <3>1. PICK p \in EarlyDates \cup {None} : p = Planned(row, C)
      BY <2>3, PlannedIs
    <3>2. e = ApplyActuals(row, p)
      BY <2>3, <2>4, <3>1
    <3>3. From(row.actualStart, Days(row)) # None
      <4>1. row.actualStart \in Int /\ Days(row) \in Nat
        BY <2>6, RowIs
      <4>2. From(row.actualStart, Days(row)) \in EarlyDates
        BY <4>1, FromIs
      <4> QED BY <4>2, ScheduleRowsAssumption
    <3>4. e = IF row.actualStart # None /\ (p = None \/ Before(p.es, row.actualStart))
              THEN From(row.actualStart, Days(row)) ELSE p
      BY <2>6, <3>2, Zenon DEF ApplyActuals
    <3> QED BY <2>6, <3>3, <3>4
  <2>7. e # None => e.ef # None
    BY ScheduleRowsAssumption DEF EarlyDates
  <2>8. EndKnown(v)
    BY <2>2, <2>5, <2>6, <2>7 DEF EndKnown
  <2> QED BY <2>1, <2>4, <2>5, <2>8
<1>6. EndsKnown(w)
  BY <1>4, <1>5 DEF EndsKnown, Existing
<1>7. Recalculated(rows, links) = w \/ Recalculated(rows, links) = rows
  BY <1>1, <1>3, Zenon DEF Recalculated
<1> QED BY <1>6, <1>7

(* One row is written. *)
LEMMA EndsWritten ==
    ASSUME task \in [Tasks -> Rows \cup {None}], EndsKnown(task), NEW t \in Tasks,
           NEW row, EndKnown(row), task' = [task EXCEPT ![t] = row]
    PROVE  EndsKnown(task')
BY DEF EndsKnown

(* Creating, editing, deleting and recalculating tasks gives no start without its end. *)
LEMMA EndsKnownNext ==
    ASSUME NetInv, Next, None \notin Durations, EndsKnown(task)
    PROVE  EndsKnown(task')
<1>1. /\ calendar \in Calendars /\ task \in [Tasks -> Rows \cup {None}]
      /\ Network(task, deps) /\ deps \subseteq Dependencies
  BY NetInvIs DEF Network
<1>2. ASSUME NEW t \in Tasks, NEW start \in StartDates, NEW duration \in Durations,
             CreateTask(t, start, duration)
      PROVE  EndsKnown(task')
  <2> DEFINE row == [start |-> start, end |-> EndOf(start, duration), duration |-> duration,
                     actualStart |-> None, actualEnd |-> None]
  <2>1. start \in Int \cup {None} /\ duration # None
    BY ScheduleAssumption
  <2>2. start # None => EndOf(start, duration) # None
    BY <1>1, <2>1, EndOfKnown
  <2>3. EndKnown(row)
    BY <2>2 DEF EndKnown
  <2>4. task' = [task EXCEPT ![t] = row]
    BY <1>2, Zenon DEF CreateTask
  <2> HIDE DEF row
  <2> QED BY <1>1, <2>3, <2>4, EndsWritten
<1>3. ASSUME NEW t \in Tasks, NEW start \in StartDates, NEW duration \in Durations,
             UpdateTask(t, start, duration)
      PROVE  EndsKnown(task')
  <2>1. PICK row \in Rows : row = task[t]
    BY <1>1, <1>3 DEF UpdateTask
  <2> DEFINE newStart == Given(start, row.start)
             newDuration == Given(duration, row.duration)
             newEnd == Given(EndOf(newStart, newDuration), row.end)
             new == [row EXCEPT !.start = newStart, !.end = newEnd, !.duration = newDuration]
  <2>2. row.start \in Int \cup {None} /\ row.duration \in Durations
    BY RowIs
  <2>3. newStart \in Int \cup {None} /\ newDuration \in Durations /\ newDuration # None
    BY <2>2, ScheduleAssumption DEF Given
  <2>4. newStart # None => EndOf(newStart, newDuration) # None
    BY <1>1, <2>3, EndOfKnown
  <2>5. newStart # None => newEnd # None
    BY <2>4 DEF Given
  <2>6. task' = [task EXCEPT ![t] = new]
    BY <1>3, <2>1, Zenon DEF UpdateTask
  <2> HIDE DEF newStart, newDuration, newEnd
  <2>7. new.start = newStart /\ new.end = newEnd
    BY DEF Rows
  <2>8. EndKnown(new)
    BY <2>5, <2>7 DEF EndKnown
  <2> HIDE DEF new
  <2> QED BY <1>1, <2>6, <2>8, EndsWritten
<1>4. ASSUME NEW t \in Tasks, NEW a \in ActualDates \cup {None}, NEW b \in ActualDates \cup {None},
             UpdateProgress(t, a, b)
      PROVE  EndsKnown(task')
  <2>1. PICK row \in Rows : row = task[t] /\ EndKnown(row)
    BY <1>1, <1>4 DEF UpdateProgress, EndsKnown
  <2> DEFINE newStart == Given(a, row.actualStart)
             newEnd == Given(b, row.actualEnd)
             new == [row EXCEPT !.actualStart = newStart, !.actualEnd = newEnd]
  <2>2. newEnd = None => row.actualEnd = None
    BY DEF Given
  <2>3. task' = [task EXCEPT ![t] = new]
    BY <1>4, <2>1, Zenon DEF UpdateProgress
  <2> HIDE DEF newStart, newEnd
  <2>4. new.start = row.start /\ new.end = row.end /\ new.actualEnd = newEnd
    BY DEF Rows
  <2>5. EndKnown(new)
    BY <2>1, <2>2, <2>4 DEF EndKnown
  <2> HIDE DEF new
  <2> QED BY <1>1, <2>3, <2>5, EndsWritten
<1>5. ASSUME NEW t \in Tasks, DeleteTask(t)
      PROVE  EndsKnown(task')
  <2>1. task' = [task EXCEPT ![t] = None]
    BY <1>5 DEF DeleteTask
  <2> QED BY <1>1, <2>1 DEF EndsKnown
<1>6. ASSUME NEW D, Network(task, D), task' = Recalculated(task, D)
      PROVE  EndsKnown(task')
  BY <1>1, <1>6, EndsRecalculated
<1>7. ASSUME NEW p \in Tasks, NEW s \in Tasks, NEW type \in Types, NEW lag \in Lags,
             AddDependency(p, s, type, lag)
      PROVE  EndsKnown(task')
  <2>1. PICK n \in Dependencies : n = [pred |-> p, succ |-> s, type |-> type, lag |-> lag]
    BY DEF Dependencies
  <2>2. /\ task' = Recalculated(task, deps \cup {n})
        /\ DependencyValid(p, s) /\ task[p] # None /\ task[s] # None
    <3>1. deps' = deps \cup {n} /\ task' = Recalculated(task, deps')
      BY <1>7, <2>1, Zenon DEF AddDependency
    <3> QED BY <1>7, <3>1, Zenon DEF AddDependency
  <2>3. n.pred = p /\ n.succ = s
    BY <2>1
  <2>4. Network(task, deps \cup {n})
    BY <2>2, <2>3, NetworkMore
  <2> QED BY <1>6, <2>2, <2>4
<1>8. ASSUME NEW d \in deps, RemoveDependency(d)
      PROVE  EndsKnown(task')
  <2>1. task' = Recalculated(task, deps \ {d})
    BY <1>8, Zenon DEF RemoveDependency
  <2>2. Network(task, deps \ {d})
    BY <1>1, NetworkFewer
  <2> QED BY <1>6, <2>1, <2>2
<1>9. CASE RecalculateSchedule
  <2>1. task' = Recalculated(task, deps)
    BY <1>9, Zenon DEF RecalculateSchedule
  <2> QED BY <1>1, <1>6, <2>1
<1>10. CASE ChangeCalendar
  <2>1. task' = task
    BY <1>10 DEF ChangeCalendar
  <2> QED BY <2>1
<1> QED BY <1>2, <1>3, <1>4, <1>5, <1>7, <1>8, <1>9, <1>10, Zenon DEF Next, TaskStep

(* A task moved by its levelling starts no earlier, and keeps everything but its dates. *)
LEMMA ShiftedIs ==
    ASSUME calendar \in Calendars, NEW row \in Rows, row.start # None, NEW n \in Nat
    PROVE  /\ Shifted(row, n) \in Rows
           /\ Shifted(row, n).start \in Int /\ Shifted(row, n).start >= row.start
           /\ Shifted(row, n).end \in Int
<1>1. row.start \in Int /\ Days(row) \in Nat /\ n + 1 \in Nat /\ n + 1 > 0
  BY RowIs
<1>2. PICK start \in Int : start = AddWorkingDays(row.start, n + 1) /\ start >= row.start
  BY <1>1, AddDays
<1>3. PICK end \in Int : end = IF Days(row) = 0 THEN start ELSE AddWorkingDays(start, Days(row))
  <2>1. Days(row) \in Int
    BY <1>1
  <2>2. AddWorkingDays(start, Days(row)) \in Int
    BY <2>1, AddIsInt
  <2>3. (IF Days(row) = 0 THEN start ELSE AddWorkingDays(start, Days(row))) \in Int
    BY <2>2
  <2> QED BY <2>3
<1>4. Shifted(row, n) = [row EXCEPT !.start = start, !.end = end]
  BY <1>2, <1>3, Zenon DEF Shifted
<1>5. PICK w : w = [row EXCEPT !.start = start, !.end = end]
  OBVIOUS
<1>6. w \in Rows /\ w.start = start /\ w.end = end
  BY <1>5 DEF Rows, Dates
<1> QED BY <1>2, <1>4, <1>5, <1>6

(* Later starts honour what earlier ones did. *)
LEMMA HonouredLater ==
    ASSUME calendar \in Calendars, NEW d \in Dependencies, d.type \in {"FS", "SS"},
           NEW p \in EarlyDates, NEW s \in EarlyDates, NEW v \in EarlyDates,
           Honoured(d, p, s), v.es >= s.es
    PROVE  Honoured(d, p, v)
<1>1. PICK lag \in Int : lag = d.lag
  <2>1. d.lag \in Lags
    BY DEF Dependencies
  <2>2. Lags \subseteq Int
    BY ScheduleAssumption
  <2> QED BY <2>1, <2>2, Zenon
<1>2. PICK a \in Int, b \in Int : a = p.es /\ b = p.ef
  BY DEF EarlyDates
<1>3. PICK x \in Int, y \in Int : x = s.es /\ y = v.es /\ x <= y
  BY DEF EarlyDates
<1>4. b + 1 \in Int
  OBVIOUS
<1>5. /\ WorkingDaysBetween(a, x) <= WorkingDaysBetween(a, y)
      /\ WorkingDaysBetween(b + 1, x) <= WorkingDaysBetween(b + 1, y)
  BY <1>3, <1>4, CountGrows
<1>6. /\ WorkingDaysBetween(a, x) \in Nat /\ WorkingDaysBetween(a, y) \in Nat
      /\ WorkingDaysBetween(b + 1, x) \in Nat /\ WorkingDaysBetween(b + 1, y) \in Nat
  BY <1>4, CountIs
<1>7. CASE d.type = "FS"
  <2>1. WorkingDaysBetween(b + 1, x) > lag
    BY <1>1, <1>2, <1>3, <1>7 DEF Honoured
  <2>2. WorkingDaysBetween(b + 1, y) > lag
    BY <1>5, <1>6, <2>1
  <2> QED BY <1>1, <1>2, <1>3, <1>7, <2>2, Zenon DEF Honoured
<1>8. CASE d.type = "SS"
  <2>1. x >= a /\ WorkingDaysBetween(a, x) >= lag
    BY <1>1, <1>2, <1>3, <1>8 DEF Honoured
  <2>2. y >= a /\ WorkingDaysBetween(a, y) >= lag
    BY <1>3, <1>5, <1>6, <2>1
  <2> QED BY <1>1, <1>2, <1>3, <1>8, <2>2 DEF Honoured
<1> QED BY <1>7, <1>8

(* A task without successors that starts later breaks no dependency by its start. *)
LEMMA ShiftHonours ==
    ASSUME NetInv, NEW t \in Tasks, task[t] # None, task[t].start # None, task[t].end # None,
           NEW new \in Rows, new.start \in Int, new.end \in Int, new.start >= task[t].start,
           task' = [task EXCEPT ![t] = new],
           Types \subseteq {"FS", "SS"}, NEW d \in deps, d.pred # t, HonouredByRows(task, d)
    PROVE  HonouredByRows(task', d)
<1>1. /\ calendar \in Calendars /\ task \in [Tasks -> Rows \cup {None}] /\ d \in Dependencies
      /\ d.pred \in Tasks /\ d.succ \in Tasks /\ task[d.pred] # None
  BY NetInvIs, LinksTyped DEF Network
<1>3. task'[d.pred] = task[d.pred]
  BY <1>1
<1>4. CASE d.succ # t
  <2>1. task'[d.succ] = task[d.succ]
    BY <1>1, <1>4
  <2> QED BY <1>3, <2>1, Zenon DEF HonouredByRows
<1>5. CASE d.succ = t
  <2>1. PICK row \in Rows : row = task[t]
    BY <1>1
  <2>2. new.start \in Int /\ new.end \in Int /\ new.start >= row.start
    BY <2>1
  <2>3. task'[t] = new
    BY <1>1
  <2>4. PICK p \in Rows : p = task[d.pred]
    BY <1>1
  <2>5. CASE p.start = None \/ p.end = None
    BY <1>3, <2>4, <2>5, Zenon DEF HonouredByRows
  <2>6. CASE p.start # None /\ p.end # None
    <3>1. PICK a \in EarlyDates : a = [es |-> p.start, ef |-> p.end]
      <4>1. p.start \in Int /\ p.end \in Int
        BY <2>6, RowIs
      <4> QED BY <4>1 DEF EarlyDates
    <3>2. PICK s \in EarlyDates : s = [es |-> row.start, ef |-> row.end] /\ s.es = row.start
      <4>1. row.start # None /\ row.end # None
        BY <2>1
      <4>2. row.start \in Int /\ row.end \in Int
        BY <4>1, RowIs
      <4> QED BY <4>2, DatesPair
    <3>3. PICK v \in EarlyDates : v = [es |-> new.start, ef |-> new.end] /\ v.es = new.start
      BY <2>2, DatesPair
    <3>4. Honoured(d, a, s)
      BY <1>5, <2>1, <2>4, <2>6, <3>1, <3>2, Zenon DEF HonouredByRows
    <3>5. d.type \in {"FS", "SS"}
      BY <1>1 DEF Dependencies
    <3>6. v.es >= s.es
      BY <2>2, <3>2, <3>3
    <3>7. Honoured(d, a, v)
      BY <1>1, <3>4, <3>5, <3>6, HonouredLater
    <3> QED BY <1>3, <1>5, <2>3, <2>4, <3>1, <3>3, <3>7, Zenon DEF HonouredByRows
  <2> QED BY <2>5, <2>6
<1> QED BY <1>4, <1>5

(* The records of the runs *)

LEMMA RunIs ==
    ASSUME NEW run \in RunRecords
    PROVE  /\ run.hidden \in BOOLEAN
           /\ run.phase \in {"idle", "leveled", "refused", "reading", "writing"}
           /\ run.phase \in {"reading", "writing"} =>
                run.left \in Int /\ run.known \in SUBSET Dependencies
           /\ run.phase = "writing" => run.task \in Tasks /\ run.row \in Rows
BY DEF RunRecords

LEMMA PausedIs ==
    ASSUME NEW p \in {"idle", "leveled", "refused"}, NEW h \in BOOLEAN
    PROVE  /\ [phase |-> p, hidden |-> h] \in RunRecords
           /\ [phase |-> p, hidden |-> h].phase # "writing"
BY DEF RunRecords

LEMMA ReadingIs ==
    ASSUME NEW h \in BOOLEAN, NEW k \in Int, NEW links \in SUBSET Dependencies
    PROVE  /\ Reading(h, k, links) \in RunRecords
           /\ Reading(h, k, links).phase = "reading"
           /\ Reading(h, k, links).hidden = h /\ Reading(h, k, links).left = k
           /\ Reading(h, k, links).known = links
BY DEF RunRecords, Reading

LEMMA CancelledIs ==
    ASSUME NEW run \in RunRecords
    PROVE  LET new == [run EXCEPT !.hidden = TRUE]
           IN  /\ new \in RunRecords /\ new.phase = run.phase
               /\ run.phase = "writing" =>
                    new.task = run.task /\ new.row = run.row /\ new.known = run.known
<1>1. CASE run \in [phase : {"idle", "leveled", "refused"}, hidden : BOOLEAN]
  BY <1>1 DEF RunRecords
<1>2. CASE run \in [phase : {"reading"}, hidden : BOOLEAN, left : Int, known : SUBSET Dependencies]
  BY <1>2 DEF RunRecords
<1>3. CASE run \in [phase : {"writing"}, hidden : BOOLEAN, left : Int, known : SUBSET Dependencies,
                     task : Tasks, row : Rows]
  BY <1>3 DEF RunRecords
<1> QED BY <1>1, <1>2, <1>3 DEF RunRecords

(* A shift that is about to be committed. *)
LEMMA ShiftIsReady ==
    ASSUME NetInv, NEW run, run.hidden \in BOOLEAN, run.left \in Int,
           run.known \in SUBSET Dependencies, NEW t \in Tasks, NEW n \in Nat,
           task[t] # None, task[t].start # None, task[t].actualEnd = None,
           ~HasSuccessor(t, run.known)
    PROVE  /\ AboutToShift(run, t, n) \in RunRecords
           /\ ShiftReady(AboutToShift(run, t, n), task)
<1>1. calendar \in Calendars /\ task \in [Tasks -> Rows \cup {None}]
  BY NetInvIs
<1>2. PICK row \in Rows : row = task[t]
  BY <1>1
<1>3. PICK new \in Rows : /\ new = Shifted(task[t], n) /\ new.start \in Int
                          /\ new.end \in Int /\ new.start >= task[t].start
  BY <1>1, <1>2, ShiftedIs
<1>4. PICK w : w = AboutToShift(run, t, n)
  OBVIOUS
<1>5. w = [phase |-> "writing", hidden |-> run.hidden, left |-> run.left, known |-> run.known,
           task |-> t, row |-> new]
  BY <1>3, <1>4, Zenon DEF AboutToShift
<1>6. w \in RunRecords
  BY <1>5 DEF RunRecords
<1>7. w.task = t /\ w.row = new /\ w.known = run.known
  BY <1>5
<1>8. ShiftReady(w, task)
  BY <1>3, <1>7 DEF ShiftReady
<1> QED BY <1>4, <1>6, <1>8

(* What is written to a row is noticed by the shifts that have read it. *)
LEMMA RunsAfter ==
    ASSUME RunsOK, NEW S, \A t \in Tasks : t \notin S => task'[t] = task[t],
           leveling' = [q \in Runs |-> leveling'[q]],
           \A q \in Runs :
             \/ leveling'[q] = WhenWritten(S)[q]
             \/ /\ leveling'[q] \in RunRecords
                /\ leveling'[q].phase = "writing" => ShiftReady(leveling'[q], task')
    PROVE  RunsOK'
<1>1. ASSUME NEW q \in Runs, leveling'[q] = WhenWritten(S)[q]
      PROVE  /\ leveling'[q] \in RunRecords
             /\ leveling'[q].phase = "writing" => ShiftReady(leveling'[q], task')
  <2>1. PICK run \in RunRecords : run = leveling[q]
    BY DEF RunsOK
  <2>2. CASE run.phase = "writing" /\ run.task \in S
    <3>1. leveling'[q] = [phase |-> "refused", hidden |-> run.hidden]
      BY <1>1, <2>1, <2>2 DEF WhenWritten
    <3> QED BY <3>1, RunIs, PausedIs
  <2>3. CASE ~(run.phase = "writing" /\ run.task \in S)
    <3>1. leveling'[q] = run
      BY <1>1, <2>1, <2>3 DEF WhenWritten
    <3>2. ASSUME run.phase = "writing"
          PROVE  ShiftReady(run, task')
      <4>1. run.task \in Tasks /\ run.task \notin S
        BY <2>3, <3>2, RunIs
      <4>2. task'[run.task] = task[run.task]
        BY <4>1
      <4>3. ShiftReady(run, task)
        BY <2>1, <3>2 DEF RunsOK
      <4> QED BY <4>2, <4>3 DEF ShiftReady
    <3> QED BY <3>1, <3>2
  <2> QED BY <2>2, <2>3
<1>2. \A q \in Runs : /\ leveling'[q] \in RunRecords
                      /\ leveling'[q].phase = "writing" => ShiftReady(leveling'[q], task')
  BY <1>1
<1>3. leveling' \in [Runs -> RunRecords]
  BY <1>2
<1> QED BY <1>2, <1>3 DEF RunsOK, ShiftReady, HasSuccessor

(* ... and a recalculation writes all of them or none. *)
LEMMA RecalculationWrites ==
    ASSUME NEW links, task' = Recalculated(task, links)
    PROVE  \E S : /\ WhenRecalculated(links) = WhenWritten(S)
                  /\ \A t \in Tasks : t \notin S => task'[t] = task[t]
<1>1. CASE Recalculable(task, links)
  BY <1>1, Zenon DEF WhenRecalculated
<1>2. CASE ~Recalculable(task, links)
  <2>1. task' = task
    BY <1>2, Zenon DEF Recalculated
  <2>2. WhenRecalculated(links) = WhenWritten({})
    BY <1>2, Zenon DEF WhenRecalculated
  <2> QED BY <2>1, <2>2
<1> QED BY <1>1, <1>2

LEMMA ChosenIs ==
    ASSUME NEW d, NEW links, NEW t, t \in Chosen(d, links)
    PROVE  /\ t \in Tasks /\ task[t] # None /\ task[t].start # None
           /\ task[t].actualEnd = None /\ ~HasSuccessor(t, links)
BY Zenon DEF Chosen, Movable, WorksOn

(* The levelling writes rows, dates and loads of tasks that exist. *)
LEMMA LevelInvInit == LevelInit => LevelInv
<1> SUFFICES ASSUME LevelInit PROVE LevelInv
  OBVIOUS
<1>1. PICK plan \in Plans :
        task = [t \in Tasks |-> [start |-> plan[t].start, end |-> EndOf(plan[t].start, plan[t].duration),
                                duration |-> plan[t].duration, actualStart |-> None, actualEnd |-> None]]
  BY Zenon DEF LevelInit
<1>2. calendar \in Calendars
  <2>1. CalendarInit
    BY DEF LevelInit
  <2> QED BY <2>1, CalendarAssumption DEF CalendarInit, Calendars
<1>3. ASSUME NEW t \in Tasks
      PROVE  task[t] \in Rows /\ task[t] # None /\ (None \notin Durations => EndKnown(task[t]))
  <2>1. plan \in [Tasks -> [start : StartDates, duration : Durations]]
    BY LevelingAssumption
  <2>2. PICK start \in StartDates, duration \in Durations : start = plan[t].start /\ duration = plan[t].duration
    BY <2>1
  <2>3. start \in Int \cup {None}
    BY ScheduleAssumption
  <2>4. PICK end \in Int \cup {None} : end = EndOf(start, duration)
    BY <1>2, <2>3, EndOfIs
  <2>5. PICK row : row = [start |-> start, end |-> end, duration |-> duration,
                          actualStart |-> None, actualEnd |-> None]
    OBVIOUS
  <2>6. task[t] = row
    BY <1>1, <2>2, <2>4, <2>5
  <2>7. row \in Rows /\ row.start = start /\ row.end = end /\ row.actualEnd = None
    BY <2>3, <2>5 DEF Rows, Dates
  <2>8. start # None /\ duration # None => end # None
    BY <1>2, <2>3, <2>4, EndOfKnown
  <2> QED BY <2>6, <2>7, <2>8, ScheduleRowsAssumption DEF EndKnown
<1>4. task \in [Tasks -> Rows \cup {None}]
  <2>1. task = [t \in Tasks |-> task[t]]
    BY <1>1
  <2> QED BY <1>3, <2>1
<1>5. /\ deps = {} /\ edits = 0 /\ assigned \in Staffing
      /\ leveling = [r \in Runs |-> Idle] /\ checking = NotChecking
  BY DEF LevelInit
<1>6. NetInv
  <2>1. IsFiniteSet(deps) /\ deps \subseteq Dependencies
    BY <1>5, FS_EmptySet
  <2>2. NoCycle /\ DependenciesResolve
    BY <1>5 DEF NoCycle, DependenciesResolve, Acyclic
  <2>3. edits \in 0..MaxEdits
    BY <1>5, ScheduleAssumption
  <2> QED BY <1>2, <1>4, <2>1, <2>2, <2>3 DEF NetInv, NetworkSound, TypeOK
<1>7. LoadOK
  <2>1. assigned \in [Tasks -> 0..100]
    BY <1>5, LevelingAssumption
  <2> QED BY <1>3, <2>1 DEF LoadOK
<1>8. RunsOK
  <2>1. Idle \in RunRecords /\ Idle.phase # "writing"
    BY PausedIs DEF Idle
  <2> QED BY <1>5, <2>1 DEF RunsOK
<1>9. CheckOK
  BY <1>5 DEF CheckOK
<1>10. None \notin Durations => EndsKnown(task)
  BY <1>3 DEF EndsKnown
<1> QED BY <1>6, <1>7, <1>8, <1>9, <1>10 DEF LevelInv

(* A shift writes one row, with both dates. *)
LEMMA ShiftTyped ==
    ASSUME NetInv, NEW t \in Tasks, task[t] # None, NEW new \in Rows, new.end \in Int,
           task' = [task EXCEPT ![t] = new], UNCHANGED <<calendar, deps>>,
           edits' \in 0..MaxEdits
    PROVE  /\ NetInv'
           /\ \A u \in Tasks : task'[u] # None <=> task[u] # None
           /\ EndsKnown(task) => EndsKnown(task')
<1>1. /\ calendar \in Calendars /\ task \in [Tasks -> Rows \cup {None}]
      /\ Network(task, deps)
  BY NetInvIs
<1>4. new # None /\ new.end # None
  BY ScheduleRowsAssumption
<1>5. task' = [task EXCEPT ![t] = new]
  OBVIOUS
<1>6. task' \in [Tasks -> Rows \cup {None}]
  BY <1>1, <1>5
<1>7. \A u \in Tasks : task'[u] # None <=> task[u] # None
  BY <1>1, <1>4, <1>5
<1>8. EndKnown(new)
  BY <1>4 DEF EndKnown
<1>9. EndsKnown(task) => EndsKnown(task')
  BY <1>1, <1>5, <1>8, EndsWritten
<1>10. Network(task', deps')
  BY <1>1, <1>6, <1>7, NetworkKept
<1>11. calendar' \in Calendars
  BY <1>1
<1> QED BY <1>6, <1>7, <1>9, <1>10, <1>11, NetInvAfter

LEMMA RunChanges ==
    ASSUME RunsOK, NEW r \in Runs, NEW run \in RunRecords, task' = task,
           run.phase = "writing" => ShiftReady(run, task),
           leveling' = [leveling EXCEPT ![r] = run]
    PROVE  RunsOK'
<1>1. leveling' = [q \in Runs |-> IF q = r THEN run ELSE leveling[q]]
  BY DEF RunsOK
<1>2. leveling' \in [Runs -> RunRecords]
  BY <1>1 DEF RunsOK
<1>3. ASSUME NEW q \in Runs, leveling'[q].phase = "writing"
      PROVE  ShiftReady(leveling'[q], task')
  <2>1. CASE q = r
    BY <1>1, <1>3, <2>1
  <2>2. CASE q # r
    <3>1. leveling'[q] = leveling[q]
      BY <1>1, <2>2
    <3>2. ShiftReady(leveling[q], task)
      BY <1>3, <3>1 DEF RunsOK
    <3> QED BY <3>1, <3>2
  <2> QED BY <2>1, <2>2
<1> QED BY <1>2, <1>3 DEF RunsOK, ShiftReady, HasSuccessor

LEMMA RunWrites ==
    ASSUME RunsOK, NEW S, \A t \in Tasks : t \notin S => task'[t] = task[t],
           NEW r \in Runs, NEW run \in RunRecords, run.phase # "writing",
           leveling' = [WhenWritten(S) EXCEPT ![r] = run]
    PROVE  RunsOK'
<1>1. leveling' = [q \in Runs |-> IF q = r THEN run ELSE WhenWritten(S)[q]]
  BY DEF WhenWritten
<1>2. leveling' = [q \in Runs |-> leveling'[q]]
  BY <1>1
<1>3. \A q \in Runs : \/ leveling'[q] = WhenWritten(S)[q]
                      \/ leveling'[q] \in RunRecords /\ leveling'[q].phase # "writing"
  BY <1>1
<1> QED BY <1>2, <1>3, RunsAfter

(* A task is created, edited or deleted by writing its row. *)
LEMMA TaskStepWrites ==
    ASSUME task \in [Tasks -> Rows \cup {None}], NEW t \in Tasks, TaskStep(t)
    PROVE  \A u \in Tasks : u # t => task'[u] = task[u]
<1>1. \E row : task' = [task EXCEPT ![t] = row]
  BY Zenon DEF TaskStep, CreateTask, UpdateTask, UpdateProgress, DeleteTask
<1> QED BY <1>1

(* Load and fit as functions of the allocations. *)
BusyOn(load, rows, t, d) == /\ rows[t] # None /\ load[t] > 0
                            /\ rows[t].start # None /\ rows[t].end # None
                            /\ d \in rows[t].start..rows[t].end

LoadOn(load, rows, d) == SumFunctionOnSet(load, {t \in Tasks : BusyOn(load, rows, t, d)})

FitsWith(load, rows, t, a) ==
    (Strict /\ rows[t].start # None /\ rows[t].end # None /\ \E u \in Tasks : load[u] > 0) =>
        \A d \in rows[t].start..rows[t].end :
            d % 7 < 5 => SumFunctionOnSet(load, {u \in Tasks \ {t} : BusyOn(load, rows, u, d)})
                           + a <= Capacity

LEMMA FitsUnchanged ==
    ASSUME assigned' = assigned, NEW rows, NEW t, NEW a, Fits(rows, t, a)
    PROVE  Fits(rows, t, a)'
<1>1. Fits(rows, t, a) <=> FitsWith(assigned, rows, t, a)
  BY Zenon DEF Fits, FitsWith, WorksOn, BusyOn
<1>2. Fits(rows, t, a)' <=> FitsWith(assigned', rows, t, a)
  BY Zenon DEF Fits, FitsWith, WorksOn, BusyOn
<1> QED BY <1>1, <1>2

(* Every step of the runs, and of the window while they go on, keeps the invariant. *)
LEMMA LevelInvNext == LevelInv /\ [LevelNext]_levelVars => LevelInv'
<1> SUFFICES ASSUME LevelInv, [LevelNext]_levelVars PROVE LevelInv'
  OBVIOUS
<1>1. /\ NetInv /\ LoadOK /\ RunsOK /\ CheckOK /\ (None \notin Durations => EndsKnown(task))
      /\ calendar \in Calendars /\ task \in [Tasks -> Rows \cup {None}]
      /\ edits \in 0..MaxEdits /\ Network(task, deps) /\ deps \subseteq Dependencies
  BY NetInvIs DEF LevelInv, Network
<1>2. ASSUME UNCHANGED vars
      PROVE  /\ NetInv' /\ (None \notin Durations => EndsKnown(task')) /\ task' = task
  <2>1. calendar' = calendar /\ task' = task /\ deps' = deps /\ edits' = edits
    BY <1>2 DEF vars
  <2>2. NetInv'
    BY <1>1, <2>1, NetInvAfter
  <2> QED BY <1>1, <2>1, <2>2
<1>3. ASSUME UNCHANGED assigned, \A t \in Tasks : task'[t] # None <=> task[t] # None
      PROVE  LoadOK'
  BY <1>1, <1>3 DEF LoadOK
<1>4. ASSUME UNCHANGED <<assigned, checking>>, \A t \in Tasks : task'[t] # None <=> task[t] # None
      PROVE  CheckOK'
  <2> SUFFICES ASSUME checking' # NotChecking
               PROVE  /\ checking'.task \in Tasks /\ checking'.allocation \in Percentages
                      /\ checking'.rows \in [Tasks -> Rows \cup {None}]
                      /\ task'[checking'.task] # None
                      /\ Fits(checking.rows, checking.task, checking.allocation)'
    BY DEF CheckOK
  <2>1. PICK rows, t, a : rows = checking.rows /\ t = checking.task /\ a = checking.allocation
    OBVIOUS
  <2>2. checking # NotChecking /\ checking' = checking
    BY <1>4 DEF NotChecking
  <2>3. /\ t \in Tasks /\ a \in Percentages /\ rows \in [Tasks -> Rows \cup {None}]
        /\ task[t] # None /\ Fits(rows, t, a)
    BY <1>1, <2>1, <2>2, Zenon DEF CheckOK
  <2>4. Fits(rows, t, a)'
    BY <1>4, <2>3, FitsUnchanged
  <2>5. checking'.rows = rows /\ checking'.task = t /\ checking'.allocation = a
    BY <2>1, <2>2
  <2>6. Fits(checking.rows, checking.task, checking.allocation)'
    BY <2>4, <2>5, Zenon DEF Fits, WorksOn
  <2> QED BY <1>4, <2>3, <2>5, <2>6
<1>5. ASSUME checking' = NotChecking
      PROVE  CheckOK'
  BY <1>5 DEF CheckOK, NotChecking
<1>6. ASSUME WindowFree, UNCHANGED checking
      PROVE  CheckOK'
  BY <1>5, <1>6 DEF WindowFree
<1>7. ASSUME leveling' = leveling, task' = task
      PROVE  RunsOK'
  BY <1>1, <1>7 DEF RunsOK, ShiftReady, HasSuccessor
<1>8. ASSUME NEW t \in Tasks, NEW a \in Percentages, CheckLoad(t, a)
      PROVE  LevelInv'
  <2>1. UNCHANGED vars /\ UNCHANGED leveling /\ UNCHANGED assigned
    BY <1>8 DEF CheckLoad
  <2>2. /\ task[t] # None /\ Fits(task, t, a)
        /\ checking' = [task |-> t, allocation |-> a, rows |-> task]
    BY <1>8 DEF CheckLoad
  <2>3. NetInv' /\ (None \notin Durations => EndsKnown(task')) /\ task' = task
    BY <1>2, <2>1
  <2>4. CheckOK'
    <3>1. PICK rows : rows = task
      OBVIOUS
    <3>2. checking'.rows = rows /\ checking'.task = t /\ checking'.allocation = a
      BY <2>2, <3>1
    <3>3. Fits(rows, t, a)'
      BY <2>1, <2>2, <3>1, FitsUnchanged
    <3>4. Fits(checking.rows, checking.task, checking.allocation)'
      BY <3>2, <3>3, Zenon DEF Fits, WorksOn
    <3> QED BY <1>1, <2>2, <2>3, <3>1, <3>2, <3>4 DEF CheckOK
  <2> QED BY <1>3, <1>7, <2>1, <2>3, <2>4 DEF LevelInv
<1>9. CASE AssignLoad
  <2>1. UNCHANGED vars /\ UNCHANGED leveling /\ checking # NotChecking /\ checking' = NotChecking
    BY <1>9 DEF AssignLoad
  <2>2. assigned' = [assigned EXCEPT ![checking.task] = checking.allocation]
    BY <1>9 DEF AssignLoad
  <2>3. NetInv' /\ (None \notin Durations => EndsKnown(task')) /\ task' = task
    BY <1>2, <2>1
  <2>4. checking.task \in Tasks /\ checking.allocation \in Nat /\ task[checking.task] # None
    <3>1. checking.task \in Tasks /\ checking.allocation \in Percentages /\ task[checking.task] # None
      BY <1>1, <2>1, Zenon DEF CheckOK
    <3>2. Percentages \subseteq Nat
      BY LevelingAssumption
    <3> QED BY <3>1, <3>2, Zenon
  <2>5. LoadOK'
    BY <1>1, <2>2, <2>3, <2>4 DEF LoadOK
  <2> QED BY <1>5, <1>7, <2>1, <2>3, <2>5 DEF LevelInv
<1>10. ASSUME NEW t \in Tasks, SetProgress(t)
       PROVE  LevelInv'
  <2>1. /\ UNCHANGED vars /\ UNCHANGED assigned /\ UNCHANGED checking /\ WindowFree
        /\ leveling' = WhenWritten({t})
    BY <1>10 DEF SetProgress
  <2>2. NetInv' /\ (None \notin Durations => EndsKnown(task')) /\ task' = task
    BY <1>2, <2>1
  <2>3. leveling' = [q \in Runs |-> leveling'[q]]
    BY <2>1 DEF WhenWritten
  <2>4. RunsOK'
    BY <1>1, <2>1, <2>2, <2>3, RunsAfter
  <2> QED BY <1>3, <1>6, <2>1, <2>2, <2>4 DEF LevelInv
<1>11. ASSUME NEW t \in Tasks, EditTask(t)
       PROVE  LevelInv'
  <2>1. /\ WindowFree /\ TaskStep(t) /\ UNCHANGED checking
        /\ leveling' = WhenWritten({t})
    BY <1>11 DEF EditTask
  <2>2. assigned' = [u \in Tasks |-> IF task'[u] = None THEN 0 ELSE assigned[u]]
    BY <1>11 DEF EditTask
  <2>3. LoadOK'
    BY <1>1, <2>2 DEF LoadOK
  <2>4. Next
    BY <2>1 DEF Next
  <2>5. NetInv' /\ (None \notin Durations => EndsKnown(task'))
    BY <1>1, <2>4, NetInvNext, EndsKnownNext
  <2>6. \A u \in Tasks : u \notin {t} => task'[u] = task[u]
    BY <1>1, <2>1, TaskStepWrites
  <2>7. leveling' = [q \in Runs |-> leveling'[q]]
    BY <2>1 DEF WhenWritten
  <2>8. RunsOK'
    BY <1>1, <2>1, <2>6, <2>7, RunsAfter
  <2> QED BY <1>6, <2>1, <2>3, <2>5, <2>8 DEF LevelInv
<1>12. ASSUME Network(task, deps'), task' = Recalculated(task, deps'), edits' \in 0..MaxEdits,
              UNCHANGED <<calendar, assigned>>
       PROVE  /\ NetInv' /\ LoadOK' /\ (None \notin Durations => EndsKnown(task'))
              /\ \A u \in Tasks : task'[u] # None <=> task[u] # None
  <2>1. NetInv' /\ \A u \in Tasks : task'[u] # None <=> task[u] # None
    BY <1>1, <1>12, Rescheduled
  <2>2. PICK D : D = deps'
    OBVIOUS
  <2>3. EndsKnown(task) => EndsKnown(task')
    BY <1>1, <1>12, <2>2, EndsRecalculated
  <2> QED BY <1>1, <1>3, <1>12, <2>1, <2>3
<1>13. CASE EditNetwork
  <2>1. /\ WindowFree /\ UNCHANGED <<assigned, checking>>
        /\ leveling' = WhenRecalculated(deps')
    BY <1>13, Zenon DEF EditNetwork
  <2>2. /\ Network(task, deps') /\ task' = Recalculated(task, deps')
        /\ edits' \in 0..MaxEdits /\ UNCHANGED calendar
    <3>1. ASSUME NEW p \in Tasks, NEW s \in Tasks, NEW type \in Types, NEW lag \in Lags,
                 AddDependency(p, s, type, lag)
          PROVE  <2>2
      <4>1. PICK n \in Dependencies : n = [pred |-> p, succ |-> s, type |-> type, lag |-> lag]
        BY DEF Dependencies
      <4>2. deps' = deps \cup {n} /\ task' = Recalculated(task, deps')
        BY <3>1, <4>1, Zenon DEF AddDependency
      <4>3. DependencyValid(p, s) /\ task[p] # None /\ task[s] # None /\ UNCHANGED <<calendar, edits>>
        BY <3>1, Zenon DEF AddDependency
      <4>4. n.pred = p /\ n.succ = s
        BY <4>1
      <4>5. Network(task, deps \cup {n})
        BY <1>1, <4>3, <4>4, NetworkMore
      <4> QED BY <1>1, <4>2, <4>3, <4>5
    <3>2. ASSUME NEW d \in deps, RemoveDependency(d)
          PROVE  <2>2
      <4>1. deps' = deps \ {d} /\ task' = Recalculated(task, deps') /\ Edit /\ UNCHANGED calendar
        BY <3>2, Zenon DEF RemoveDependency
      <4>2. Network(task, deps \ {d})
        BY <1>1, NetworkFewer
      <4>3. edits' \in 0..MaxEdits
        BY <1>1, <4>1, ScheduleAssumption DEF Edit
      <4> QED BY <4>1, <4>2, <4>3
    <3>3. CASE RecalculateSchedule
      <4>1. task' = Recalculated(task, deps) /\ UNCHANGED <<calendar, deps, edits>>
        BY <3>3, Zenon DEF RecalculateSchedule
      <4> QED BY <1>1, <4>1
    <3> QED BY <1>13, <3>1, <3>2, <3>3, Zenon DEF EditNetwork
  <2>3. /\ NetInv' /\ LoadOK' /\ (None \notin Durations => EndsKnown(task'))
    BY <1>12, <2>1, <2>2
  <2>4. PICK S : /\ WhenRecalculated(deps') = WhenWritten(S)
                 /\ \A t \in Tasks : t \notin S => task'[t] = task[t]
    BY <2>2, RecalculationWrites
  <2>5. leveling' = [q \in Runs |-> leveling'[q]]
    BY <2>1, <2>4 DEF WhenWritten
  <2>6. RunsOK'
    BY <1>1, <2>1, <2>4, <2>5, RunsAfter
  <2> QED BY <1>6, <2>1, <2>3, <2>6 DEF LevelInv
<1>14. ASSUME NEW D, Network(task, D), deps' = D, UNCHANGED <<calendar, task>>,
              edits' \in 0..MaxEdits, UNCHANGED <<assigned, leveling, checking>>
       PROVE  LevelInv'
  <2>1. NetInv'
    BY <1>1, <1>14, NetInvAfter
  <2> QED BY <1>1, <1>3, <1>4, <1>7, <1>14, <2>1 DEF LevelInv
<1>15. ASSUME NEW p \in Tasks, NEW s \in Tasks, NEW type \in Types, NEW lag \in Lags,
              LinkTasks(p, s, type, lag)
       PROVE  LevelInv'
  <2>1. PICK n \in Dependencies : n = [pred |-> p, succ |-> s, type |-> type, lag |-> lag]
    BY DEF Dependencies
  <2>2. /\ DependencyValid(p, s) /\ task[p] # None /\ task[s] # None
        /\ deps' = deps \cup {n} /\ UNCHANGED <<calendar, task, edits, assigned, leveling, checking>>
    BY <1>15, <2>1, Zenon DEF LinkTasks
  <2>3. n.pred = p /\ n.succ = s
    BY <2>1
  <2>4. Network(task, deps \cup {n})
    BY <1>1, <2>2, <2>3, NetworkMore
  <2> QED BY <1>1, <1>14, <2>2, <2>4
<1>16. ASSUME NEW d \in deps, UnlinkTasks(d)
       PROVE  LevelInv'
  <2>1. /\ deps' = deps \ {d} /\ Edit
        /\ UNCHANGED <<calendar, task, assigned, leveling, checking>>
    BY <1>16 DEF UnlinkTasks
  <2>2. Network(task, deps \ {d})
    BY <1>1, NetworkFewer
  <2>3. edits' \in 0..MaxEdits
    BY <1>1, <2>1, ScheduleAssumption DEF Edit
  <2> QED BY <1>14, <2>1, <2>2, <2>3
<1>17. CASE EditCalendar
  <2>1. ChangeCalendar /\ UNCHANGED <<assigned, leveling, checking>>
    BY <1>17 DEF EditCalendar
  <2>2. Next /\ task' = task
    BY <2>1 DEF Next, ChangeCalendar
  <2>3. NetInv'
    BY <1>1, <2>2, NetInvNext
  <2> QED BY <1>1, <1>3, <1>4, <1>7, <2>1, <2>2, <2>3 DEF LevelInv
<1>18. ASSUME NEW r \in Runs, NEW run \in RunRecords,
              run.phase = "writing" => ShiftReady(run, task),
              leveling' = [leveling EXCEPT ![r] = run],
              NetInv', UNCHANGED <<task, assigned, checking>>
       PROVE  LevelInv'
  <2>1. RunsOK'
    BY <1>1, <1>18, RunChanges
  <2> QED BY <1>1, <1>3, <1>4, <1>18, <2>1 DEF LevelInv
<1>19. ASSUME NEW r \in Runs, Cancel(r)
       PROVE  LevelInv'
  <2>1. PICK run \in RunRecords : run = leveling[r]
    BY <1>1 DEF RunsOK
  <2>2. PICK new : new = [run EXCEPT !.hidden = TRUE]
    OBVIOUS
  <2>3. leveling' = [leveling EXCEPT ![r] = new]
    BY <1>1, <1>19, <2>1, <2>2 DEF Cancel, RunsOK
  <2>4. /\ new \in RunRecords /\ new.phase = run.phase
        /\ run.phase = "writing" =>
             new.task = run.task /\ new.row = run.row /\ new.known = run.known
    BY <2>2, CancelledIs
  <2>5. new.phase = "writing" => ShiftReady(new, task)
    BY <1>1, <2>1, <2>4 DEF RunsOK, ShiftReady
  <2>6. UNCHANGED vars /\ UNCHANGED <<assigned, checking>>
    BY <1>19 DEF Cancel
  <2> QED BY <1>2, <1>18, <2>3, <2>4, <2>5, <2>6
<1>20. ASSUME NEW r \in Runs, NEW run \in RunRecords, Start(r, run),
              run.phase = "writing" => ShiftReady(run, task)
       PROVE  LevelInv'
  <2>1. /\ Edit /\ leveling' = [leveling EXCEPT ![r] = run]
        /\ UNCHANGED <<calendar, task, deps, assigned, checking>>
    BY <1>20 DEF Start
  <2>2. edits' \in 0..MaxEdits
    BY <1>1, <2>1, ScheduleAssumption DEF Edit
  <2>3. NetInv'
    BY <1>1, <2>1, <2>2, NetInvAfter
  <2> QED BY <1>18, <1>20, <2>1, <2>3
<1>21. ASSUME NEW r \in Runs, StartLeveling(r)
       PROVE  LevelInv'
  <2>1. PICK run \in RunRecords : run = Reading(FALSE, MaxIterations, deps) /\ run.phase = "reading"
    <3>1. MaxIterations \in Int /\ deps \in SUBSET Dependencies /\ FALSE \in BOOLEAN
      BY <1>1, LevelingAssumption
    <3>2. /\ Reading(FALSE, MaxIterations, deps) \in RunRecords
          /\ Reading(FALSE, MaxIterations, deps).phase = "reading"
      BY <3>1, ReadingIs, Zenon
    <3> QED BY <3>2
  <2>2. Start(r, run)
    BY <1>21, <2>1, ReadingIs DEF StartLeveling
  <2> QED BY <1>20, <2>1, <2>2
<1>22. ASSUME NEW r \in Runs, NEW t \in Tasks, NEW n \in 1..MaxShift, StartManualShift(r, t, n)
       PROVE  LevelInv'
  <2>1. PICK from : from = Reading(FALSE, 1, deps)
    OBVIOUS
  <2>2. from.hidden \in BOOLEAN /\ from.left \in Int /\ from.known = deps
    <3>1. 1 \in Int /\ deps \in SUBSET Dependencies /\ FALSE \in BOOLEAN
      BY <1>1
    <3>2. from.hidden = FALSE /\ from.left = 1 /\ from.known = deps
      BY <2>1, <3>1, ReadingIs, Zenon
    <3> QED BY <3>1, <3>2
  <2>3. PICK run : run = AboutToShift(from, t, n)
    OBVIOUS
  <2>4. /\ task[t] # None /\ task[t].start # None /\ task[t].actualEnd = None
        /\ ~HasSuccessor(t, deps) /\ Start(r, run)
    BY <1>22, <2>1, <2>3, Zenon DEF StartManualShift
  <2>5. n \in Nat
    BY LevelingAssumption
  <2>6. run \in RunRecords /\ ShiftReady(run, task)
    <3>1. from.known \in SUBSET Dependencies /\ ~HasSuccessor(t, from.known)
      BY <1>1, <2>2, <2>4
    <3> QED BY <1>1, <2>2, <2>3, <2>4, <2>5, <3>1, ShiftIsReady
  <2> QED BY <1>20, <2>4, <2>6
<1>23. ASSUME NEW r \in Runs, NEW t \in Tasks, ChooseTask(r, t)
       PROVE  LevelInv'
  <2>1. PICK from \in RunRecords : from = leveling[r]
    BY <1>1 DEF RunsOK
  <2>2. PICK run : run = AboutToShift(from, t, 1)
    OBVIOUS
  <2>3. /\ from.phase = "reading" /\ t \in Chosen(TopConflict, from.known)
        /\ UNCHANGED vars /\ UNCHANGED <<assigned, checking>>
    BY <1>23, <2>1, Zenon DEF ChooseTask
  <2>4. leveling' = [leveling EXCEPT ![r] = run]
    BY <1>1, <1>23, <2>1, <2>2, Zenon DEF ChooseTask, RunsOK
  <2>5. /\ task[t] # None /\ task[t].start # None /\ task[t].actualEnd = None
        /\ ~HasSuccessor(t, from.known)
    BY <2>3, ChosenIs
  <2>6. from.hidden \in BOOLEAN /\ from.left \in Int /\ from.known \in SUBSET Dependencies
    BY <2>1, <2>3, RunIs
  <2>7. run \in RunRecords /\ ShiftReady(run, task)
    BY <1>1, <2>2, <2>5, <2>6, ShiftIsReady
  <2> QED BY <1>2, <1>18, <2>3, <2>4, <2>7
<1>24. ASSUME NEW r \in Runs, CommitShift(r)
       PROVE  LevelInv'
  <2>1. PICK run \in RunRecords : run = leveling[r]
    BY <1>1 DEF RunsOK
  <2>2. PICK new : new = Reading(run.hidden, run.left - 1, run.known)
    OBVIOUS
  <2>3. /\ run.phase = "writing" /\ task' = [task EXCEPT ![run.task] = run.row]
        /\ leveling' = [WhenWritten({run.task}) EXCEPT ![r] = new]
        /\ UNCHANGED <<calendar, deps, edits, assigned, checking>>
    BY <1>24, <2>1, <2>2, Zenon DEF CommitShift
  <2>4. /\ run.task \in Tasks /\ run.row \in Rows /\ run.left \in Int /\ run.hidden \in BOOLEAN
        /\ run.known \in SUBSET Dependencies
    BY <2>1, <2>3, RunIs
  <2>5. new \in RunRecords /\ new.phase # "writing"
    BY <2>2, <2>4, ReadingIs
  <2>6. ShiftReady(run, task)
    BY <1>1, <2>1, <2>3 DEF RunsOK
  <2>7. /\ NetInv'
        /\ \A u \in Tasks : task'[u] # None <=> task[u] # None
        /\ EndsKnown(task) => EndsKnown(task')
    <3>1. task[run.task] # None /\ run.row.end \in Int
      BY <2>6 DEF ShiftReady
    <3>2. edits' \in 0..MaxEdits
      BY <1>1, <2>3
    <3> QED BY <1>1, <2>3, <2>4, <3>1, <3>2, ShiftTyped
  <2>8. \A u \in Tasks : u \notin {run.task} => task'[u] = task[u]
    BY <1>1, <2>3
  <2>9. RunsOK'
    BY <1>1, <2>3, <2>5, <2>8, RunWrites
  <2> QED BY <1>1, <1>3, <1>4, <2>3, <2>7, <2>9 DEF LevelInv
<1>25. ASSUME NEW r \in Runs, EndLoop(r)
       PROVE  LevelInv'
  <2>1. PICK run \in RunRecords : run = leveling[r]
    BY <1>1 DEF RunsOK
  <2>2. PICK new : new = [phase |-> "leveled", hidden |-> run.hidden]
    OBVIOUS
  <2>3. /\ leveling' = [leveling EXCEPT ![r] = new]
        /\ UNCHANGED vars /\ UNCHANGED <<assigned, checking>>
    BY <1>25, <2>1, <2>2, Zenon DEF EndLoop
  <2>4. new \in RunRecords /\ new.phase # "writing"
    BY <2>1, <2>2, RunIs, PausedIs
  <2> QED BY <1>2, <1>18, <2>3, <2>4
<1>26. ASSUME NEW r \in Runs, RecalculateAfter(r)
       PROVE  LevelInv'
  <2>1. /\ task' = Recalculated(task, deps)
        /\ leveling' = [WhenRecalculated(deps) EXCEPT ![r] = Idle]
        /\ UNCHANGED <<calendar, deps, edits, assigned, checking>>
    BY <1>26, Zenon DEF RecalculateAfter
  <2>2. /\ NetInv' /\ LoadOK' /\ (None \notin Durations => EndsKnown(task'))
        /\ \A u \in Tasks : task'[u] # None <=> task[u] # None
    BY <1>1, <1>12, <2>1
  <2>3. PICK S : /\ WhenRecalculated(deps) = WhenWritten(S)
                 /\ \A t \in Tasks : t \notin S => task'[t] = task[t]
    BY <2>1, RecalculationWrites
  <2>4. Idle \in RunRecords /\ Idle.phase # "writing"
    BY PausedIs DEF Idle
  <2>5. RunsOK'
    BY <1>1, <2>1, <2>3, <2>4, RunWrites
  <2> QED BY <1>4, <2>1, <2>2, <2>5 DEF LevelInv
<1>27. ASSUME NEW r \in Runs, RunLost(r)
       PROVE  LevelInv'
  <2>1. /\ leveling' = [leveling EXCEPT ![r] = Idle]
        /\ UNCHANGED vars /\ UNCHANGED <<assigned, checking>>
    BY <1>27 DEF RunLost
  <2>2. Idle \in RunRecords /\ Idle.phase # "writing"
    BY PausedIs DEF Idle
  <2> QED BY <1>2, <1>18, <2>1, <2>2
<1>28. CASE UNCHANGED levelVars
  <2>1. UNCHANGED vars /\ UNCHANGED <<assigned, checking>> /\ leveling' = leveling
    BY <1>28 DEF levelVars, vars
  <2> QED BY <1>2, <1>3, <1>4, <1>7, <2>1 DEF LevelInv
<1>29. ASSUME NEW r \in Runs, RunStep(r)
       PROVE  LevelInv'
  BY <1>19, <1>21, <1>22, <1>23, <1>24, <1>25, <1>26, <1>27, <1>29 DEF RunStep
<1> QED BY <1>8, <1>9, <1>10, <1>11, <1>13, <1>15, <1>16, <1>17, <1>28, <1>29 DEF LevelNext

(* In every reachable state the network is sound, only tasks that exist carry a load, and
   a shift that waits for its commit moves its task as it is stored to a later start, for
   a task without successors among the dependencies the run has read, whatever was edited
   since, by any number of runs at a time. *)
THEOREM LevelInvariant == LevelSpec => []LevelInv
<1> QED BY LevelInvInit, LevelInvNext, PTL DEF LevelSpec

(* LevelingKeepsDependencies: a shift, automatic or by hand, breaks no finish-to-start and
   no start-to-start dependency that its run has read and the stored dates honour, when
   every task has a duration, though the dialog is hidden and rows and dependencies are
   edited between its commits (auto_level_resources, resolve_resource_conflict_manual).
   A dependency on the finish is honoured by the end of the successor, which a shift
   computes anew. *)
THEOREM ShiftsKeepDependencies ==
    ASSUME Types \subseteq {"FS", "SS"}, None \notin Durations
    PROVE  LevelSpec => LevelingKeepsDependencies
<1> DEFINE Holds == \A r \in Runs :
                      (leveling[r].phase = "writing" /\ leveling'[r].phase = "reading") =>
                        \A d \in deps \cap leveling[r].known :
                            HonouredByRows(task, d) => HonouredByRows(task', d)
<1>1. LevelInv /\ [LevelNext]_levelVars => Holds
  <2> SUFFICES ASSUME LevelInv, [LevelNext]_levelVars, NEW r \in Runs,
                      leveling[r].phase = "writing", leveling'[r].phase = "reading",
                      NEW d \in deps \cap leveling[r].known, HonouredByRows(task, d)
               PROVE  HonouredByRows(task', d)
    OBVIOUS
  <2>1. NetInv /\ RunsOK /\ EndsKnown(task) /\ leveling[r] \in RunRecords
    BY DEF LevelInv, RunsOK
  <2>2. ASSUME NEW S, leveling'[r] = WhenWritten(S)[r]
        PROVE  FALSE
    BY <2>2 DEF WhenWritten
  <2>3. ASSUME leveling' = leveling
        PROVE  FALSE
    BY <2>3
  <2>4. ASSUME task' = task
        PROVE  HonouredByRows(task', d)
    BY <2>4
  <2>5. ASSUME NEW t \in Tasks, \E a \in Percentages : CheckLoad(t, a)
        PROVE  FALSE
    BY <2>3, <2>5 DEF CheckLoad
  <2>6. ASSUME NEW t \in Tasks, SetProgress(t) \/ EditTask(t)
        PROVE  FALSE
    BY <2>2, <2>6 DEF SetProgress, EditTask
  <2>7. CASE EditNetwork
    <3>1. leveling' = WhenRecalculated(deps')
      BY <2>7, Zenon DEF EditNetwork
    <3>2. PICK S : WhenRecalculated(deps') = WhenWritten(S)
      BY Zenon DEF WhenRecalculated
    <3> QED BY <2>2, <3>1, <3>2
  <2>8. ASSUME NEW p \in Tasks, NEW s \in Tasks, NEW type \in Types, NEW lag \in Lags,
               LinkTasks(p, s, type, lag)
        PROVE  FALSE
    BY <2>3, <2>8 DEF LinkTasks
  <2>9. CASE AssignLoad \/ EditCalendar \/ UNCHANGED levelVars \/ \E e \in deps : UnlinkTasks(e)
    BY <2>3, <2>9 DEF AssignLoad, EditCalendar, UnlinkTasks, levelVars
  <2>10. ASSUME NEW q \in Runs, CommitShift(q)
         PROVE  HonouredByRows(task', d)
    <3>1. PICK run \in RunRecords : run = leveling[q]
      BY <2>1 DEF RunsOK
    <3>2. PICK new : new = Reading(run.hidden, run.left - 1, run.known)
      OBVIOUS
    <3>3. /\ run.phase = "writing" /\ task' = [task EXCEPT ![run.task] = run.row]
          /\ leveling' = [WhenWritten({run.task}) EXCEPT ![q] = new]
      BY <2>10, <3>1, <3>2, Zenon DEF CommitShift
    <3>4. q = r
      <4>1. q # r => leveling'[r] = WhenWritten({run.task})[r]
        BY <3>3 DEF WhenWritten
      <4> QED BY <2>2, <4>1
    <3>5. ShiftReady(run, task)
      BY <2>1, <3>1, <3>3 DEF RunsOK
    <3>6. run.task \in Tasks /\ run.row \in Rows
      BY <3>3, RunIs
    <3>7. /\ task[run.task] # None /\ task[run.task].start # None
          /\ task[run.task].actualEnd = None
          /\ run.row.start \in Int /\ run.row.end \in Int /\ run.row.start >= task[run.task].start
      BY <3>5 DEF ShiftReady
    <3>8. task[run.task].end # None
      BY <2>1, <3>6, <3>7 DEF EndsKnown, EndKnown
    <3>9. d \in deps /\ d.pred # run.task
      BY <3>1, <3>4, <3>5 DEF ShiftReady, HasSuccessor
    <3>10. PICK t \in Tasks, row \in Rows : t = run.task /\ row = run.row
      BY <3>6
    <3> QED BY <2>1, <3>3, <3>7, <3>8, <3>9, <3>10, ShiftHonours
  <2>11. ASSUME NEW q \in Runs, Cancel(q) \/ StartLeveling(q) \/ EndLoop(q) \/ RunLost(q)
         PROVE  HonouredByRows(task', d)
    BY <2>4, <2>11 DEF Cancel, StartLeveling, Start, EndLoop, RunLost, vars
  <2>12. ASSUME NEW q \in Runs, NEW t \in Tasks,
                ChooseTask(q, t) \/ \E n \in 1..MaxShift : StartManualShift(q, t, n)
         PROVE  HonouredByRows(task', d)
    <3>1. task' = task
      BY <2>12, Zenon DEF ChooseTask, StartManualShift, Start, vars
    <3> QED BY <2>4, <3>1
  <2>13. ASSUME NEW q \in Runs, RecalculateAfter(q)
         PROVE  FALSE
    <3>1. PICK S : WhenRecalculated(deps) = WhenWritten(S)
      BY Zenon DEF WhenRecalculated
    <3>2. leveling' = [WhenWritten(S) EXCEPT ![q] = Idle]
      BY <2>13, <3>1, Zenon DEF RecalculateAfter
    <3>3. leveling'[r] = Idle \/ leveling'[r] = WhenWritten(S)[r]
      BY <3>2 DEF WhenWritten
    <3> QED BY <2>2, <3>3 DEF Idle
  <2>14. ASSUME NEW q \in Runs, RunStep(q)
         PROVE  HonouredByRows(task', d)
    BY <2>10, <2>11, <2>12, <2>13, <2>14 DEF RunStep
  <2> QED BY <2>5, <2>6, <2>7, <2>8, <2>9, <2>14 DEF LevelNext
<1> QED BY <1>1, LevelInvariant, PTL DEF LevelSpec, LevelingKeepsDependencies

(* StrictPolicyHolds: under the strict policy an assignment makes no new conflict in the
   schedule it was checked against, when no single allocation exceeds the capacity (the
   check is skipped while nobody is assigned) and the week has no working day after Friday
   (the check counts Monday to Friday: _check_resource_overallocation). *)
THEOREM StrictAssignments ==
    ASSUME Strict, \A a \in Percentages : a <= Capacity,
           \A pattern \in WeekPatterns : pattern \subseteq 0..4
    PROVE  LevelSpec => StrictPolicyHolds
<1> DEFINE Held == (assigned' # assigned /\ checking # NotChecking) =>
                     \A rows \in {checking.rows} : Conflicts(rows)' \subseteq Conflicts(rows)
<1>1. LevelInv /\ [LevelNext]_levelVars => Held
  <2> SUFFICES ASSUME LevelInv, [LevelNext]_levelVars, assigned' # assigned,
                      checking # NotChecking, NEW rows, rows = checking.rows,
                      NEW d, d \in Conflicts(rows)'
               PROVE  d \in Conflicts(rows)
    OBVIOUS
  <2>1. LoadOK /\ NetInv /\ CheckOK
    BY DEF LevelInv
  <2>2. CASE AssignLoad
    <3>1. PICK t \in Tasks, a \in Percentages : t = checking.task /\ a = checking.allocation
      BY <2>1, Zenon DEF CheckOK
    <3>2. /\ Fits(rows, t, a) /\ assigned' = [assigned EXCEPT ![t] = a] /\ calendar' = calendar
      BY <2>1, <2>2, <3>1, Zenon DEF AssignLoad, vars, CheckOK
    <3>3. a \in Nat /\ a > 0 /\ a <= Capacity /\ Capacity \in Nat /\ IsFiniteSet(Tasks)
      BY LevelingAssumption, ScheduleAssumption
    <3>4. PICK load, new : load = assigned /\ new = assigned'
      OBVIOUS
    <3>5. PICK W : W = {u \in Tasks \ {t} : BusyOn(load, rows, u, d)}
      OBVIOUS
    <3>6. PICK others : others = SumFunctionOnSet(load, W)
      OBVIOUS
    <3>7. load \in [Tasks -> Nat] /\ new = [load EXCEPT ![t] = a]
      BY <2>1, <3>2, <3>4 DEF LoadOK
    <3>8. \/ BusyOn(new, rows, t, d) /\ LoadOn(new, rows, d) = a + others
          \/ LoadOn(new, rows, d) = others /\ LoadOn(load, rows, d) = others
      <4>1. PICK V : V = {u \in Tasks : BusyOn(new, rows, u, d)}
        OBVIOUS
      <4>2. LoadOn(new, rows, d) = SumFunctionOnSet(new, V)
        BY <4>1 DEF LoadOn
      <4>3. new[t] = a /\ \A u \in Tasks \ {t} : new[u] = load[u]
        BY <3>3, <3>7
      <4>4. \A u \in Tasks : new[u] \in Nat /\ load[u] \in Nat
        BY <3>3, <3>7
      <4>5. \A u \in Tasks \ {t} : BusyOn(new, rows, u, d) <=> BusyOn(load, rows, u, d)
        BY <3>3, <4>3 DEF BusyOn
      <4>6. IsFiniteSet(W) /\ IsFiniteSet(V)
        <5>1. W \subseteq Tasks /\ V \subseteq Tasks
          BY <3>5, <4>1
        <5> QED BY <3>3, <5>1, FS_Subset
      <4>7. SumFunctionOnSet(new, W) = others
        <5>1. \A u \in W : new[u] = load[u]
          BY <3>5, <4>3
        <5>2. SumFunctionOnSet(new, W) = SumFunctionOnSet(load, W)
          BY <4>6, <5>1, SumSame, Zenon
        <5> QED BY <3>6, <5>2
      <4>8. CASE BusyOn(new, rows, t, d)
        <5>1. t \in V /\ V \ {t} = W
          BY <3>5, <4>1, <4>5, <4>8
        <5>2. \A u \in V : new[u] \in Int
          BY <4>1, <4>4
        <5>3. SumFunctionOnSet(new, V) = a + SumFunctionOnSet(new, W)
          BY <4>3, <4>6, <5>1, <5>2, SumRemove
        <5> QED BY <4>2, <4>7, <4>8, <5>3
      <4>9. CASE ~BusyOn(new, rows, t, d)
        <5>1. V = W
          BY <3>5, <4>1, <4>5, <4>9
        <5>2. ~BusyOn(load, rows, t, d)
          BY <3>3, <4>3, <4>9 DEF BusyOn
        <5>3. W = {u \in Tasks : BusyOn(load, rows, u, d)}
          BY <3>5, <5>2
        <5>4. LoadOn(load, rows, d) = SumFunctionOnSet(load, W)
          BY <5>3 DEF LoadOn
        <5> QED BY <3>6, <4>2, <4>7, <5>1, <5>4
      <4> QED BY <4>8, <4>9
    <3>9. /\ d \in DatesOf(rows) /\ IsWorkingDay(d) /\ LoadOn(new, rows, d) > Capacity
          /\ LoadOn(load, rows, d) > Capacity => d \in Conflicts(rows)
      <4>1. d \in DatesOf(rows) /\ IsWorkingDay(d)' /\ LoadOf(rows, d)' > Capacity
        BY DEF Conflicts, DatesOf, Existing
      <4>2. IsWorkingDay(d)' <=> IsWorkingDay(d)
        BY <3>2 DEF IsWorkingDay
      <4>3. LoadOf(rows, d)' = LoadOn(assigned', rows, d) /\ LoadOf(rows, d) = LoadOn(assigned, rows, d)
        BY Zenon DEF LoadOf, LoadOn, WorksOn, BusyOn
      <4>4. LoadOf(rows, d)' = LoadOn(new, rows, d) /\ LoadOf(rows, d) = LoadOn(load, rows, d)
        BY <3>4, <4>3, Zenon
      <4>5. LoadOn(new, rows, d) > Capacity
        BY <4>1, <4>4, Zenon
      <4>6. LoadOn(load, rows, d) > Capacity => LoadOf(rows, d) > Capacity
        BY <4>4, Zenon
      <4>7. LoadOn(load, rows, d) > Capacity => d \in Conflicts(rows)
        BY <4>1, <4>2, <4>6 DEF Conflicts
      <4> QED BY <4>1, <4>2, <4>5, <4>7
    <3>10. CASE BusyOn(new, rows, t, d) /\ LoadOn(new, rows, d) = a + others
      <4>1. rows[t].start # None /\ rows[t].end # None /\ d \in rows[t].start..rows[t].end
        BY <3>10 DEF BusyOn
      <4>2. d % 7 < 5
        <5>1. calendar.workingDays \subseteq 0..4
          BY <2>1, NetInvIs DEF Calendars
        <5>2. d % 7 \in 0..4
          BY <3>9, <5>1 DEF IsWorkingDay
        <5> QED BY <5>2
      <4>3. CASE \E u \in Tasks : load[u] > 0
        <5>1. FitsWith(load, rows, t, a)
          <6>1. FitsWith(assigned, rows, t, a)
            BY <3>2, Zenon DEF Fits, FitsWith, WorksOn, BusyOn
          <6> QED BY <3>4, <6>1
        <5>2. others + a <= Capacity
          BY <3>5, <3>6, <4>1, <4>2, <4>3, <5>1, Zenon DEF FitsWith
        <5>3. others \in Int
          <6>1. W \subseteq Tasks
            BY <3>5
          <6>2. IsFiniteSet(W) /\ \A u \in W : load[u] \in Int
            BY <3>3, <3>7, <6>1, FS_Subset
          <6> QED BY <3>6, <6>2, SumType
        <5> QED BY <3>3, <3>9, <3>10, <5>2, <5>3
      <4>4. CASE \A u \in Tasks : ~(load[u] > 0)
        <5>1. W = {}
          BY <3>5, <4>4 DEF BusyOn
        <5>2. others = 0
          BY <3>6, <5>1, SumEmpty
        <5> QED BY <3>3, <3>9, <3>10, <5>2
      <4> QED BY <4>3, <4>4
    <3>11. CASE LoadOn(new, rows, d) = others /\ LoadOn(load, rows, d) = others
      BY <3>9, <3>11
    <3> QED BY <3>8, <3>10, <3>11
  <2>3. ASSUME assigned' = assigned \/ WindowFree
        PROVE  d \in Conflicts(rows)
    BY <2>3 DEF WindowFree
  <2>4. ASSUME NEW t \in Tasks, SetProgress(t) \/ EditTask(t) \/ \E a \in Percentages : CheckLoad(t, a)
        PROVE  d \in Conflicts(rows)
    BY <2>3, <2>4, Zenon DEF SetProgress, EditTask, CheckLoad
  <2>5. CASE EditNetwork \/ EditCalendar \/ UNCHANGED levelVars
    BY <2>3, <2>5, Zenon DEF EditNetwork, EditCalendar, levelVars
  <2>6. CASE \/ \E p, s \in Tasks, type \in Types, lag \in Lags : LinkTasks(p, s, type, lag)
             \/ \E e \in deps : UnlinkTasks(e)
    BY <2>3, <2>6, Zenon DEF LinkTasks, UnlinkTasks
  <2>7. ASSUME NEW r \in Runs, RunStep(r)
        PROVE  d \in Conflicts(rows)
    <3>1. assigned' = assigned
      BY <2>7, Zenon DEF RunStep, Cancel, StartLeveling, CommitShift, EndLoop, RecalculateAfter,
                         RunLost, ChooseTask, StartManualShift, Start
    <3> QED BY <2>3, <3>1
  <2> QED BY <2>2, <2>4, <2>5, <2>6, <2>7, Zenon DEF LevelNext
<1> QED BY <1>1, LevelInvariant, PTL DEF LevelSpec, StrictPolicyHolds
=============================================================================
