--------------------------- MODULE Procurement_proofs ---------------------------
(* Proofs about Procurement and MaterialDemand, for every set of requisitions, orders,
   positions and requirements, every quantity and receipt.

   The tables exist twice, committed and as the session sees them, and either may become
   the other.  TabInv therefore speaks of one set of tables, and the invariant asks it of
   both.  Beside the types it says that orders agree with their lines, that a sourced line
   exists, that decisions agree with statuses, that stock on hand is what lines received,
   and that a requisition line is sourced by no more than what approved lines ask.     *)
EXTENDS MaterialDemand, FiniteSums

-----------------------------------------------------------------------------
(* Lines *)

Processed(line) == line.received + line.rejected

(* Max of FiniteSetsExt at a number and zero. *)
LEMMA OutstandingIs ==
    ASSUME NEW line \in OrderLines
    PROVE  /\ Outstanding(line) \in Nat
           /\ Processed(line) <= line.ordered => Outstanding(line) = line.ordered - Processed(line)
           /\ Processed(line) >= line.ordered <=> Outstanding(line) = 0
<1> DEFINE d == line.ordered - line.received - line.rejected
<1>1. d \in Int /\ line.ordered \in Nat /\ line.received \in Nat /\ line.rejected \in Nat
  BY DEF OrderLines
<1>2. Outstanding(line) = IF d > 0 THEN d ELSE 0
  <2> HIDE DEF d
  <2> DEFINE best == IF d > 0 THEN d ELSE 0
  <2>1. best \in {0, d} /\ \A y \in {0, d} : best >= y
    BY <1>1
  <2>2. \A x \in {0, d} : (\A y \in {0, d} : x >= y) => x = best
    BY <1>1
  <2> HIDE DEF best
  <2>3. Max({0, d}) = best
    BY <2>1, <2>2 DEF Max
  <2> QED BY <2>3 DEF Outstanding, d, best
<1> QED BY <1>1, <1>2 DEF Processed

(* A function on the places of a sequence is a sequence as long. *)
LEMMA SameLength ==
    ASSUME NEW S, NEW T, NEW lines \in Seq(S), NEW f, f = [k \in DOMAIN lines |-> f[k]],
           \A k \in DOMAIN lines : f[k] \in T
    PROVE  f \in Seq(T) /\ Len(f) = Len(lines) /\ DOMAIN f = DOMAIN lines
<1>1. DOMAIN lines = 1..Len(lines) /\ Len(lines) \in Nat
  OBVIOUS
<1>2. f \in [1..Len(lines) -> T]
  BY <1>1
<1> QED BY <1>1, <1>2

(* What may not change in a line: all but its status. *)
LineStays(old, new) == /\ new.position = old.position /\ new.ordered = old.ordered
                       /\ new.received = old.received /\ new.rejected = old.rejected
                       /\ new.source = old.source

LinesStay(old, new) == /\ DOMAIN new = DOMAIN old /\ Len(new) = Len(old)
                       /\ \A k \in DOMAIN old : LineStays(old[k], new[k])

(* Giving every order line a status keeps the lines and what they count. *)
LEMMA OrderLinesMarked ==
    ASSUME NEW lines \in Seq(OrderLines), NEW status \in OrderLineStatuses
    PROVE  /\ WithLineStatus(lines, status) \in Seq(OrderLines)
           /\ LinesStay(lines, WithLineStatus(lines, status))
<1> DEFINE f == WithLineStatus(lines, status)
<1>1. f = [k \in DOMAIN lines |-> [lines[k] EXCEPT !.status = status]]
  BY DEF WithLineStatus
<1>2. \A k \in DOMAIN lines : lines[k] \in OrderLines
  OBVIOUS
<1>3. \A k \in DOMAIN lines : f[k] \in OrderLines /\ LineStays(lines[k], f[k])
  BY <1>1, <1>2 DEF OrderLines, LineStays
<1> HIDE DEF f
<1>4. f = [k \in DOMAIN lines |-> f[k]]
  BY <1>1
<1>5. f \in Seq(OrderLines) /\ Len(f) = Len(lines) /\ DOMAIN f = DOMAIN lines
  BY <1>3, <1>4, SameLength
<1> QED BY <1>3, <1>5 DEF LinesStay, f

(* What may not change in a requisition line but by sourcing. *)
ReqLinesStay(old, new) == /\ DOMAIN new = DOMAIN old /\ Len(new) = Len(old)
                          /\ \A k \in DOMAIN old : /\ new[k].requested = old[k].requested
                                                   /\ new[k].sourced = old[k].sourced

(* Giving every requisition line a status keeps the lines and what they count. *)
LEMMA ReqLinesMarked ==
    ASSUME NEW lines \in Seq(ReqLines), NEW status \in ReqLineStatuses
    PROVE  /\ WithLineStatus(lines, status) \in Seq(ReqLines)
           /\ ReqLinesStay(lines, WithLineStatus(lines, status))
<1> DEFINE f == WithLineStatus(lines, status)
<1>1. f = [k \in DOMAIN lines |-> [lines[k] EXCEPT !.status = status]]
  BY DEF WithLineStatus
<1>2. \A k \in DOMAIN lines : lines[k] \in ReqLines
  OBVIOUS
<1>3. \A k \in DOMAIN lines : /\ f[k] \in ReqLines
                              /\ f[k].requested = lines[k].requested
                              /\ f[k].sourced = lines[k].sourced
  BY <1>1, <1>2 DEF ReqLines
<1> HIDE DEF f
<1>4. f = [k \in DOMAIN lines |-> f[k]]
  BY <1>1
<1>5. f \in Seq(ReqLines) /\ Len(f) = Len(lines) /\ DOMAIN f = DOMAIN lines
  BY <1>3, <1>4, SameLength
<1> QED BY <1>3, <1>5 DEF ReqLinesStay, f

(* Lines that differ in their status only are processed alike. *)
LEMMA StayProcessed ==
    ASSUME NEW old \in Seq(OrderLines), NEW new \in Seq(OrderLines), LinesStay(old, new)
    PROVE  FullyProcessed(new) <=> FullyProcessed(old)
<1>1. old = <<>> <=> new = <<>>
  BY DEF LinesStay
<1>2. \A k \in DOMAIN old : Outstanding(new[k]) = Outstanding(old[k])
  BY DEF LinesStay, LineStays, Outstanding
<1> QED BY <1>1, <1>2 DEF FullyProcessed, LinesStay

-----------------------------------------------------------------------------
(* Sums over the lines of a table of orders *)

Existing(od) == {o \in Orders : od[o] # None}

LineIds(od) == {id \in Orders \X (1..MaxLines) :
                   od[id[1]] # None /\ id[2] \in DOMAIN od[id[1]].lines}

At(od, id) == od[id[1]].lines[id[2]]

OrderTable == [Orders -> OrderRows \cup {None}]

(* What the lines delivered to a position received. *)
Delivered(od, p) ==
    SumFunctionOnSet([id \in LineIds(od) |-> IF At(od, id).position = p
                                             THEN At(od, id).received ELSE 0],
                     LineIds(od))

(* What those of the lines ids that name source s ask for. *)
Asked(od, ids, s) ==
    SumFunctionOnSet([id \in ids |-> IF At(od, id).source = s THEN At(od, id).ordered ELSE 0],
                     ids)

(* What those of the lines ids that are for position p still have to deliver. *)
Due(od, ids, p) ==
    SumFunctionOnSet([id \in ids |-> IF At(od, id).position = p
                                     THEN Outstanding(At(od, id)) ELSE 0], ids)

(* What a line id leads to. *)
LEMMA LinesOfIds ==
    ASSUME NEW od \in OrderTable, NEW id \in LineIds(od)
    PROVE  /\ id[1] \in Orders /\ id[2] \in 1..MaxLines /\ id = <<id[1], id[2]>>
           /\ od[id[1]] \in OrderRows
           /\ At(od, id) \in OrderLines
           /\ At(od, id).received \in Nat /\ At(od, id).ordered \in Nat
           /\ Outstanding(At(od, id)) \in Nat
<1>1. id[1] \in Orders /\ id[2] \in 1..MaxLines /\ id = <<id[1], id[2]>>
  BY DEF LineIds
<1>2. od[id[1]] \in OrderRows /\ id[2] \in DOMAIN od[id[1]].lines
  BY <1>1 DEF LineIds, OrderTable
<1>3. At(od, id) \in OrderLines
  <2>1. od[id[1]].lines \in Seq(OrderLines)
    BY <1>2 DEF OrderRows
  <2> QED BY <1>2, <2>1 DEF At
<1> QED BY <1>1, <1>2, <1>3, OutstandingIs DEF OrderLines

(* The lines of finitely many orders are finitely many. *)
LEMMA LinesFinite ==
    ASSUME NEW od, IsFiniteSet(Existing(od))
    PROVE  IsFiniteSet(LineIds(od))
<1>1. IsFiniteSet(1..MaxLines)
  BY BoundsAssumption, FS_Interval
<1>2. IsFiniteSet(Existing(od) \X (1..MaxLines))
  BY <1>1, FS_Product
<1>3. LineIds(od) \subseteq Existing(od) \X (1..MaxLines)
  BY DEF LineIds, Existing
<1> QED BY <1>2, <1>3, FS_Subset

(* The sums are those of the properties of Procurement. *)
LEMMA SumOfReceived ==
    ASSUME NEW od \in OrderTable, IsFiniteSet(Existing(od)), NEW p
    PROVE  SumFunction([id \in {x \in LineIds(od) : At(od, x).position = p} |->
                           At(od, id).received]) = Delivered(od, p)
<1> DEFINE S == {x \in LineIds(od) : At(od, x).position = p}
           h == [id \in S |-> At(od, id).received]
           T == LineIds(od)
           g == [id \in T |-> IF At(od, id).position = p THEN At(od, id).received ELSE 0]
<1>1. IsFiniteSet(T)
  BY LinesFinite
<1>2. DOMAIN h = S /\ S \subseteq T
  OBVIOUS
<1>3. \A x \in T : /\ g[x] = IF x \in S THEN h[x] ELSE 0
                   /\ g[x] \in Int
  BY LinesOfIds
<1> HIDE DEF h, g, T, S
<1>4. SumFunction(h) = SumFunctionOnSet(g, T)
  BY <1>1, <1>2, <1>3, SumExtended
<1> QED BY <1>4 DEF Delivered, h, g, T, S

(* The ordered quantities of the lines with one source add up to what they ask of it. *)
LEMMA SumOfOrdered ==
    ASSUME NEW od \in OrderTable, IsFiniteSet(Existing(od)), NEW T, T \subseteq LineIds(od), NEW s
    PROVE  SumFunction([id \in {x \in T : At(od, x).source = s} |-> At(od, id).ordered])
             = Asked(od, T, s)
<1> DEFINE S == {x \in T : At(od, x).source = s}
           h == [id \in S |-> At(od, id).ordered]
           g == [id \in T |-> IF At(od, id).source = s THEN At(od, id).ordered ELSE 0]
<1>1. IsFiniteSet(T)
  BY LinesFinite, FS_Subset
<1>2. DOMAIN h = S /\ S \subseteq T
  OBVIOUS
<1>3. \A x \in T : /\ g[x] = IF x \in S THEN h[x] ELSE 0
                   /\ g[x] \in Int
  BY LinesOfIds
<1> HIDE DEF h, g, S
<1>4. SumFunction(h) = SumFunctionOnSet(g, T)
  BY <1>1, <1>2, <1>3, SumExtended
<1> QED BY <1>4 DEF Asked, h, g, S

(* The outstanding quantities of the lines for one position add up to what is due there. *)
LEMMA SumOfDue ==
    ASSUME NEW od \in OrderTable, IsFiniteSet(Existing(od)), NEW T, T \subseteq LineIds(od), NEW p
    PROVE  SumFunction([id \in {x \in T : At(od, x).position = p} |-> Outstanding(At(od, id))])
             = Due(od, T, p)
<1> DEFINE S == {x \in T : At(od, x).position = p}
           h == [id \in S |-> Outstanding(At(od, id))]
           g == [id \in T |-> IF At(od, id).position = p THEN Outstanding(At(od, id)) ELSE 0]
<1>1. IsFiniteSet(T)
  BY LinesFinite, FS_Subset
<1>2. DOMAIN h = S /\ S \subseteq T
  OBVIOUS
<1>3. \A x \in T : /\ g[x] = IF x \in S THEN h[x] ELSE 0
                   /\ g[x] \in Int
  BY LinesOfIds
<1> HIDE DEF h, g, S
<1>4. SumFunction(h) = SumFunctionOnSet(g, T)
  BY <1>1, <1>2, <1>3, SumExtended
<1> QED BY <1>4 DEF Due, h, g, S

(* Sums are quantities. *)
LEMMA SumTypes ==
    ASSUME NEW od \in OrderTable, IsFiniteSet(Existing(od)), NEW T, T \subseteq LineIds(od), NEW x
    PROVE  Delivered(od, x) \in Nat /\ Asked(od, T, x) \in Nat /\ Due(od, T, x) \in Nat
<1>1. IsFiniteSet(LineIds(od)) /\ IsFiniteSet(T)
  BY LinesFinite, FS_Subset
<1> DEFINE d == [id \in LineIds(od) |-> IF At(od, id).position = x THEN At(od, id).received ELSE 0]
           a == [id \in T |-> IF At(od, id).source = x THEN At(od, id).ordered ELSE 0]
           b == [id \in T |-> IF At(od, id).position = x THEN Outstanding(At(od, id)) ELSE 0]
<1>2. \A id \in LineIds(od) : d[id] \in Nat
  BY LinesOfIds
<1>3. \A id \in T : a[id] \in Nat /\ b[id] \in Nat
  BY LinesOfIds
<1> HIDE DEF d, a, b
<1>4. SumFunctionOnSet(d, LineIds(od)) \in Nat
  BY <1>1, <1>2, SumNat
<1>5. SumFunctionOnSet(a, T) \in Nat /\ SumFunctionOnSet(b, T) \in Nat
  BY <1>1, <1>3, SumNat
<1> QED BY <1>4, <1>5 DEF Delivered, Asked, Due, d, a, b

(* The sums of what no line changed. *)
LEMMA AskedStays ==
    ASSUME NEW od \in OrderTable, IsFiniteSet(Existing(od)), NEW nw, NEW T, T \subseteq LineIds(od),
           \A id \in T : /\ At(nw, id).source = At(od, id).source
                         /\ At(nw, id).ordered = At(od, id).ordered,
           NEW s
    PROVE  Asked(nw, T, s) = Asked(od, T, s)
<1>1. IsFiniteSet(T)
  BY LinesFinite, FS_Subset
<1> DEFINE f == [id \in T |-> IF At(od, id).source = s THEN At(od, id).ordered ELSE 0]
           g == [id \in T |-> IF At(nw, id).source = s THEN At(nw, id).ordered ELSE 0]
<1>2. \A id \in T : f[id] = g[id]
  OBVIOUS
<1> HIDE DEF f, g
<1>3. SumFunctionOnSet(f, T) = SumFunctionOnSet(g, T)
  BY <1>1, <1>2, SumSame
<1> QED BY <1>3 DEF Asked, f, g

(* What is due changes only with a position or an outstanding quantity of a line. *)
LEMMA DueStays ==
    ASSUME NEW od \in OrderTable, IsFiniteSet(Existing(od)), NEW nw, NEW T, T \subseteq LineIds(od),
           \A id \in T : /\ At(nw, id).position = At(od, id).position
                         /\ Outstanding(At(nw, id)) = Outstanding(At(od, id)),
           NEW p
    PROVE  Due(nw, T, p) = Due(od, T, p)
<1>1. IsFiniteSet(T)
  BY LinesFinite, FS_Subset
<1> DEFINE f == [id \in T |-> IF At(od, id).position = p THEN Outstanding(At(od, id)) ELSE 0]
           g == [id \in T |-> IF At(nw, id).position = p THEN Outstanding(At(nw, id)) ELSE 0]
<1>2. \A id \in T : f[id] = g[id]
  OBVIOUS
<1> HIDE DEF f, g
<1>3. SumFunctionOnSet(f, T) = SumFunctionOnSet(g, T)
  BY <1>1, <1>2, SumSame
<1> QED BY <1>3 DEF Due, f, g

(* One line joins those that count. *)
LEMMA AskedGains ==
    ASSUME NEW od \in OrderTable, IsFiniteSet(Existing(od)), NEW T, T \subseteq LineIds(od),
           NEW a \in LineIds(od) \ T, NEW s
    PROVE  Asked(od, T \cup {a}, s)
             = Asked(od, T, s) + (IF At(od, a).source = s THEN At(od, a).ordered ELSE 0)
<1> DEFINE U == T \cup {a}
           f == [id \in T |-> IF At(od, id).source = s THEN At(od, id).ordered ELSE 0]
           g == [id \in U |-> IF At(od, id).source = s THEN At(od, id).ordered ELSE 0]
<1>1. IsFiniteSet(T) /\ IsFiniteSet(U)
  BY LinesFinite, FS_Subset
<1>2. /\ \A x \in T : f[x] = g[x]
      /\ \A x \in U : g[x] \in Int
      /\ a \in U /\ U \ {a} = T
      /\ g[a] = IF At(od, a).source = s THEN At(od, a).ordered ELSE 0
  BY LinesOfIds
<1> HIDE DEF f, g, U
<1>3. SumFunctionOnSet(f, T) = SumFunctionOnSet(g, T)
  BY <1>1, <1>2, SumSame
<1>4. SumFunctionOnSet(g, U) = g[a] + SumFunctionOnSet(g, T)
  BY <1>1, <1>2, SumRemove
<1>5. SumFunctionOnSet(g, T) \in Int /\ g[a] \in Int
  <2>1. T \subseteq U
    BY DEF U
  <2>2. \A x \in T : g[x] \in Int
    BY <1>2, <2>1
  <2> QED BY <1>1, <1>2, <2>2, SumType
<1>6. SumFunctionOnSet(g, U) = SumFunctionOnSet(f, T) + g[a]
  BY <1>3, <1>4, <1>5
<1> QED BY <1>2, <1>6 DEF Asked, f, g, U

(* A line that joins those that count adds its outstanding quantity. *)
LEMMA DueGains ==
    ASSUME NEW od \in OrderTable, IsFiniteSet(Existing(od)), NEW T, T \subseteq LineIds(od),
           NEW a \in LineIds(od) \ T, NEW p
    PROVE  Due(od, T \cup {a}, p)
             = Due(od, T, p) + (IF At(od, a).position = p THEN Outstanding(At(od, a)) ELSE 0)
<1> DEFINE U == T \cup {a}
           f == [id \in T |-> IF At(od, id).position = p THEN Outstanding(At(od, id)) ELSE 0]
           g == [id \in U |-> IF At(od, id).position = p THEN Outstanding(At(od, id)) ELSE 0]
<1>1. IsFiniteSet(T) /\ IsFiniteSet(U)
  BY LinesFinite, FS_Subset
<1>2. /\ \A x \in T : f[x] = g[x]
      /\ \A x \in U : g[x] \in Int
      /\ a \in U /\ U \ {a} = T
      /\ g[a] = IF At(od, a).position = p THEN Outstanding(At(od, a)) ELSE 0
  BY LinesOfIds
<1> HIDE DEF f, g, U
<1>3. SumFunctionOnSet(f, T) = SumFunctionOnSet(g, T)
  BY <1>1, <1>2, SumSame
<1>4. SumFunctionOnSet(g, U) = g[a] + SumFunctionOnSet(g, T)
  BY <1>1, <1>2, SumRemove
<1>5. SumFunctionOnSet(g, T) \in Int /\ g[a] \in Int
  <2>1. T \subseteq U
    BY DEF U
  <2>2. \A x \in T : g[x] \in Int
    BY <1>2, <2>1
  <2> QED BY <1>1, <1>2, <2>2, SumType
<1>6. SumFunctionOnSet(g, U) = SumFunctionOnSet(f, T) + g[a]
  BY <1>3, <1>4, <1>5
<1> QED BY <1>2, <1>6 DEF Due, f, g, U

(* Lines with nothing outstanding do not count. *)
LEMMA DueWithout ==
    ASSUME NEW od \in OrderTable, IsFiniteSet(Existing(od)), NEW T, T \subseteq LineIds(od),
           NEW S, S \subseteq T, \A id \in T \ S : Outstanding(At(od, id)) = 0, NEW p
    PROVE  Due(od, S, p) = Due(od, T, p)
<1> DEFINE f == [id \in S |-> IF At(od, id).position = p THEN Outstanding(At(od, id)) ELSE 0]
           g == [id \in T |-> IF At(od, id).position = p THEN Outstanding(At(od, id)) ELSE 0]
<1>1. IsFiniteSet(T) /\ IsFiniteSet(S)
  BY LinesFinite, FS_Subset
<1>2. /\ \A x \in S : f[x] = g[x]
      /\ \A x \in T : g[x] \in Int
      /\ \A x \in T \ S : g[x] = 0
  BY LinesOfIds
<1> HIDE DEF f, g
<1>3. SumFunctionOnSet(f, S) = SumFunctionOnSet(g, S)
  BY <1>1, <1>2, SumSame
<1>4. SumFunctionOnSet(g, T) = SumFunctionOnSet(g, S)
  BY <1>1, <1>2, SumSupport
<1> QED BY <1>3, <1>4 DEF Due, f, g

(* One line is processed further. *)
LEMMA DueChanges ==
    ASSUME NEW od \in OrderTable, IsFiniteSet(Existing(od)), NEW nw, NEW T, T \subseteq LineIds(od),
           NEW a \in T, \A id \in T \ {a} : At(nw, id) = At(od, id),
           At(nw, a).position = At(od, a).position, Outstanding(At(nw, a)) \in Nat, NEW p
    PROVE  Due(nw, T, p)
             = Due(od, T, p) + (IF At(od, a).position = p
                                THEN Outstanding(At(nw, a)) - Outstanding(At(od, a)) ELSE 0)
<1> DEFINE f == [id \in T |-> IF At(od, id).position = p THEN Outstanding(At(od, id)) ELSE 0]
           g == [id \in T |-> IF At(nw, id).position = p THEN Outstanding(At(nw, id)) ELSE 0]
<1>1. IsFiniteSet(T)
  BY LinesFinite, FS_Subset
<1>2. /\ \A x \in T : f[x] \in Int
      /\ \A x \in T \ {a} : g[x] = f[x]
      /\ g[a] \in Int
      /\ g[a] - f[a] = IF At(od, a).position = p
                       THEN Outstanding(At(nw, a)) - Outstanding(At(od, a)) ELSE 0
  BY LinesOfIds
<1> HIDE DEF f, g
<1>3. SumFunctionOnSet(g, T) = SumFunctionOnSet(f, T) + g[a] - f[a]
  BY <1>1, <1>2, SumChange
<1>4. SumFunctionOnSet(f, T) \in Int /\ f[a] \in Int
  BY <1>1, <1>2, SumType
<1>5. SumFunctionOnSet(g, T) = SumFunctionOnSet(f, T) + (g[a] - f[a])
  BY <1>2, <1>3, <1>4
<1> QED BY <1>2, <1>5 DEF Due, f, g

(* One line that receives more changes what is delivered by the difference. *)
LEMMA DeliveredChanges ==
    ASSUME NEW od \in OrderTable, IsFiniteSet(Existing(od)), NEW nw, LineIds(nw) = LineIds(od),
           NEW a \in LineIds(od), \A id \in LineIds(od) \ {a} : At(nw, id) = At(od, id),
           At(nw, a).position = At(od, a).position, At(nw, a).received \in Nat, NEW p
    PROVE  Delivered(nw, p)
             = Delivered(od, p) + (IF At(od, a).position = p
                                   THEN At(nw, a).received - At(od, a).received ELSE 0)
<1> DEFINE T == LineIds(od)
           f == [id \in T |-> IF At(od, id).position = p THEN At(od, id).received ELSE 0]
           g == [id \in T |-> IF At(nw, id).position = p THEN At(nw, id).received ELSE 0]
<1>1. IsFiniteSet(T)
  BY LinesFinite
<1>2. /\ \A x \in T : f[x] \in Int
      /\ \A x \in T \ {a} : g[x] = f[x]
      /\ g[a] \in Int /\ a \in T
      /\ g[a] - f[a] = IF At(od, a).position = p
                       THEN At(nw, a).received - At(od, a).received ELSE 0
  BY LinesOfIds
<1> HIDE DEF f, g, T
<1>3. SumFunctionOnSet(g, T) = SumFunctionOnSet(f, T) + g[a] - f[a]
  BY <1>1, <1>2, SumChange
<1>4. SumFunctionOnSet(f, T) \in Int /\ f[a] \in Int
  BY <1>1, <1>2, SumType
<1>5. SumFunctionOnSet(g, T) = SumFunctionOnSet(f, T) + (g[a] - f[a])
  BY <1>2, <1>3, <1>4
<1> QED BY <1>2, <1>5 DEF Delivered, f, g, T

LinesOf(row) == IF row = None THEN <<>> ELSE row.lines

(* The lines of a row stay as delivered, and a line it gains received nothing. *)
RowGrows(old, new) ==
    /\ DOMAIN LinesOf(old) \subseteq DOMAIN LinesOf(new)
    /\ \A k \in DOMAIN LinesOf(old) : LineStays(LinesOf(old)[k], LinesOf(new)[k])
    /\ \A k \in DOMAIN LinesOf(new) \ DOMAIN LinesOf(old) : LinesOf(new)[k].received = 0

(* Lines that receive nothing leave what is delivered as it was. *)
LEMMA DeliveredStays ==
    ASSUME NEW od \in OrderTable, IsFiniteSet(Existing(od)),
           NEW nw \in OrderTable, IsFiniteSet(Existing(nw)),
           \A o \in Orders : RowGrows(od[o], nw[o]), NEW p
    PROVE  Delivered(nw, p) = Delivered(od, p)
<1> DEFINE S == LineIds(od)
           T == LineIds(nw)
           f == [id \in S |-> IF At(od, id).position = p THEN At(od, id).received ELSE 0]
           g == [id \in T |-> IF At(nw, id).position = p THEN At(nw, id).received ELSE 0]
<1>1. IsFiniteSet(S) /\ IsFiniteSet(T)
  BY LinesFinite
<1>2. ASSUME NEW id \in S
      PROVE  id \in T /\ f[id] \in Int /\ g[id] = f[id]
  <2>1. id[1] \in Orders /\ id[2] \in DOMAIN od[id[1]].lines /\ od[id[1]] # None
    BY DEF LineIds
  <2>2. /\ id[2] \in DOMAIN LinesOf(nw[id[1]])
        /\ LineStays(At(od, id), LinesOf(nw[id[1]])[id[2]])
    BY <2>1 DEF RowGrows, LinesOf, At
  <2>3. nw[id[1]] # None
    BY <2>2 DEF LinesOf
  <2>4. id \in T /\ LineStays(At(od, id), At(nw, id))
    BY <2>2, <2>3 DEF LinesOf, At, LineIds
  <2> QED BY <2>4, LinesOfIds DEF LineStays
<1>3. ASSUME NEW id \in T \ S
      PROVE  g[id] = 0
  <2>1. id[1] \in Orders /\ id[2] \in 1..MaxLines /\ nw[id[1]] # None /\ id[2] \in DOMAIN nw[id[1]].lines
    BY DEF LineIds
  <2>2. id[2] \notin DOMAIN LinesOf(od[id[1]])
    BY <2>1 DEF LinesOf, LineIds
  <2> QED BY <2>1, <2>2 DEF RowGrows, LinesOf, At
<1> HIDE DEF f, g, S, T
<1> DEFINE h == [id \in T |-> IF id \in S THEN f[id] ELSE 0]
<1>5. /\ \A x \in T : h[x] = g[x]
      /\ \A x \in T : h[x] \in Int
      /\ \A x \in T \ S : h[x] = 0
      /\ \A x \in S : h[x] = f[x]
      /\ S \subseteq T
  BY <1>2, <1>3
<1> HIDE DEF h
<1>6. SumFunctionOnSet(h, T) = SumFunctionOnSet(g, T)
  BY <1>1, <1>5, SumSame
<1>7. SumFunctionOnSet(h, T) = SumFunctionOnSet(h, S)
  BY <1>1, <1>5, SumSupport
<1>8. SumFunctionOnSet(h, S) = SumFunctionOnSet(f, S)
  BY <1>1, <1>5, SumSame
<1> QED BY <1>6, <1>7, <1>8 DEF Delivered, f, g, S, T

-----------------------------------------------------------------------------
(* The invariant of one set of tables *)

Fields == {"req", "order", "approval", "stock", "master"}

ReqTable == [Reqs -> ReqRows \cup {None}]
ApprovalTable == [Entities -> {"PENDING", "APPROVED", "REJECTED", None}]
StockTable == [Positions -> StockRows \cup {None}]

Fresh(row) == row.status \in {"DRAFT", "SUBMITTED"}

(* OrderMatchesLines, of one order; nothing is received before it is approved. *)
OrderOK(row) ==
    /\ row \in OrderRows /\ Len(row.lines) <= MaxLines /\ row.status # "UNDER_REVIEW"
    /\ \A k \in DOMAIN row.lines : Processed(row.lines[k]) <= row.lines[k].ordered
    /\ row.status \in {"FULLY_RECEIVED", "CLOSED"} <=> FullyProcessed(row.lines)
    /\ row.status = "PARTIALLY_RECEIVED" =>
          \E k \in DOMAIN row.lines : Processed(row.lines[k]) > 0
    /\ Fresh(row) => \A k \in DOMAIN row.lines : Processed(row.lines[k]) = 0

OrdersOK(od) == /\ od \in OrderTable
                /\ IsFiniteSet(Existing(od))
                /\ \A o \in Existing(od) : OrderOK(od[o])

SourceExists(rq, source) ==
    source # None => rq[source[1]] # None /\ source[2] \in DOMAIN rq[source[1]].lines

SourcesOK(rq, od) ==
    \A o \in Existing(od) : \A k \in DOMAIN od[o].lines : SourceExists(rq, od[o].lines[k].source)

(* DecisionApplied, of one row. *)
Decided(row, decision) ==
    /\ decision # None => row # None
    /\ decision = "REJECTED" => row.status = "REJECTED"
    /\ decision = "APPROVED" =>
          row.status \notin {"DRAFT", "SUBMITTED", "UNDER_REVIEW", "REJECTED", "CANCELLED"}

(* A draft order was not submitted. *)
DecisionsOK(rq, od, ap) ==
    /\ ap \in ApprovalTable
    /\ \A q \in Reqs : Decided(rq[q], ap[q])
    /\ \A o \in Orders : /\ Decided(od[o], ap[o])
                         /\ od[o] # None /\ od[o].status = "DRAFT" => ap[o] = None

OnHand(row) == IF row = None THEN 0 ELSE row.on_hand

StockOK(od, st) == /\ st \in StockTable
                   /\ \A p \in Positions : OnHand(st[p]) = Delivered(od, p)

(* The lines that may have sourced: those of orders that were decided, but not against. *)
Counts(row, decision) == /\ row # None /\ decision # None
                         /\ row.status \notin {"SUBMITTED", "REJECTED"}

Counting(od, ap) == {id \in LineIds(od) : Counts(od[id[1]], ap[id[1]])}

SourcedBy(rq, od, ids) ==
    \A q \in Reqs : rq[q] # None =>
        \A k \in DOMAIN rq[q].lines :
            /\ rq[q].lines[k].sourced <= rq[q].lines[k].requested
            /\ rq[q].lines[k].sourced <= Asked(od, ids, <<q, k>>)

TabInv(t) ==
    /\ Fields \subseteq DOMAIN t
    /\ t.req \in ReqTable /\ t.master \in MasterStates
    /\ OrdersOK(t.order)
    /\ SourcesOK(t.req, t.order)
    /\ DecisionsOK(t.req, t.order, t.approval)
    /\ StockOK(t.order, t.stock)
    /\ SourcedBy(t.req, t.order, Counting(t.order, t.approval))

(* OnOrderMatches, of one set of tables. *)
IsOpen(row) == row # None /\ row.status \in OpenForReceiving

OpenLines(od) == {id \in LineIds(od) : IsOpen(od[id[1]])}

OnOrderAt(row) == IF row = None THEN 0 ELSE row.on_order

Balanced(od, st) == \A p \in Positions : OnOrderAt(st[p]) = Due(od, OpenLines(od), p)

(* Requisitions and their lines are never taken away. *)
ReqsStay(rq, nw) ==
    \A q \in Reqs : rq[q] # None =>
        /\ nw[q] # None
        /\ DOMAIN rq[q].lines \subseteq DOMAIN nw[q].lines

(* What a step of Procurement makes of the tables, and leaves of those of others. *)
TablesStay(t, u) ==
    /\ TabInv(u)
    /\ DOMAIN u = DOMAIN t /\ \A f \in DOMAIN t \ Fields : u[f] = t[f]
    /\ ReqsStay(t.req, u.req)

(* When the step is not an approval that stops half way, on-order quantities stay due. *)
Moved(t, u) == /\ TablesStay(t, u)
               /\ Balanced(t.order, t.stock) => Balanced(u.order, u.stock)

Written(t, u, rq, od, ap, st) ==
    /\ u.req = rq /\ u.order = od /\ u.approval = ap /\ u.stock = st
    /\ DOMAIN u = DOMAIN t
    /\ \A f \in DOMAIN t \ {"req", "order", "approval", "stock"} : u[f] = t[f]

(* Tables left as they are satisfy the relation of a step. *)
LEMMA NothingMoved ==
    ASSUME NEW t, TabInv(t)
    PROVE  Moved(t, t)
BY DEF Moved, TablesStay, ReqsStay, TabInv

(* The lines that count as on order are as they were. *)
LEMMA DueOfOpen ==
    ASSUME NEW od \in OrderTable, IsFiniteSet(Existing(od)), NEW nw \in OrderTable,
           \A x \in Orders : /\ IsOpen(nw[x]) <=> IsOpen(od[x])
                             /\ IsOpen(od[x]) => LinesStay(od[x].lines, nw[x].lines),
           NEW p
    PROVE  Due(nw, OpenLines(nw), p) = Due(od, OpenLines(od), p)
<1>1. OpenLines(nw) = OpenLines(od)
  BY DEF OpenLines, LineIds, IsOpen, LinesStay
<1>2. OpenLines(od) \subseteq LineIds(od)
  BY DEF OpenLines
<1>3. ASSUME NEW id \in OpenLines(od)
      PROVE  /\ At(nw, id).position = At(od, id).position
             /\ Outstanding(At(nw, id)) = Outstanding(At(od, id))
  <2>1. /\ id[1] \in Orders /\ id[2] \in DOMAIN od[id[1]].lines
        /\ LinesStay(od[id[1]].lines, nw[id[1]].lines)
    BY DEF OpenLines, LineIds
  <2>2. LineStays(At(od, id), At(nw, id))
    BY <2>1 DEF LinesStay, At
  <2> QED BY <2>2 DEF LineStays, Outstanding
<1>4. Due(nw, OpenLines(od), p) = Due(od, OpenLines(od), p)
  BY <1>2, <1>3, DueStays
<1> QED BY <1>1, <1>4

(* The decision on e, if any, changes. *)
DecisionStays(ap, new, e) == /\ new \in ApprovalTable
                             /\ \A x \in Entities \ {e} : new[x] = ap[x]

(* The row of a requisition is saved. *)
LEMMA ReqSaved ==
    ASSUME NEW t, TabInv(t), NEW u, NEW q \in Reqs, NEW row \in ReqRows, NEW ap,
           Written(t, u, [t.req EXCEPT ![q] = row], t.order, ap, t.stock),
           DecisionStays(t.approval, ap, q), Decided(row, ap[q]),
           DOMAIN LinesOf(t.req[q]) \subseteq DOMAIN row.lines,
           \A k \in DOMAIN row.lines :
               IF k \in DOMAIN LinesOf(t.req[q])
               THEN /\ row.lines[k].requested = LinesOf(t.req[q])[k].requested
                    /\ row.lines[k].sourced = LinesOf(t.req[q])[k].sourced
               ELSE row.lines[k].sourced = 0
    PROVE  Moved(t, u)
<1> DEFINE rq == [t.req EXCEPT ![q] = row]
<1>1. /\ u.req = rq /\ u.order = t.order /\ u.approval = ap /\ u.stock = t.stock
      /\ DOMAIN u = DOMAIN t /\ Fields \subseteq DOMAIN t
      /\ \A f \in DOMAIN t \ Fields : u[f] = t[f]
      /\ u.master = t.master
  BY DEF Written, TabInv, Fields
<1>2. /\ rq \in ReqTable /\ rq[q] = row /\ row # None
      /\ \A x \in Reqs \ {q} : rq[x] = t.req[x]
  BY NoneAssumption DEF TabInv, ReqTable
<1> HIDE DEF rq
<1>3. ReqsStay(t.req, rq)
  BY <1>2 DEF ReqsStay, LinesOf
<1>4. SourcesOK(rq, t.order)
  <2>1. ASSUME NEW o \in Existing(t.order), NEW k \in DOMAIN t.order[o].lines
        PROVE  SourceExists(rq, t.order[o].lines[k].source)
    <3>1. t.order[o].lines[k] \in OrderLines
      <4>1. t.order[o] \in OrderRows
        BY DEF TabInv, OrdersOK, OrderOK
      <4> QED BY <4>1 DEF OrderRows
    <3>2. t.order[o].lines[k].source \in Sources \cup {None}
      BY <3>1 DEF OrderLines
    <3>3. SourceExists(t.req, t.order[o].lines[k].source)
      BY DEF TabInv, SourcesOK
    <3> QED BY <1>3, <3>2, <3>3 DEF SourceExists, ReqsStay, Sources
  <2> QED BY <2>1 DEF SourcesOK
<1>5. \A o \in Orders : ap[o] = t.approval[o]
  BY EntityAssumption DEF DecisionStays, Entities
<1>6. DecisionsOK(rq, t.order, ap)
  <2>1. \A x \in Reqs : Decided(rq[x], ap[x])
    BY <1>2 DEF TabInv, DecisionsOK, DecisionStays, Entities
  <2> QED BY <1>5, <2>1 DEF TabInv, DecisionsOK, DecisionStays
<1>7. Counting(t.order, ap) = Counting(t.order, t.approval)
  BY <1>5 DEF Counting, LineIds
<1>8. SourcedBy(rq, t.order, Counting(t.order, ap))
  <2> SUFFICES ASSUME NEW x \in Reqs, rq[x] # None, NEW k \in DOMAIN rq[x].lines
               PROVE  /\ rq[x].lines[k].sourced <= rq[x].lines[k].requested
                      /\ rq[x].lines[k].sourced
                           <= Asked(t.order, Counting(t.order, t.approval), <<x, k>>)
    BY <1>7 DEF SourcedBy
  <2>1. CASE x # q
    BY <1>2, <2>1 DEF TabInv, SourcedBy
  <2>2. CASE x = q /\ k \in DOMAIN LinesOf(t.req[q])
    <3>1. t.req[q] # None
      BY <2>2 DEF LinesOf
    <3> QED BY <1>2, <2>2, <3>1 DEF TabInv, SourcedBy, LinesOf
  <2>3. CASE x = q /\ k \notin DOMAIN LinesOf(t.req[q])
    <3>1. row.lines[k] \in ReqLines /\ row.lines[k].sourced = 0
      BY <1>2, <2>3 DEF ReqRows
    <3>2. Asked(t.order, Counting(t.order, t.approval), <<x, k>>) \in Nat
      BY SumTypes DEF TabInv, OrdersOK, Counting
    <3> QED BY <1>2, <2>3, <3>1, <3>2 DEF ReqLines
  <2> QED BY <2>1, <2>2, <2>3
<1>9. TabInv(u)
  BY <1>1, <1>2, <1>4, <1>6, <1>8 DEF TabInv
<1>10. Reqs # {}
  OBVIOUS
<1> QED BY <1>1, <1>3, <1>9, <1>10 DEF Moved, TablesStay

(* The row of an order is saved, with no delivery in it. *)
LEMMA OrderSaved ==
    ASSUME NEW t, TabInv(t), NEW u, NEW o \in Orders, NEW row, OrderOK(row), NEW ap,
           Written(t, u, t.req, [t.order EXCEPT ![o] = row], ap, t.stock),
           RowGrows(t.order[o], row),
           \A k \in DOMAIN row.lines \ DOMAIN LinesOf(t.order[o]) :
               SourceExists(t.req, row.lines[k].source),
           DecisionStays(t.approval, ap, o), Decided(row, ap[o]),
           row.status = "DRAFT" => ap[o] = None,
           Counts(row, ap[o]) <=> Counts(t.order[o], t.approval[o]),
           Counts(row, ap[o]) => DOMAIN row.lines = DOMAIN LinesOf(t.order[o]),
           IsOpen(row) <=> IsOpen(t.order[o]),
           IsOpen(row) => LinesStay(LinesOf(t.order[o]), row.lines)
    PROVE  Moved(t, u)
<1> DEFINE od == [t.order EXCEPT ![o] = row]
<1>1. /\ u.req = t.req /\ u.order = od /\ u.approval = ap /\ u.stock = t.stock
      /\ DOMAIN u = DOMAIN t /\ Fields \subseteq DOMAIN t
      /\ \A f \in DOMAIN t \ Fields : u[f] = t[f]
      /\ u.master = t.master
  BY DEF Written, TabInv, Fields
<1>2. /\ row \in OrderRows /\ row # None
      /\ od \in OrderTable /\ od[o] = row
      /\ \A x \in Orders \ {o} : od[x] = t.order[x]
  BY NoneAssumption DEF TabInv, OrdersOK, OrderTable, OrderOK
<1>3. LinesOf(row) = row.lines
  BY <1>2 DEF LinesOf
<1> HIDE DEF od
<1>4. OrdersOK(od)
  <2>1. Existing(od) = Existing(t.order) \cup {o}
    BY <1>2 DEF Existing
  <2>2. IsFiniteSet(Existing(od))
    BY <2>1, FS_AddElement DEF TabInv, OrdersOK
  <2>3. \A x \in Existing(od) : OrderOK(od[x])
    BY <1>2 DEF Existing, TabInv, OrdersOK
  <2> QED BY <1>2, <2>2, <2>3 DEF OrdersOK
<1>5. SourcesOK(t.req, od)
  <2> SUFFICES ASSUME NEW x \in Existing(od), NEW k \in DOMAIN od[x].lines
               PROVE  SourceExists(t.req, od[x].lines[k].source)
    BY DEF SourcesOK
  <2>1. CASE x # o
    BY <1>2, <2>1 DEF TabInv, SourcesOK, Existing
  <2>2. CASE x = o /\ k \notin DOMAIN LinesOf(t.order[o])
    BY <1>2, <2>2
  <2>3. CASE x = o /\ k \in DOMAIN LinesOf(t.order[o])
    <3>1. t.order[o] # None /\ LinesOf(t.order[o]) = t.order[o].lines
      BY <2>3 DEF LinesOf
    <3>2. row.lines[k].source = t.order[o].lines[k].source
      BY <1>3, <2>3, <3>1 DEF RowGrows, LineStays
    <3>3. SourceExists(t.req, t.order[o].lines[k].source)
      BY <2>3, <3>1 DEF TabInv, SourcesOK, Existing
    <3> QED BY <1>2, <2>3, <3>2, <3>3
  <2> QED BY <2>1, <2>2, <2>3
<1>6. \A x \in Orders \ {o} : ap[x] = t.approval[x]
  BY DEF DecisionStays, Entities
<1>7. \A x \in Reqs : ap[x] = t.approval[x]
  BY EntityAssumption DEF DecisionStays, Entities
<1>8. DecisionsOK(t.req, od, ap)
  <2>1. \A x \in Orders : /\ Decided(od[x], ap[x])
                          /\ od[x] # None /\ od[x].status = "DRAFT" => ap[x] = None
    BY <1>2, <1>6 DEF TabInv, DecisionsOK
  <2> QED BY <1>7, <2>1 DEF TabInv, DecisionsOK, DecisionStays
<1>9. StockOK(od, t.stock)
  <2>1. ASSUME NEW x \in Orders
        PROVE  RowGrows(t.order[x], od[x])
    <3>1. CASE x = o
      BY <1>2, <3>1
    <3>2. CASE x # o
      BY <1>2, <3>2 DEF RowGrows, LineStays
    <3> QED BY <3>1, <3>2
  <2>2. \A p \in Positions : Delivered(od, p) = Delivered(t.order, p)
    BY <1>4, <2>1, DeliveredStays DEF TabInv, OrdersOK
  <2> QED BY <2>2 DEF TabInv, StockOK
<1>10. SourcedBy(t.req, od, Counting(od, ap))
  <2> DEFINE T == Counting(t.order, t.approval)
  <2>1. ASSUME NEW id \in T
        PROVE  /\ id \in Counting(od, ap)
               /\ At(od, id).source = At(t.order, id).source
               /\ At(od, id).ordered = At(t.order, id).ordered
    <3>1. /\ id \in Orders \X (1..MaxLines) /\ t.order[id[1]] # None
          /\ id[2] \in DOMAIN t.order[id[1]].lines
          /\ Counts(t.order[id[1]], t.approval[id[1]])
      BY DEF Counting, LineIds
    <3>2. CASE id[1] # o
      <4>1. od[id[1]] = t.order[id[1]] /\ ap[id[1]] = t.approval[id[1]]
        BY <1>2, <1>6, <3>1, <3>2
      <4> QED BY <3>1, <4>1 DEF Counting, LineIds, At
    <3>3. CASE id[1] = o
      <4>1. LinesOf(t.order[o]) = t.order[o].lines
        BY <3>1, <3>3 DEF LinesOf
      <4>2. LineStays(t.order[o].lines[id[2]], row.lines[id[2]]) /\ id[2] \in DOMAIN row.lines
        BY <1>3, <3>1, <3>3, <4>1 DEF RowGrows
      <4> QED BY <1>2, <3>1, <3>3, <4>2 DEF Counting, LineIds, At, LineStays
    <3> QED BY <3>2, <3>3
  <2>2. ASSUME NEW id \in Counting(od, ap)
        PROVE  id \in T
    <3>1. /\ id \in Orders \X (1..MaxLines) /\ od[id[1]] # None
          /\ id[2] \in DOMAIN od[id[1]].lines
          /\ Counts(od[id[1]], ap[id[1]])
      BY DEF Counting, LineIds
    <3>2. CASE id[1] # o
      <4>1. od[id[1]] = t.order[id[1]] /\ ap[id[1]] = t.approval[id[1]]
        BY <1>2, <1>6, <3>1, <3>2
      <4> QED BY <3>1, <4>1 DEF Counting, LineIds, At
    <3>3. CASE id[1] = o
      <4>1. Counts(t.order[o], t.approval[o]) /\ id[2] \in DOMAIN LinesOf(t.order[o])
        BY <1>2, <3>1, <3>3
      <4>2. t.order[o] # None /\ LinesOf(t.order[o]) = t.order[o].lines
        BY <4>1 DEF Counts, LinesOf
      <4> QED BY <3>1, <3>3, <4>1, <4>2 DEF Counting, LineIds
    <3> QED BY <3>2, <3>3
  <2>3. Counting(od, ap) = T
    BY <2>1, <2>2
  <2>4. T \subseteq LineIds(t.order)
    BY DEF Counting
  <2>5. \A s : Asked(od, T, s) = Asked(t.order, T, s)
    <3> HIDE DEF T
    <3> QED BY <2>1, <2>4, AskedStays DEF TabInv, OrdersOK
  <2> QED BY <2>3, <2>5 DEF TabInv, SourcedBy
<1>11. TabInv(u)
  BY <1>1, <1>4, <1>5, <1>8, <1>9, <1>10 DEF TabInv
<1>12. ReqsStay(t.req, u.req)
  BY <1>1 DEF ReqsStay
<1>13. Balanced(t.order, t.stock) => Balanced(od, t.stock)
  <2>1. ASSUME NEW x \in Orders
        PROVE  /\ IsOpen(od[x]) <=> IsOpen(t.order[x])
               /\ IsOpen(t.order[x]) => LinesStay(t.order[x].lines, od[x].lines)
    <3>1. CASE x = o
      BY <1>2, <3>1 DEF IsOpen, LinesOf
    <3>2. CASE x # o
      BY <1>2, <3>2 DEF LinesStay, LineStays
    <3> QED BY <3>1, <3>2
  <2>2. t.order \in OrderTable /\ IsFiniteSet(Existing(t.order))
    BY DEF TabInv, OrdersOK
  <2>3. \A p \in Positions : Due(od, OpenLines(od), p) = Due(t.order, OpenLines(t.order), p)
    BY <1>2, <2>1, <2>2, DueOfOpen
  <2> QED BY <2>3 DEF Balanced
<1> QED BY <1>1, <1>11, <1>12, <1>13 DEF Moved, TablesStay

-----------------------------------------------------------------------------
(* The invariant of the session *)

RowOf(t, e) == IF e \in Reqs THEN t.req[e] ELSE t.order[e]

(* Between the two commits of a decision its row has the decided status already. *)
Handled(t, e, decision) == /\ t.approval[e] = "PENDING"
                           /\ RowOf(t, e) # None
                           /\ RowOf(t, e).status = decision

SessionOK ==
    /\ unflushed \subseteq Positions /\ clash \in BOOLEAN /\ session \in {"ACTIVE", "INACTIVE"}
    /\ deciding \in (Entities \X {"APPROVED", "REJECTED"}) \cup {None}
    /\ deciding # None => Handled(ws, deciding[1], deciding[2])

IInv == TabInv(db) /\ TabInv(ws) /\ SessionOK

(* An approval that sources requisitions may raise half way and leave what it wrote. *)
LeftHalfway == Reqs # {} /\ TablesStay(ws, ws') /\ db' = db /\ ws' # ws

(* What a step makes of the two sets of tables. *)
SessionStep == /\ db' = db \/ db' = ws'
               /\ \/ ws' = db
                  \/ Moved(ws, ws')
                  \/ LeftHalfway

(* A service that saves tables one step away keeps the invariant, committed or not. *)
LEMMA SaveStep ==
    ASSUME IInv, NEW u, Moved(ws, u), CommitOrRollback(u) \/ BareCommit(u),
           deciding = None, UNCHANGED deciding
    PROVE  IInv' /\ SessionStep
<1>1. CASE ~clash
  <2>1. db' = u /\ ws' = u /\ unflushed' = {} /\ clash' = FALSE /\ session' = session
    BY <1>1 DEF CommitOrRollback, BareCommit, Committed
  <2>2. TabInv(u)
    BY DEF Moved, TablesStay
  <2>3. TabInv(db') /\ TabInv(ws')
    BY <2>1, <2>2
  <2>4. SessionOK'
    BY <2>1 DEF SessionOK, IInv
  <2> QED BY <2>1, <2>3, <2>4 DEF IInv, SessionStep
<1>2. CASE clash
  <2>1. /\ db' = db /\ ws' = db /\ unflushed' = {} /\ clash' = FALSE
        /\ session' \in {session, "INACTIVE"}
    BY <1>2 DEF CommitOrRollback, BareCommit, Rollback, FlushFails, Undone
  <2>2. TabInv(db') /\ TabInv(ws')
    BY <2>1 DEF IInv
  <2>3. SessionOK'
    BY <2>1 DEF SessionOK, IInv
  <2> QED BY <2>1, <2>2, <2>3 DEF IInv, SessionStep
<1> QED BY <1>1, <1>2

(* _rollback of the desktop keeps the invariant. *)
LEMMA RollbackStep ==
    ASSUME IInv, Rollback, deciding = None, UNCHANGED deciding
    PROVE  IInv' /\ SessionStep
<1>1. db' = db /\ ws' = db /\ unflushed' = {} /\ clash' = FALSE /\ session' = session
  BY DEF Rollback, Undone
<1>2. TabInv(db') /\ TabInv(ws')
  BY <1>1 DEF IInv
<1>3. SessionOK'
  BY <1>1 DEF SessionOK, IInv
<1> QED BY <1>1, <1>2, <1>3 DEF IInv, SessionStep

(* A restart finds the committed tables. *)
LEMMA RestartStep ==
    ASSUME IInv, Restart
    PROVE  IInv' /\ SessionStep
<1>1. /\ db' = db /\ ws' = db /\ unflushed' = {} /\ clash' = FALSE /\ session' = "ACTIVE"
      /\ deciding' = None
  BY DEF Restart, Reopened
<1>2. TabInv(db') /\ TabInv(ws')
  BY <1>1 DEF IInv
<1>3. SessionOK'
  BY <1>1 DEF SessionOK
<1> QED BY <1>1, <1>2, <1>3 DEF IInv, SessionStep

(* The handler of a decision has committed, or its flush failed. *)
LEMMA HandlerStep ==
    ASSUME IInv, NEW doubled \in BOOLEAN, NEW u, ~doubled => Moved(ws, u), NEW e \in Entities,
           NEW decision \in {"APPROVED", "REJECTED"}, ~doubled => Handled(u, e, decision),
           HandlerDone(e, decision, u, doubled), deciding = None
    PROVE  IInv' /\ SessionStep
<1>1. CASE ~doubled
  <2>1. /\ db' = u /\ ws' = u /\ unflushed' = {} /\ clash' = FALSE /\ session' = session
        /\ deciding' = <<e, decision>>
    BY <1>1 DEF HandlerDone, Committed
  <2>2. TabInv(u)
    BY <1>1 DEF Moved, TablesStay
  <2>3. TabInv(db') /\ TabInv(ws')
    BY <2>1, <2>2
  <2>4. SessionOK'
    BY <1>1, <2>1 DEF SessionOK, IInv
  <2> QED BY <1>1, <2>1, <2>3, <2>4 DEF IInv, SessionStep
<1>2. CASE doubled
  <2>1. /\ db' = db /\ ws' = db /\ unflushed' = {} /\ clash' = FALSE
        /\ session' = "INACTIVE" /\ deciding' = None
    BY <1>2 DEF HandlerDone, FlushFails, Undone
  <2>2. TabInv(db') /\ TabInv(ws')
    BY <2>1 DEF IInv
  <2>3. SessionOK'
    BY <2>1 DEF SessionOK
  <2> QED BY <2>1, <2>2, <2>3 DEF IInv, SessionStep
<1> QED BY <1>1, <1>2

(* What was written stays in the open transaction. *)
LEMMA OpenStep ==
    ASSUME IInv, Reqs # {}, NEW u, TablesStay(ws, u), u # ws,
           NEW rows, rows \subseteq Positions, NEW doubled \in BOOLEAN, LeftOpen(u, rows, doubled),
           deciding = None, UNCHANGED deciding
    PROVE  IInv' /\ SessionStep
<1>1. /\ db' = db /\ ws' = u /\ unflushed' = rows /\ clash' = doubled /\ session' = session
  BY DEF LeftOpen
<1>2. TabInv(u)
  BY DEF TablesStay
<1>3. TabInv(db') /\ TabInv(ws')
  BY <1>1, <1>2 DEF IInv
<1>4. SessionOK'
  BY <1>1 DEF SessionOK, IInv
<1>5. LeftHalfway
  BY <1>1 DEF LeftHalfway
<1> QED BY <1>1, <1>3, <1>4, <1>5 DEF IInv, SessionStep

-----------------------------------------------------------------------------
(* Requisitions *)

(* create_requisition keeps the invariant. *)
LEMMA CreateRequisitionStep ==
    ASSUME IInv, NEW q \in Reqs, NEW room, NEW reference \in References \cup {None},
           CreateRequisition(q, room, reference)
    PROVE  IInv' /\ SessionStep
<1> DEFINE row == [status |-> "DRAFT", lines |-> <<>>, reference |-> reference]
<1>1. PICK u : u = [ws EXCEPT !.req[q] = row]
  OBVIOUS
<1>2. /\ TabInv(ws) /\ deciding = None /\ ws.req[q] = None
      /\ CommitOrRollback(u) /\ UNCHANGED deciding
  BY <1>1 DEF CreateRequisition, Ready, IInv
<1>3. row \in ReqRows
  BY DEF ReqRows, ReqStatuses
<1>4. Written(ws, u, [ws.req EXCEPT ![q] = row], ws.order, ws.approval, ws.stock)
  BY <1>1, <1>2 DEF Written, TabInv, Fields
<1>5. DecisionStays(ws.approval, ws.approval, q) /\ Decided(row, ws.approval[q])
  BY <1>2, NoneAssumption DEF TabInv, DecisionsOK, DecisionStays, Decided
<1>6. LinesOf(ws.req[q]) = <<>> /\ row.lines = <<>> /\ DOMAIN <<>> = {}
  BY <1>2 DEF LinesOf
<1> HIDE DEF row
<1>7. Moved(ws, u)
  BY <1>2, <1>3, <1>4, <1>5, <1>6, ReqSaved
<1> QED BY <1>2, <1>7, SaveStep

(* A requisition as the session sees it. *)
LEMMA ReqSeen ==
    ASSUME NEW t, TabInv(t), NEW q \in Reqs, t.req[q] # None
    PROVE  /\ t.req[q] \in ReqRows /\ t.req[q].lines \in Seq(ReqLines)
           /\ LinesOf(t.req[q]) = t.req[q].lines
           /\ \A k \in DOMAIN t.req[q].lines : t.req[q].lines[k] \in ReqLines
<1>1. t.req[q] \in ReqRows
  BY DEF TabInv, ReqTable
<1>2. t.req[q].lines \in Seq(ReqLines)
  BY <1>1 DEF ReqRows
<1> QED BY <1>1, <1>2 DEF LinesOf

(* add_requisition_line keeps the invariant. *)
LEMMA AddRequisitionLineStep ==
    ASSUME IInv, NEW q \in Reqs, NEW i \in Items, NEW quantity \in Nat,
           AddRequisitionLine(q, i, quantity)
    PROVE  IInv' /\ SessionStep
<1> DEFINE old == ws.req[q]
           line == [item |-> i, requested |-> quantity, sourced |-> 0, status |-> "DRAFT"]
           row == [old EXCEPT !.lines = Append(old.lines, line)]
<1>1. PICK u : u = [ws EXCEPT !.req[q].lines = Append(@, line)]
  OBVIOUS
<1>2. /\ TabInv(ws) /\ deciding = None /\ ws.req[q] # None /\ ws.req[q].status = "DRAFT"
      /\ CommitOrRollback(u) /\ UNCHANGED deciding
  BY <1>1 DEF AddRequisitionLine, DraftRequisition, Ready, IInv
<1>3. /\ old \in ReqRows /\ old.lines \in Seq(ReqLines) /\ LinesOf(ws.req[q]) = old.lines
      /\ \A k \in DOMAIN old.lines : old.lines[k] \in ReqLines
  BY <1>2, ReqSeen
<1>4. line \in ReqLines
  BY DEF ReqLines, ReqLineStatuses
<1>5. u = [ws EXCEPT !.req = [ws.req EXCEPT ![q] = row]]
  BY <1>1
<1> HIDE DEF line
<1>6. /\ Append(old.lines, line) \in Seq(ReqLines)
      /\ DOMAIN old.lines \subseteq DOMAIN Append(old.lines, line)
      /\ \A k \in DOMAIN old.lines : Append(old.lines, line)[k] = old.lines[k]
      /\ \A k \in DOMAIN Append(old.lines, line) \ DOMAIN old.lines :
             Append(old.lines, line)[k] = line
  BY <1>3, <1>4
<1>7. /\ row \in ReqRows /\ row.lines = Append(old.lines, line)
      /\ row.status = "DRAFT" /\ row.reference = old.reference
  BY <1>2, <1>3, <1>6 DEF ReqRows
<1>8. Written(ws, u, [ws.req EXCEPT ![q] = row], ws.order, ws.approval, ws.stock)
  <2> HIDE DEF row
  <2> QED BY <1>2, <1>5 DEF Written, TabInv, Fields
<1>9. DecisionStays(ws.approval, ws.approval, q) /\ Decided(row, ws.approval[q])
  <2>1. row # None
    BY <1>7, NoneAssumption
  <2>2. Decided(old, ws.approval[q]) /\ ws.approval \in ApprovalTable
    BY <1>2 DEF TabInv, DecisionsOK
  <2> HIDE DEF row
  <2> QED BY <1>2, <1>7, <2>1, <2>2 DEF DecisionStays, Decided
<1>10. line.sourced = 0
  BY DEF line
<1> HIDE DEF row
<1>11. \A k \in DOMAIN row.lines :
               IF k \in DOMAIN LinesOf(ws.req[q])
               THEN /\ row.lines[k].requested = LinesOf(ws.req[q])[k].requested
                    /\ row.lines[k].sourced = LinesOf(ws.req[q])[k].sourced
               ELSE row.lines[k].sourced = 0
  BY <1>3, <1>6, <1>7, <1>10
<1>12. DOMAIN LinesOf(ws.req[q]) \subseteq DOMAIN row.lines
  BY <1>3, <1>6, <1>7
<1>13. Moved(ws, u)
  BY <1>2, <1>7, <1>8, <1>9, <1>11, <1>12, ReqSaved
<1> QED BY <1>2, <1>13, SaveStep

(* update_requisition keeps the invariant: only the reference of the draft changes. *)
LEMMA UpdateRequisitionStep ==
    ASSUME IInv, NEW q \in Reqs, NEW room, NEW reference \in References \cup {None},
           UpdateRequisition(q, room, reference)
    PROVE  IInv' /\ SessionStep
<1> DEFINE old == ws.req[q]
           row == [old EXCEPT !.reference = reference]
<1>1. PICK u : u = [ws EXCEPT !.req[q].reference = reference]
  OBVIOUS
<1>2. /\ TabInv(ws) /\ deciding = None /\ ws.req[q] # None
      /\ CommitOrRollback(u) /\ UNCHANGED deciding
  BY <1>1 DEF UpdateRequisition, DraftRequisition, Ready, IInv
<1>3. old \in ReqRows /\ LinesOf(ws.req[q]) = old.lines
  BY <1>2, ReqSeen
<1>4. u = [ws EXCEPT !.req = [ws.req EXCEPT ![q] = row]]
  BY <1>1
<1>5. row \in ReqRows /\ row.lines = old.lines /\ row.status = old.status
  BY <1>3 DEF ReqRows
<1>6. Written(ws, u, [ws.req EXCEPT ![q] = row], ws.order, ws.approval, ws.stock)
  <2> HIDE DEF row
  <2> QED BY <1>2, <1>4 DEF Written, TabInv, Fields
<1>7. DecisionStays(ws.approval, ws.approval, q) /\ Decided(row, ws.approval[q])
  <2>1. row # None
    BY <1>5, NoneAssumption
  <2>2. Decided(old, ws.approval[q]) /\ ws.approval \in ApprovalTable
    BY <1>2 DEF TabInv, DecisionsOK
  <2> HIDE DEF row
  <2> QED BY <1>2, <1>5, <2>1, <2>2 DEF DecisionStays, Decided
<1> HIDE DEF row
<1>8. \A k \in DOMAIN row.lines :
               IF k \in DOMAIN LinesOf(ws.req[q])
               THEN /\ row.lines[k].requested = LinesOf(ws.req[q])[k].requested
                    /\ row.lines[k].sourced = LinesOf(ws.req[q])[k].sourced
               ELSE row.lines[k].sourced = 0
  BY <1>3, <1>5
<1>9. DOMAIN LinesOf(ws.req[q]) \subseteq DOMAIN row.lines
  BY <1>3, <1>5
<1>10. Moved(ws, u)
  BY <1>2, <1>5, <1>6, <1>7, <1>8, <1>9, ReqSaved
<1> QED BY <1>2, <1>10, SaveStep

(* A requisition gets a new status, and so do its lines. *)
LEMMA ReqStatusSaved ==
    ASSUME NEW t, TabInv(t), NEW u, NEW q \in Reqs, t.req[q] # None,
           NEW status \in ReqStatuses, NEW lineStatus \in ReqLineStatuses, NEW ap,
           Written(t, u, [t.req EXCEPT ![q] = [t.req[q] EXCEPT
                               !.status = status,
                               !.lines = WithLineStatus(t.req[q].lines, lineStatus)]],
                   t.order, ap, t.stock),
           DecisionStays(t.approval, ap, q),
           ap[q] \in {None, "PENDING"}
    PROVE  Moved(t, u)
<1> DEFINE old == t.req[q]
           lines == WithLineStatus(t.req[q].lines, lineStatus)
           row == [old EXCEPT !.status = status, !.lines = lines]
<1>1. /\ old \in ReqRows /\ old.lines \in Seq(ReqLines) /\ LinesOf(t.req[q]) = old.lines
  BY ReqSeen
<1>2. lines \in Seq(ReqLines) /\ ReqLinesStay(old.lines, lines)
  BY <1>1, ReqLinesMarked
<1> HIDE DEF lines
<1>3. /\ row \in ReqRows /\ row.lines = lines /\ row.status = status
      /\ row.reference = old.reference
  BY <1>1, <1>2 DEF ReqRows
<1>4. row # None
  BY <1>3, NoneAssumption
<1>5. Written(t, u, [t.req EXCEPT ![q] = row], t.order, ap, t.stock)
  BY DEF lines
<1> HIDE DEF row
<1>6. Decided(row, ap[q])
  BY <1>4, NoneAssumption DEF Decided
<1>7. \A k \in DOMAIN row.lines :
               IF k \in DOMAIN LinesOf(t.req[q])
               THEN /\ row.lines[k].requested = LinesOf(t.req[q])[k].requested
                    /\ row.lines[k].sourced = LinesOf(t.req[q])[k].sourced
               ELSE row.lines[k].sourced = 0
  BY <1>1, <1>2, <1>3 DEF ReqLinesStay
<1>8. DOMAIN LinesOf(t.req[q]) \subseteq DOMAIN row.lines
  BY <1>1, <1>2, <1>3 DEF ReqLinesStay
<1> QED BY <1>3, <1>5, <1>6, <1>7, <1>8, ReqSaved

(* submit_requisition keeps the invariant. *)
LEMMA SubmitRequisitionStep ==
    ASSUME IInv, NEW q \in Reqs, SubmitRequisition(q)
    PROVE  IInv' /\ SessionStep
<1> DEFINE lines == WithLineStatus(ws.req[q].lines, "DRAFT")
           row == [ws.req[q] EXCEPT !.status = "SUBMITTED", !.lines = lines]
           ap == [ws.approval EXCEPT ![q] = "PENDING"]
<1>1. PICK u : u = [ws EXCEPT !.req[q].status = "SUBMITTED",
                              !.req[q].lines = WithLineStatus(@, "DRAFT"),
                              !.approval[q] = "PENDING"]
  OBVIOUS
<1>2. /\ TabInv(ws) /\ deciding = None /\ ws.req[q] # None
      /\ BareCommit(u) /\ UNCHANGED deciding
  BY <1>1 DEF SubmitRequisition, DraftRequisition, Ready, IInv
<1>3. ws.req \in ReqTable /\ ws.req[q] \in ReqRows /\ ws.approval \in ApprovalTable
  BY <1>2, ReqSeen DEF TabInv, DecisionsOK
<1>4. Written(ws, u, [ws.req EXCEPT ![q] = row], ws.order, ap, ws.stock)
  BY <1>1, <1>2, <1>3 DEF Written, TabInv, Fields, ReqTable, ReqRows
<1>5. DecisionStays(ws.approval, ap, q) /\ ap[q] = "PENDING"
  BY <1>3 DEF DecisionStays, ApprovalTable, Entities
<1> HIDE DEF ap
<1>6. Moved(ws, u)
  BY <1>2, <1>4, <1>5, ReqStatusSaved DEF ReqStatuses, ReqLineStatuses
<1> QED BY <1>2, <1>6, SaveStep

(* cancel_requisition keeps the invariant. *)
LEMMA CancelRequisitionStep ==
    ASSUME IInv, NEW q \in Reqs, CancelRequisition(q)
    PROVE  IInv' /\ SessionStep
<1> DEFINE lines == WithLineStatus(ws.req[q].lines, "CANCELLED")
           row == [ws.req[q] EXCEPT !.status = "CANCELLED", !.lines = lines]
<1>1. PICK u : u = [ws EXCEPT !.req[q].status = "CANCELLED",
                              !.req[q].lines = WithLineStatus(@, "CANCELLED")]
  OBVIOUS
<1>2. /\ TabInv(ws) /\ deciding = None /\ ws.req[q] # None /\ ws.req[q].status = "DRAFT"
      /\ CommitOrRollback(u) /\ UNCHANGED deciding
  BY <1>1 DEF CancelRequisition, DraftRequisition, Ready, IInv
<1>3. ws.req \in ReqTable /\ ws.req[q] \in ReqRows /\ ws.approval \in ApprovalTable
  BY <1>2, ReqSeen DEF TabInv, DecisionsOK
<1>4. Written(ws, u, [ws.req EXCEPT ![q] = row], ws.order, ws.approval, ws.stock)
  BY <1>1, <1>2, <1>3 DEF Written, TabInv, Fields, ReqTable, ReqRows
<1>5. DecisionStays(ws.approval, ws.approval, q)
  BY <1>3 DEF DecisionStays
<1>6. ws.approval[q] \in {None, "PENDING"}
  BY <1>2, <1>3 DEF TabInv, DecisionsOK, Decided, ApprovalTable, Entities
<1>7. "CANCELLED" \in ReqStatuses /\ "CANCELLED" \in ReqLineStatuses
  BY DEF ReqStatuses, ReqLineStatuses
<1>8. PICK ap : ap = ws.approval
  OBVIOUS
<1>9. Written(ws, u, [ws.req EXCEPT ![q] = row], ws.order, ap, ws.stock)
  BY <1>4, <1>8
<1>10. DecisionStays(ws.approval, ap, q) /\ ap[q] \in {None, "PENDING"}
  BY <1>5, <1>6, <1>8
<1>11. Moved(ws, u)
  BY <1>2, <1>7, <1>9, <1>10, ReqStatusSaved
<1> QED BY <1>2, <1>11, SaveStep

(* The decision on a requisition keeps the invariant. *)
LEMMA DecideRequisitionStep ==
    ASSUME IInv, NEW q \in Reqs, NEW decision \in {"APPROVED", "REJECTED"},
           NEW lineStatus \in ReqLineStatuses, DecideRequisition(q, decision, lineStatus)
    PROVE  IInv' /\ SessionStep
<1> DEFINE lines == WithLineStatus(ws.req[q].lines, lineStatus)
           row == [ws.req[q] EXCEPT !.status = decision, !.lines = lines]
<1>1. PICK u : u = [ws EXCEPT !.req[q].status = decision,
                              !.req[q].lines = WithLineStatus(@, lineStatus)]
  OBVIOUS
<1>2. /\ TabInv(ws) /\ deciding = None /\ ws.approval[q] = "PENDING"
      /\ HandlerDone(q, decision, u, clash) /\ clash \in BOOLEAN
  BY <1>1 DEF DecideRequisition, AwaitsDecision, Ready, IInv, SessionOK
<1>3. ws.req[q] # None
  BY <1>2, NoneAssumption DEF TabInv, DecisionsOK, Decided
<1>4. ws.req \in ReqTable /\ ws.req[q] \in ReqRows /\ ws.approval \in ApprovalTable
  BY <1>2, <1>3, ReqSeen DEF TabInv, DecisionsOK
<1>5. Written(ws, u, [ws.req EXCEPT ![q] = row], ws.order, ws.approval, ws.stock)
  BY <1>1, <1>2, <1>4 DEF Written, TabInv, Fields, ReqTable, ReqRows
<1>6. DecisionStays(ws.approval, ws.approval, q)
  BY <1>4 DEF DecisionStays
<1>7. PICK status \in ReqStatuses : status = decision
  BY DEF ReqStatuses
<1>8. PICK ap : ap = ws.approval
  OBVIOUS
<1> DEFINE new == [ws.req[q] EXCEPT !.status = status, !.lines = lines]
<1>9. Written(ws, u, [ws.req EXCEPT ![q] = new], ws.order, ap, ws.stock)
  BY <1>5, <1>7, <1>8
<1>10. DecisionStays(ws.approval, ap, q) /\ ap[q] \in {None, "PENDING"} /\ TabInv(ws)
  BY <1>2, <1>6, <1>8
<1>11. Moved(ws, u) /\ u.req[q] # None /\ u.req[q].status = status /\ u.approval[q] = ap[q]
  <2>1. TabInv(ws) /\ DecisionStays(ws.approval, ap, q) /\ ap[q] \in {None, "PENDING"}
    BY <1>10
  <2>2. lineStatus \in ReqLineStatuses /\ status \in ReqStatuses
    OBVIOUS
  <2>3. Moved(ws, u)
    BY <1>3, <1>9, <2>1, <2>2, ReqStatusSaved
  <2>4. u.req[q] # None
    BY <1>3, <2>3 DEF Moved, TablesStay, ReqsStay
  <2>5. u.req[q].status = status
    BY <1>4, <1>9 DEF Written, ReqTable, ReqRows
  <2>6. u.approval[q] = ap[q]
    BY <1>9 DEF Written
  <2> QED BY <2>3, <2>4, <2>5, <2>6
<1>12. u.approval[q] = "PENDING"
  BY <1>2, <1>8, <1>11
<1>13. Handled(u, q, decision) /\ q \in Entities
  BY <1>7, <1>11, <1>12 DEF Handled, RowOf, Entities
<1> QED BY <1>2, <1>11, <1>13, HandlerStep

-----------------------------------------------------------------------------
(* Orders *)

(* An order as the session sees it. *)
LEMMA OrderSeen ==
    ASSUME NEW t, TabInv(t), NEW o \in Orders, t.order[o] # None
    PROVE  /\ OrderOK(t.order[o]) /\ t.order[o] \in OrderRows
           /\ t.order[o].lines \in Seq(OrderLines)
           /\ LinesOf(t.order[o]) = t.order[o].lines
           /\ \A k \in DOMAIN t.order[o].lines : t.order[o].lines[k] \in OrderLines
           /\ Decided(t.order[o], t.approval[o])
           /\ t.order[o].status = "DRAFT" => t.approval[o] = None
           /\ t.approval \in ApprovalTable /\ t.order \in OrderTable
<1>1. OrderOK(t.order[o]) /\ t.order \in OrderTable
  BY DEF TabInv, OrdersOK, Existing
<1>2. t.order[o] \in OrderRows
  BY <1>1 DEF OrderOK
<1>3. t.order[o].lines \in Seq(OrderLines)
  BY <1>2 DEF OrderRows
<1>4. /\ Decided(t.order[o], t.approval[o])
      /\ t.order[o].status = "DRAFT" => t.approval[o] = None
      /\ t.approval \in ApprovalTable
  BY DEF TabInv, DecisionsOK
<1> QED BY <1>1, <1>2, <1>3, <1>4 DEF LinesOf

(* An order is saved with the lines it had, but for their statuses. *)
LEMMA OrderChanged ==
    ASSUME NEW t, TabInv(t), NEW u, NEW o \in Orders, t.order[o] # None,
           NEW row \in OrderRows, LinesStay(t.order[o].lines, row.lines), NEW ap,
           Written(t, u, t.req, [t.order EXCEPT ![o] = row], ap, t.stock),
           row.status # "UNDER_REVIEW",
           row.status \in {"FULLY_RECEIVED", "CLOSED"} <=> FullyProcessed(t.order[o].lines),
           row.status = "PARTIALLY_RECEIVED" => t.order[o].status = "PARTIALLY_RECEIVED",
           DecisionStays(t.approval, ap, o), Decided(row, ap[o]),
           row.status = "DRAFT" => ap[o] = None,
           Counts(row, ap[o]) <=> Counts(t.order[o], t.approval[o]),
           Fresh(row) => Fresh(t.order[o]), IsOpen(row) <=> IsOpen(t.order[o])
    PROVE  Moved(t, u)
<1> DEFINE old == t.order[o]
<1>1. /\ OrderOK(old) /\ old.lines \in Seq(OrderLines) /\ LinesOf(t.order[o]) = old.lines
      /\ \A k \in DOMAIN old.lines : old.lines[k] \in OrderLines
  BY OrderSeen
<1>2. row # None /\ LinesOf(row) = row.lines /\ row.lines \in Seq(OrderLines)
  BY NoneAssumption DEF LinesOf, OrderRows
<1>3. DOMAIN row.lines = DOMAIN old.lines /\ Len(row.lines) = Len(old.lines)
  BY DEF LinesStay
<1>4. \A k \in DOMAIN old.lines : LineStays(old.lines[k], row.lines[k])
  BY DEF LinesStay
<1>5. \A k \in DOMAIN old.lines : /\ Processed(row.lines[k]) = Processed(old.lines[k])
                                  /\ row.lines[k].ordered = old.lines[k].ordered
  BY <1>4 DEF LineStays, Processed
<1>6. FullyProcessed(row.lines) <=> FullyProcessed(old.lines)
  BY <1>1, <1>2, StayProcessed
<1>7. OrderOK(row)
  BY <1>1, <1>3, <1>5, <1>6 DEF OrderOK
<1>8. RowGrows(t.order[o], row)
  BY <1>1, <1>2, <1>3, <1>4 DEF RowGrows
<1>9. \A k \in DOMAIN row.lines \ DOMAIN LinesOf(t.order[o]) :
               SourceExists(t.req, row.lines[k].source)
  BY <1>1, <1>3
<1>10. DOMAIN row.lines = DOMAIN LinesOf(t.order[o])
  BY <1>1, <1>3
<1>11. LinesStay(LinesOf(t.order[o]), row.lines)
  BY <1>1
<1> QED BY <1>7, <1>8, <1>9, <1>10, <1>11, OrderSaved

(* Lines left as they are count the same. *)
LEMMA NoneStays ==
    ASSUME NEW lines
    PROVE  LinesStay(lines, lines)
BY DEF LinesStay, LineStays

(* create_purchase_order keeps the invariant. *)
LEMMA CreatePurchaseOrderStep ==
    ASSUME IInv, NEW o \in Orders, NEW source \in Reqs \cup {None}, CreatePurchaseOrder(o, source)
    PROVE  IInv' /\ SessionStep
<1> DEFINE row == [status |-> "DRAFT", source |-> source, lines |-> <<>>]
<1>1. PICK u : u = [ws EXCEPT !.order[o] = row]
  OBVIOUS
<1>2. /\ TabInv(ws) /\ deciding = None /\ ws.order[o] = None
      /\ CommitOrRollback(u) /\ UNCHANGED deciding
  BY <1>1 DEF CreatePurchaseOrder, Ready, IInv
<1>3. row \in OrderRows /\ row # None /\ row.lines = <<>> /\ row.status = "DRAFT"
  <2>1. row \in OrderRows
    BY DEF OrderRows, OrderStatuses
  <2> HIDE DEF OrderRows
  <2>2. row # None
    BY <2>1, NoneAssumption
  <2> QED BY <2>1, <2>2
<1>4. Written(ws, u, ws.req, [ws.order EXCEPT ![o] = row], ws.approval, ws.stock)
  BY <1>1, <1>2 DEF Written, TabInv, Fields
<1>5. ws.approval[o] = None /\ ws.approval \in ApprovalTable
  BY <1>2 DEF TabInv, DecisionsOK, Decided
<1>6. DOMAIN <<>> = {} /\ Len(<<>>) = 0
  OBVIOUS
<1> HIDE DEF row
<1>7. OrderOK(row)
  BY <1>3, <1>6, BoundsAssumption DEF OrderOK, FullyProcessed
<1>8. /\ RowGrows(ws.order[o], row)
      /\ \A k \in DOMAIN row.lines \ DOMAIN LinesOf(ws.order[o]) :
             SourceExists(ws.req, row.lines[k].source)
      /\ ~Counts(row, ws.approval[o]) /\ ~Counts(ws.order[o], ws.approval[o])
  BY <1>2, <1>3, <1>5, <1>6 DEF RowGrows, LinesOf, Counts
<1>9. DecisionStays(ws.approval, ws.approval, o) /\ Decided(row, ws.approval[o])
  BY <1>3, <1>5, NoneAssumption DEF DecisionStays, Decided
<1>10. ~IsOpen(row) /\ ~IsOpen(ws.order[o])
  BY <1>2, <1>3 DEF IsOpen, OpenForReceiving
<1>11. Moved(ws, u)
  BY <1>2, <1>4, <1>5, <1>7, <1>8, <1>9, <1>10, OrderSaved
<1> QED BY <1>2, <1>11, SaveStep

(* add_purchase_order_line keeps the invariant. *)
LEMMA AddPurchaseOrderLineStep ==
    ASSUME IInv, NEW o \in Orders, NEW p \in Positions, NEW quantity \in Quantities,
           NEW source \in Sources \cup {None}, AddPurchaseOrderLine(o, p, quantity, source)
    PROVE  IInv' /\ SessionStep
<1> DEFINE old == ws.order[o]
           line == [position |-> p, ordered |-> quantity, received |-> 0, rejected |-> 0,
                    status |-> "DRAFT", source |-> source]
           row == [old EXCEPT !.lines = Append(old.lines, line)]
<1>1. PICK u : u = [ws EXCEPT !.order[o].lines = Append(@, line)]
  OBVIOUS
<1>2. /\ TabInv(ws) /\ deciding = None /\ ws.order[o] # None /\ ws.order[o].status = "DRAFT"
      /\ Len(old.lines) < MaxLines
      /\ SourceLineAllowed(o, source, p[1], quantity)
      /\ CommitOrRollback(u) /\ UNCHANGED deciding
  BY <1>1 DEF AddPurchaseOrderLine, DraftOrder, Ready, IInv
<1>3. /\ OrderOK(old) /\ old \in OrderRows /\ old.lines \in Seq(OrderLines)
      /\ LinesOf(ws.order[o]) = old.lines
      /\ \A k \in DOMAIN old.lines : old.lines[k] \in OrderLines
      /\ ws.approval[o] = None /\ ws.approval \in ApprovalTable
  BY <1>2, OrderSeen
<1>4. /\ line \in OrderLines /\ Processed(line) = 0 /\ line.ordered > 0
      /\ line.received = 0 /\ line.source = source
  BY BoundsAssumption DEF OrderLines, OrderLineStatuses, Processed
<1>5. u = [ws EXCEPT !.order = [ws.order EXCEPT ![o] = row]]
  BY <1>1
<1>6. SourceExists(ws.req, source)
  BY <1>2 DEF SourceLineAllowed, SourceExists
<1> HIDE DEF line
<1> DEFINE n == Len(old.lines) + 1
           new == Append(old.lines, line)
<1>7. /\ new \in Seq(OrderLines) /\ n \in Nat /\ Len(new) = n
      /\ DOMAIN old.lines = 1..n - 1 /\ DOMAIN new = 1..n
      /\ \A k \in DOMAIN old.lines : new[k] = old.lines[k]
      /\ new[n] = line
  BY <1>3, <1>4
<1>8. row \in OrderRows /\ row.lines = new /\ row.status = "DRAFT"
  BY <1>2, <1>3, <1>7 DEF OrderRows
<1>9. Written(ws, u, ws.req, [ws.order EXCEPT ![o] = row], ws.approval, ws.stock)
  <2> HIDE DEF row
  <2> QED BY <1>2, <1>5 DEF Written, TabInv, Fields
<1> HIDE DEF row, new
<1>10. row # None /\ LinesOf(row) = new
  BY <1>8, NoneAssumption DEF LinesOf
<1>11. OrderOK(row)
  <2>1. Outstanding(new[n]) # 0 /\ n \in DOMAIN new
    <3>1. ~(Processed(line) >= line.ordered)
      BY <1>4 DEF Processed, OrderLines
    <3>2. Outstanding(line) # 0
      BY <1>4, <3>1, OutstandingIs
    <3> QED BY <1>7, <3>2
  <2>2. ~FullyProcessed(new)
    BY <2>1 DEF FullyProcessed
  <2>3. \A k \in DOMAIN new : Processed(new[k]) <= new[k].ordered
    <3>1. ASSUME NEW k \in DOMAIN new
          PROVE  k \in DOMAIN old.lines \/ k = n
      BY <1>7
    <3>2. Processed(line) <= line.ordered
      BY <1>4 DEF OrderLines
    <3> QED BY <1>3, <1>7, <3>1, <3>2 DEF OrderOK
  <2>4. Len(new) <= MaxLines
    BY <1>2, <1>3, <1>7, BoundsAssumption
  <2>5. \A k \in DOMAIN new : Processed(new[k]) = 0
    <3>1. \A k \in DOMAIN old.lines : Processed(old.lines[k]) = 0
      BY <1>2, <1>3 DEF OrderOK, Fresh
    <3>2. ASSUME NEW k \in DOMAIN new
          PROVE  k \in DOMAIN old.lines \/ k = n
      BY <1>7
    <3> QED BY <1>4, <1>7, <3>1, <3>2
  <2> QED BY <1>8, <2>2, <2>3, <2>4, <2>5 DEF OrderOK
<1>12. RowGrows(ws.order[o], row)
  <2>1. \A k \in DOMAIN new \ DOMAIN old.lines : new[k] = line
    BY <1>7
  <2> QED BY <1>3, <1>4, <1>7, <1>10, <2>1 DEF RowGrows, LineStays
<1>13. \A k \in DOMAIN row.lines \ DOMAIN LinesOf(ws.order[o]) :
             SourceExists(ws.req, row.lines[k].source)
  <2>1. \A k \in DOMAIN new \ DOMAIN old.lines : new[k] = line
    BY <1>7
  <2> QED BY <1>3, <1>4, <1>6, <1>8, <2>1
<1>14. /\ DecisionStays(ws.approval, ws.approval, o) /\ Decided(row, ws.approval[o])
       /\ ~Counts(row, ws.approval[o]) /\ ~Counts(ws.order[o], ws.approval[o])
  BY <1>3, <1>10, NoneAssumption DEF DecisionStays, Decided, Counts
<1>15. ~IsOpen(row) /\ ~IsOpen(ws.order[o])
  BY <1>2, <1>8 DEF IsOpen, OpenForReceiving
<1>16. Moved(ws, u)
  BY <1>2, <1>3, <1>9, <1>11, <1>12, <1>13, <1>14, <1>15, OrderSaved
<1> QED BY <1>2, <1>16, SaveStep

(* update_purchase_order keeps the invariant. *)
LEMMA UpdatePurchaseOrderStep ==
    ASSUME IInv, NEW o \in Orders, NEW source \in Reqs \cup {None}, UpdatePurchaseOrder(o, source)
    PROVE  IInv' /\ SessionStep
<1> DEFINE old == ws.order[o]
           row == [old EXCEPT !.source = source]
<1>1. PICK u : u = [ws EXCEPT !.order[o].source = source]
  OBVIOUS
<1>2. /\ TabInv(ws) /\ deciding = None /\ ws.order[o] # None /\ ws.order[o].status = "DRAFT"
      /\ CommitOrRollback(u) /\ UNCHANGED deciding
  BY <1>1 DEF UpdatePurchaseOrder, DraftOrder, Ready, IInv
<1>3. /\ OrderOK(old) /\ old \in OrderRows
      /\ ws.approval[o] = None /\ ws.approval \in ApprovalTable
  BY <1>2, OrderSeen
<1>4. row \in OrderRows /\ row.lines = old.lines /\ row.status = "DRAFT"
  BY <1>2, <1>3 DEF OrderRows
<1>5. row # None
  BY <1>4, NoneAssumption
<1>6. u = [ws EXCEPT !.order = [ws.order EXCEPT ![o] = row]]
  BY <1>1
<1>7. Written(ws, u, ws.req, [ws.order EXCEPT ![o] = row], ws.approval, ws.stock)
  <2> HIDE DEF row
  <2> QED BY <1>2, <1>6 DEF Written, TabInv, Fields
<1> HIDE DEF row
<1>8. LinesStay(ws.order[o].lines, row.lines)
  BY <1>4, NoneStays
<1>9. row.status \in {"FULLY_RECEIVED", "CLOSED"} <=> FullyProcessed(ws.order[o].lines)
  BY <1>2, <1>3, <1>4 DEF OrderOK
<1>10. /\ DecisionStays(ws.approval, ws.approval, o) /\ Decided(row, ws.approval[o])
       /\ ~Counts(row, ws.approval[o]) /\ ~Counts(ws.order[o], ws.approval[o])
  BY <1>3, <1>5, NoneAssumption DEF DecisionStays, Decided, Counts
<1>11. /\ row.status # "UNDER_REVIEW" /\ row.status # "PARTIALLY_RECEIVED"
       /\ Fresh(ws.order[o]) /\ ~IsOpen(row) /\ ~IsOpen(ws.order[o])
  BY <1>2, <1>4 DEF Fresh, IsOpen, OpenForReceiving
<1>12. Moved(ws, u)
  BY <1>2, <1>3, <1>4, <1>7, <1>8, <1>9, <1>10, <1>11, OrderChanged
<1> QED BY <1>2, <1>12, SaveStep

(* submit_purchase_order keeps the invariant. *)
LEMMA SubmitPurchaseOrderStep ==
    ASSUME IInv, NEW o \in Orders, SubmitPurchaseOrder(o)
    PROVE  IInv' /\ SessionStep
<1> DEFINE old == ws.order[o]
           row == [old EXCEPT !.status = "SUBMITTED"]
           new == [ws.approval EXCEPT ![o] = "PENDING"]
<1>1. PICK u : u = [ws EXCEPT !.order[o].status = "SUBMITTED", !.approval[o] = "PENDING"]
  OBVIOUS
<1>2. /\ TabInv(ws) /\ deciding = None /\ ws.order[o] # None /\ ws.order[o].status = "DRAFT"
      /\ BareCommit(u) /\ UNCHANGED deciding
  BY <1>1 DEF SubmitPurchaseOrder, DraftOrder, Ready, IInv
<1>3. /\ OrderOK(old) /\ old \in OrderRows
      /\ ws.approval[o] = None /\ ws.approval \in ApprovalTable
  BY <1>2, OrderSeen
<1>4. row \in OrderRows /\ row.lines = old.lines /\ row.status = "SUBMITTED"
  BY <1>2, <1>3 DEF OrderRows, OrderStatuses
<1>5. row # None
  BY <1>4, NoneAssumption
<1>6. u = [ws EXCEPT !.order = [ws.order EXCEPT ![o] = row], !.approval = new]
  BY <1>1, <1>2 DEF TabInv, Fields
<1>7. PICK ap : ap = new
  OBVIOUS
<1>8. ap \in ApprovalTable /\ DecisionStays(ws.approval, ap, o) /\ ap[o] = "PENDING"
  BY <1>3, <1>7 DEF DecisionStays, ApprovalTable, Entities
<1>9. Written(ws, u, ws.req, [ws.order EXCEPT ![o] = row], ap, ws.stock)
  <2> HIDE DEF row, new
  <2> QED BY <1>2, <1>6, <1>7 DEF Written, TabInv, Fields
<1> HIDE DEF row, new
<1>10. LinesStay(ws.order[o].lines, row.lines)
  BY <1>4, NoneStays
<1>11. row.status \in {"FULLY_RECEIVED", "CLOSED"} <=> FullyProcessed(ws.order[o].lines)
  BY <1>2, <1>3, <1>4 DEF OrderOK
<1>12. /\ Decided(row, ap[o])
       /\ ~Counts(row, ap[o]) /\ ~Counts(ws.order[o], ws.approval[o])
  BY <1>3, <1>4, <1>5, <1>8 DEF Decided, Counts
<1>13. /\ row.status # "UNDER_REVIEW" /\ row.status # "PARTIALLY_RECEIVED"
       /\ row.status # "DRAFT"
       /\ Fresh(ws.order[o]) /\ ~IsOpen(row) /\ ~IsOpen(ws.order[o])
  BY <1>2, <1>4 DEF Fresh, IsOpen, OpenForReceiving
<1>14. Moved(ws, u)
  BY <1>2, <1>4, <1>8, <1>9, <1>10, <1>11, <1>12, <1>13, OrderChanged
<1> QED BY <1>2, <1>14, SaveStep

(* cancel_purchase_order keeps the invariant. *)
LEMMA CancelPurchaseOrderStep ==
    ASSUME IInv, NEW o \in Orders, CancelPurchaseOrder(o)
    PROVE  IInv' /\ SessionStep
<1> DEFINE old == ws.order[o]
           lines == WithLineStatus(old.lines, "CANCELLED")
           row == [old EXCEPT !.status = "CANCELLED", !.lines = lines]
<1>1. PICK u : u = [ws EXCEPT !.order[o].status = "CANCELLED",
                              !.order[o].lines = WithLineStatus(@, "CANCELLED")]
  OBVIOUS
<1>2. /\ TabInv(ws) /\ deciding = None /\ ws.order[o] # None /\ ws.order[o].status = "DRAFT"
      /\ CommitOrRollback(u) /\ UNCHANGED deciding
  BY <1>1 DEF CancelPurchaseOrder, DraftOrder, Ready, IInv
<1>3. /\ OrderOK(old) /\ old \in OrderRows /\ old.lines \in Seq(OrderLines)
      /\ ws.approval[o] = None /\ ws.approval \in ApprovalTable /\ ws.order \in OrderTable
  BY <1>2, OrderSeen
<1>4. lines \in Seq(OrderLines) /\ LinesStay(old.lines, lines)
  BY <1>3, OrderLinesMarked DEF OrderLineStatuses
<1>5. u = [ws EXCEPT !.order = [ws.order EXCEPT ![o] = row]]
  BY <1>1, <1>2, <1>3 DEF TabInv, Fields, OrderTable, OrderRows
<1> HIDE DEF lines
<1>6. row \in OrderRows /\ row.lines = lines /\ row.status = "CANCELLED"
  BY <1>3, <1>4 DEF OrderRows, OrderStatuses
<1>7. Written(ws, u, ws.req, [ws.order EXCEPT ![o] = row], ws.approval, ws.stock)
  <2> HIDE DEF row
  <2> QED BY <1>2, <1>5 DEF Written, TabInv, Fields
<1>8. row # None
  BY <1>6, NoneAssumption
<1> HIDE DEF row
<1>9. row.status \in {"FULLY_RECEIVED", "CLOSED"} <=> FullyProcessed(ws.order[o].lines)
  BY <1>2, <1>3, <1>6 DEF OrderOK
<1>10. /\ DecisionStays(ws.approval, ws.approval, o) /\ Decided(row, ws.approval[o])
       /\ ~Counts(row, ws.approval[o]) /\ ~Counts(ws.order[o], ws.approval[o])
  BY <1>3, <1>8, NoneAssumption DEF DecisionStays, Decided, Counts
<1>11. /\ row.status # "UNDER_REVIEW" /\ row.status # "PARTIALLY_RECEIVED"
       /\ LinesStay(ws.order[o].lines, row.lines)
       /\ Fresh(ws.order[o]) /\ ~IsOpen(row) /\ ~IsOpen(ws.order[o])
  BY <1>2, <1>4, <1>6 DEF Fresh, IsOpen, OpenForReceiving
<1>12. Moved(ws, u)
  BY <1>2, <1>3, <1>6, <1>7, <1>9, <1>10, <1>11, OrderChanged
<1> QED BY <1>2, <1>12, SaveStep

(* An approved order is sent, or closed when everything is processed. *)
LEMMA OrderMovedOn ==
    ASSUME IInv, NEW o \in Orders, ws.order[o] # None, deciding = None, UNCHANGED deciding,
           NEW status \in {"SENT", "CLOSED"},
           ValidTransition(ws.order[o].status, status, PURCHASE_ORDER_STATUS_TRANSITIONS),
           status = "CLOSED" <=> FullyProcessed(ws.order[o].lines),
           CommitOrRollback([ws EXCEPT !.order[o].status = status])
    PROVE  IInv' /\ SessionStep
<1> DEFINE old == ws.order[o]
           row == [old EXCEPT !.status = status]
<1>1. PICK u : u = [ws EXCEPT !.order[o].status = status]
  OBVIOUS
<1>2. TabInv(ws) /\ CommitOrRollback(u)
  BY <1>1 DEF IInv
<1>3. /\ OrderOK(old) /\ old \in OrderRows /\ ws.order \in OrderTable
      /\ Decided(old, ws.approval[o]) /\ ws.approval \in ApprovalTable
  BY <1>2, OrderSeen
<1>4. row \in OrderRows /\ row.lines = old.lines /\ row.status = status
  BY <1>3 DEF OrderRows, OrderStatuses
<1>5. row # None
  BY <1>4, NoneAssumption
<1>6. u = [ws EXCEPT !.order = [ws.order EXCEPT ![o] = row]]
  BY <1>1
<1>7. Written(ws, u, ws.req, [ws.order EXCEPT ![o] = row], ws.approval, ws.stock)
  <2> HIDE DEF row
  <2> QED BY <1>2, <1>6 DEF Written, TabInv, Fields
<1>8. old.status \notin {"DRAFT", "SUBMITTED", "REJECTED", "CANCELLED"}
  BY DEF ValidTransition, PURCHASE_ORDER_STATUS_TRANSITIONS
<1> HIDE DEF row
<1>9. LinesStay(ws.order[o].lines, row.lines)
  BY <1>4, NoneStays
<1>10. DecisionStays(ws.approval, ws.approval, o)
  BY <1>3 DEF DecisionStays
<1>11. Decided(row, ws.approval[o])
  BY <1>3, <1>4, <1>5, <1>8 DEF Decided
<1>12. Counts(row, ws.approval[o]) <=> Counts(ws.order[o], ws.approval[o])
  BY <1>4, <1>5, <1>8 DEF Counts
<1>13. /\ row.status # "UNDER_REVIEW" /\ row.status # "PARTIALLY_RECEIVED" /\ row.status # "DRAFT"
       /\ row.status \in {"FULLY_RECEIVED", "CLOSED"} <=> FullyProcessed(ws.order[o].lines)
       /\ ~Fresh(row)
  BY <1>4 DEF Fresh
<1>14. IsOpen(row) <=> IsOpen(ws.order[o])
  <2>1. status = "CLOSED" => ~IsOpen(row) /\ ~IsOpen(old)
    BY <1>3, <1>4 DEF IsOpen, OpenForReceiving, OrderOK
  <2>2. status = "SENT" => old.status \in {"APPROVED", "SENT"}
    BY DEF ValidTransition, PURCHASE_ORDER_STATUS_TRANSITIONS
  <2> QED BY <1>4, <1>5, <2>1, <2>2 DEF IsOpen, OpenForReceiving
<1>15. Moved(ws, u)
  BY <1>2, <1>4, <1>7, <1>9, <1>10, <1>11, <1>12, <1>13, <1>14, OrderChanged
<1> QED BY <1>2, <1>15, SaveStep

(* send_purchase_order keeps the invariant. *)
LEMMA SendPurchaseOrderStep ==
    ASSUME IInv, NEW o \in Orders, SendPurchaseOrder(o)
    PROVE  IInv' /\ SessionStep
<1>1. /\ ws.order[o] # None /\ deciding = None /\ UNCHANGED deciding
      /\ ValidTransition(ws.order[o].status, "SENT", PURCHASE_ORDER_STATUS_TRANSITIONS)
      /\ CommitOrRollback([ws EXCEPT !.order[o].status = "SENT"])
  BY DEF SendPurchaseOrder, Ready
<1>2. ws.order[o].status \in {"APPROVED", "SENT"}
  BY <1>1 DEF ValidTransition, PURCHASE_ORDER_STATUS_TRANSITIONS
<1>3. OrderOK(ws.order[o])
  BY <1>1, OrderSeen DEF IInv
<1>4. ~FullyProcessed(ws.order[o].lines)
  BY <1>2, <1>3 DEF OrderOK
<1> QED BY <1>1, <1>4, OrderMovedOn

(* close_purchase_order keeps the invariant. *)
LEMMA ClosePurchaseOrderStep ==
    ASSUME IInv, NEW o \in Orders, ClosePurchaseOrder(o)
    PROVE  IInv' /\ SessionStep
<1>1. /\ ws.order[o] # None /\ deciding = None /\ UNCHANGED deciding
      /\ FullyProcessed(ws.order[o].lines)
      /\ ValidTransition(ws.order[o].status, "CLOSED", PURCHASE_ORDER_STATUS_TRANSITIONS)
      /\ CommitOrRollback([ws EXCEPT !.order[o].status = "CLOSED"])
  BY DEF ClosePurchaseOrder, Ready
<1> QED BY <1>1, OrderMovedOn

(* The rejection of a purchase order keeps the invariant. *)
LEMMA RejectPurchaseOrderStep ==
    ASSUME IInv, NEW o \in Orders, RejectPurchaseOrder(o)
    PROVE  IInv' /\ SessionStep
<1> DEFINE old == ws.order[o]
           lines == WithLineStatus(old.lines, "CANCELLED")
           row == [old EXCEPT !.status = "REJECTED", !.lines = lines]
<1>1. PICK u : u = [ws EXCEPT !.order[o].status = "REJECTED",
                              !.order[o].lines = WithLineStatus(@, "CANCELLED")]
  OBVIOUS
<1>2. /\ TabInv(ws) /\ deciding = None /\ ws.approval[o] = "PENDING"
      /\ ws.order[o].status \in {"SUBMITTED", "UNDER_REVIEW"}
      /\ HandlerDone(o, "REJECTED", u, clash) /\ clash \in BOOLEAN
  BY <1>1 DEF RejectPurchaseOrder, AwaitsDecision, Ready, IInv, SessionOK
<1>3. ws.order[o] # None
  BY <1>2, NoneAssumption DEF TabInv, DecisionsOK, Decided
<1>4. /\ OrderOK(old) /\ old \in OrderRows /\ old.lines \in Seq(OrderLines)
      /\ ws.approval \in ApprovalTable /\ ws.order \in OrderTable
  BY <1>2, <1>3, OrderSeen
<1>5. old.status = "SUBMITTED"
  BY <1>2, <1>4 DEF OrderOK
<1>6. lines \in Seq(OrderLines) /\ LinesStay(old.lines, lines)
  BY <1>4, OrderLinesMarked DEF OrderLineStatuses
<1>7. u = [ws EXCEPT !.order = [ws.order EXCEPT ![o] = row]]
  BY <1>1, <1>2, <1>4 DEF TabInv, Fields, OrderTable, OrderRows
<1> HIDE DEF lines
<1>8. row \in OrderRows /\ row.lines = lines /\ row.status = "REJECTED"
  BY <1>4, <1>6 DEF OrderRows, OrderStatuses
<1>9. Written(ws, u, ws.req, [ws.order EXCEPT ![o] = row], ws.approval, ws.stock)
  <2> HIDE DEF row
  <2> QED BY <1>2, <1>7 DEF Written, TabInv, Fields
<1>10. row # None
  BY <1>8, NoneAssumption
<1> HIDE DEF row
<1>11. row.status \in {"FULLY_RECEIVED", "CLOSED"} <=> FullyProcessed(ws.order[o].lines)
  BY <1>4, <1>5, <1>8 DEF OrderOK
<1>12. /\ DecisionStays(ws.approval, ws.approval, o) /\ Decided(row, ws.approval[o])
       /\ ~Counts(row, ws.approval[o]) /\ ~Counts(ws.order[o], ws.approval[o])
  BY <1>2, <1>4, <1>5, <1>8, <1>10 DEF DecisionStays, Decided, Counts
<1>13. /\ row.status # "UNDER_REVIEW" /\ row.status # "PARTIALLY_RECEIVED" /\ row.status # "DRAFT"
       /\ LinesStay(ws.order[o].lines, row.lines)
       /\ ~Fresh(row) /\ ~IsOpen(row) /\ ~IsOpen(ws.order[o])
  BY <1>5, <1>6, <1>8 DEF Fresh, IsOpen, OpenForReceiving
<1>14. Moved(ws, u)
  BY <1>2, <1>3, <1>8, <1>9, <1>11, <1>12, <1>13, OrderChanged
<1>15. u.order[o] = row /\ u.approval[o] = "PENDING"
  BY <1>2, <1>4, <1>9 DEF Written, OrderTable
<1>16. Handled(u, o, "REJECTED") /\ o \in Entities
  BY <1>8, <1>10, <1>15, EntityAssumption DEF Handled, RowOf, Entities
<1> QED BY <1>2, <1>14, <1>16, HandlerStep

(* Another service that changes items or storerooms keeps the invariant. *)
LEMMA UpdateMasterStep ==
    ASSUME IInv, NEW m \in MasterStates, UpdateMaster(m)
    PROVE  IInv' /\ SessionStep
<1>1. PICK u : u = [ws EXCEPT !.master = m]
  OBVIOUS
<1>2. TabInv(ws) /\ deciding = None /\ CommitOrRollback(u) /\ UNCHANGED deciding
  BY <1>1 DEF UpdateMaster, Ready, IInv
<1>3. /\ u.req = ws.req /\ u.order = ws.order /\ u.approval = ws.approval
      /\ u.stock = ws.stock /\ u.master = m /\ DOMAIN u = DOMAIN ws
      /\ \A f \in DOMAIN ws \ Fields : u[f] = ws[f]
  BY <1>1, <1>2 DEF TabInv, Fields
<1>4. Moved(ws, u)
  BY <1>2, <1>3 DEF Moved, TablesStay, TabInv, ReqsStay
<1> QED BY <1>2, <1>4, SaveStep

(* Marking a request repeats what its row says already. *)
LEMMA FinishDecisionStep ==
    ASSUME IInv, FinishDecision
    PROVE  IInv' /\ SessionStep
<1>1. PICK e \in Entities, d \in {"APPROVED", "REJECTED"} : deciding = <<e, d>>
  BY DEF IInv, SessionOK, FinishDecision
<1> DEFINE ap == [ws.approval EXCEPT ![e] = d]
<1>2. PICK u : u = [ws EXCEPT !.approval[e] = d]
  OBVIOUS
<1>3. /\ db' = u /\ ws' = u /\ unflushed' = {} /\ clash' = FALSE /\ session' = session
      /\ deciding' = None
  BY <1>1, <1>2 DEF FinishDecision, Committed
<1>4. TabInv(ws) /\ Handled(ws, e, d)
  BY <1>1, NoneAssumption DEF IInv, SessionOK
<1>5. /\ u.req = ws.req /\ u.order = ws.order /\ u.approval = ap
      /\ u.stock = ws.stock /\ u.master = ws.master /\ DOMAIN u = DOMAIN ws
      /\ \A f \in DOMAIN ws \ Fields : u[f] = ws[f] /\ Fields \subseteq DOMAIN ws
  BY <1>2, <1>4 DEF TabInv, Fields
<1>6. /\ ap \in ApprovalTable /\ ap[e] = d
      /\ \A x \in Entities \ {e} : ap[x] = ws.approval[x]
  BY <1>4 DEF TabInv, DecisionsOK, ApprovalTable
<1>7. ws.approval[e] = "PENDING" /\ RowOf(ws, e) # None /\ RowOf(ws, e).status = d
  BY <1>4 DEF Handled
<1> HIDE DEF ap
<1>8. DecisionsOK(ws.req, ws.order, ap)
  <2>1. Decided(RowOf(ws, e), d)
    BY <1>7 DEF Decided
  <2>2. ASSUME NEW q \in Reqs
        PROVE  Decided(ws.req[q], ap[q])
    BY <1>4, <1>6, <2>1 DEF TabInv, DecisionsOK, RowOf, Entities
  <2>3. ASSUME NEW o \in Orders
        PROVE  /\ Decided(ws.order[o], ap[o])
               /\ ws.order[o] # None /\ ws.order[o].status = "DRAFT" => ap[o] = None
    <3>1. CASE o = e
      <4>1. RowOf(ws, e) = ws.order[o]
        BY <3>1, EntityAssumption DEF RowOf
      <4> QED BY <1>6, <1>7, <2>1, <3>1, <4>1
    <3>2. CASE o # e
      <4>1. ap[o] = ws.approval[o]
        BY <1>6, <3>2 DEF Entities
      <4> QED BY <1>4, <4>1 DEF TabInv, DecisionsOK
    <3> QED BY <3>1, <3>2
  <2> QED BY <1>6, <2>2, <2>3 DEF DecisionsOK
<1>9. Counting(ws.order, ap) = Counting(ws.order, ws.approval)
  <2>1. \A x \in Orders : ap[x] = None <=> ws.approval[x] = None
    BY <1>6, <1>7, NoneAssumption DEF Entities
  <2> QED BY <2>1 DEF Counting, Counts, LineIds
<1>10. TabInv(u)
  BY <1>4, <1>5, <1>8, <1>9 DEF TabInv
<1>11. Moved(ws, u)
  BY <1>5, <1>10 DEF Moved, TablesStay, ReqsStay
<1>12. TabInv(db') /\ TabInv(ws')
  BY <1>3, <1>10
<1>13. SessionOK'
  BY <1>3 DEF SessionOK, IInv
<1> QED BY <1>3, <1>11, <1>12, <1>13 DEF IInv, SessionStep
-----------------------------------------------------------------------------
(* The loop of the approval handler *)

(* One place of a sequence is overwritten. *)
LEMMA PlaceWritten ==
    ASSUME NEW S, NEW lines \in Seq(S), NEW k \in DOMAIN lines, NEW x \in S
    PROVE  /\ [lines EXCEPT ![k] = x] \in Seq(S)
           /\ Len([lines EXCEPT ![k] = x]) = Len(lines)
           /\ DOMAIN [lines EXCEPT ![k] = x] = DOMAIN lines
           /\ [lines EXCEPT ![k] = x][k] = x
           /\ \A j \in DOMAIN lines \ {k} : [lines EXCEPT ![k] = x][j] = lines[j]
<1> DEFINE f == [lines EXCEPT ![k] = x]
<1>1. f = [j \in DOMAIN lines |-> f[j]] /\ f[k] = x
      /\ \A j \in DOMAIN lines \ {k} : f[j] = lines[j]
  OBVIOUS
<1>2. \A j \in DOMAIN lines : lines[j] \in S
  OBVIOUS
<1> HIDE DEF f
<1>3. f \in Seq(S) /\ Len(f) = Len(lines) /\ DOMAIN f = DOMAIN lines
  BY <1>1, <1>2, SameLength
<1> QED BY <1>1, <1>3 DEF f

(* Where the loop starts, and what one of its runs is. *)
ApprovalStart(o) == [tables |-> [ws EXCEPT !.order[o].status = "APPROVED"], ok |-> TRUE,
                     rows |-> unflushed, doubled |-> clash, touched |-> {}]

ApprovalRun(o, f, n) ==
    f = [k \in 0..n |-> IF k = 0 THEN ApprovalStart(o) ELSE ApproveLine(o, f[k - 1], k)]

(* The loop has a run over any number of lines. *)
LEMMA ApprovalRuns ==
    ASSUME NEW o, NEW n \in Nat
    PROVE  \E f : ApprovalRun(o, f, n)
<1> DEFINE T == {m \in Nat : ~ \E f : ApprovalRun(o, f, m)}
<1>1. SUFFICES ASSUME T # {} PROVE FALSE
  OBVIOUS
<1>2. PICK m \in T : \A x \in T : m <= x
  <2>1. T \subseteq Nat
    OBVIOUS
  <2> HIDE DEF T
  <2> QED BY <1>1, <2>1, LeastNumber
<1>3. m \in Nat /\ ~ \E f : ApprovalRun(o, f, m)
  OBVIOUS
<1>4. CASE m = 0
  <2> DEFINE g == [k \in 0..0 |-> ApprovalStart(o)]
  <2>1. g = [k \in 0..0 |-> IF k = 0 THEN ApprovalStart(o) ELSE ApproveLine(o, g[k - 1], k)]
    OBVIOUS
  <2> HIDE DEF g
  <2>2. ApprovalRun(o, g, 0)
    BY <2>1 DEF ApprovalRun
  <2> QED BY <1>3, <1>4, <2>2
<1>5. CASE m # 0
  <2>1. m - 1 \in Nat /\ m - 1 \notin T
    BY <1>2, <1>3, <1>5
  <2>2. PICK f : ApprovalRun(o, f, m - 1)
    BY <2>1
  <2> DEFINE g == [k \in 0..m |-> IF k = m THEN ApproveLine(o, f[m - 1], m) ELSE f[k]]
  <2>3. ASSUME NEW k \in 0..m
        PROVE  g[k] = IF k = 0 THEN ApprovalStart(o) ELSE ApproveLine(o, g[k - 1], k)
    <3>1. CASE k = m
      BY <1>3, <1>5, <3>1
    <3>2. CASE k # m
      <4>1. k \in 0..m - 1 /\ g[k] = f[k] /\ (k # 0 => g[k - 1] = f[k - 1])
        BY <1>3, <3>2
      <4> HIDE DEF g
      <4>2. f[k] = IF k = 0 THEN ApprovalStart(o) ELSE ApproveLine(o, f[k - 1], k)
        BY <2>2, <4>1, Zenon DEF ApprovalRun
      <4> QED BY <4>1, <4>2
    <3> QED BY <3>1, <3>2
  <2>4. DOMAIN g = 0..m /\ g = [k \in 0..m |-> g[k]]
    OBVIOUS
  <2> HIDE DEF g
  <2>5. ApprovalRun(o, g, m)
    BY <2>3, <2>4, Zenon DEF ApprovalRun
  <2> QED BY <1>3, <2>5
<1> QED BY <1>4, <1>5

(* What the handler has when its loop ends. *)
LEMMA ApprovedLinesIs ==
    ASSUME NEW o, Len(ws.order[o].lines) \in Nat
    PROVE  \E f : /\ ApprovedLines(o) = f[Len(ws.order[o].lines)]
                  /\ f[0] = ApprovalStart(o)
                  /\ \A k \in 1..Len(ws.order[o].lines) : f[k] = ApproveLine(o, f[k - 1], k)
<1> DEFINE n == Len(ws.order[o].lines)
<1>1. PICK f : f = CHOOSE g : ApprovalRun(o, g, n)
  OBVIOUS
<1>2. ApprovalRun(o, f, n)
  BY <1>1, ApprovalRuns
<1>3. ApprovedLines(o) = f[n]
  BY <1>1, Zenon DEF ApprovedLines, ApprovalRun, ApprovalStart
<1>4. 0 \in 0..n /\ \A k \in 1..n : k \in 0..n /\ k # 0
  OBVIOUS
<1> HIDE DEF n
<1>5. f[0] = ApprovalStart(o)
  BY <1>2, <1>4, Zenon DEF ApprovalRun
<1>6. \A k \in 1..n : f[k] = ApproveLine(o, f[k - 1], k)
  BY <1>2, <1>4, Zenon DEF ApprovalRun
<1> QED BY <1>3, <1>5, <1>6 DEF n

(* What the loop keeps of the order, of the requisitions and of the stock. *)
OrderKept(o, od) ==
    /\ od \in OrderTable
    /\ od[o] # None /\ od[o].status = "APPROVED"
    /\ LinesStay(ws.order[o].lines, od[o].lines)
    /\ \A x \in Orders \ {o} : od[x] = ws.order[x]

ReqsKept(rq) ==
    /\ rq \in ReqTable
    /\ \A q \in Reqs : /\ rq[q] = None <=> ws.req[q] = None
                       /\ rq[q] # None => /\ rq[q].status = ws.req[q].status
                                          /\ rq[q].reference = ws.req[q].reference
                                          /\ DOMAIN rq[q].lines = DOMAIN ws.req[q].lines

StockKept(st) == /\ st \in StockTable
                 /\ \A p \in Positions : OnHand(st[p]) = OnHand(ws.stock[p])

(* The lines of the order o that are done. *)
Done(o, n) == {o} \X (1..n)

ApprovalOK(o, run, n) ==
    /\ run = [tables |-> run.tables, ok |-> run.ok, rows |-> run.rows,
              doubled |-> run.doubled, touched |-> run.touched]
    /\ run.ok \in BOOLEAN /\ run.doubled \in BOOLEAN
    /\ run.rows \subseteq Positions /\ run.touched \subseteq {q \in Reqs : ws.req[q] # None}
    /\ Fields \subseteq DOMAIN ws /\ DOMAIN run.tables = DOMAIN ws
    /\ \A f \in DOMAIN ws \ {"req", "order", "stock"} : run.tables[f] = ws[f]
    /\ OrderKept(o, run.tables.order)
    /\ ReqsKept(run.tables.req)
    /\ StockKept(run.tables.stock)
    /\ SourcedBy(run.tables.req, ws.order, Counting(ws.order, ws.approval) \cup Done(o, n))
    /\ Reqs = {} => run.ok
    /\ run.ok /\ ~run.doubled => \A p \in Positions :
           OnOrderAt(run.tables.stock[p]) + Due(ws.order, OpenLines(ws.order), p)
             = OnOrderAt(ws.stock[p]) + Due(ws.order, OpenLines(ws.order) \cup Done(o, n), p)

(* The order that is being approved: no line of it counts, and nothing was received. *)
LEMMA ApprovedOrder ==
    ASSUME TabInv(ws), NEW o \in Orders, ws.order[o] # None, ws.order[o].status = "SUBMITTED",
           NEW n \in 1..Len(ws.order[o].lines)
    PROVE  /\ n \in DOMAIN ws.order[o].lines
           /\ <<o, n>> \in LineIds(ws.order) \ (Counting(ws.order, ws.approval) \cup Done(o, n - 1))
           /\ Counting(ws.order, ws.approval) \cup Done(o, n - 1) \subseteq LineIds(ws.order)
           /\ <<o, n>> \in LineIds(ws.order) \ (OpenLines(ws.order) \cup Done(o, n - 1))
           /\ OpenLines(ws.order) \cup Done(o, n - 1) \subseteq LineIds(ws.order)
           /\ Done(o, n) = Done(o, n - 1) \cup {<<o, n>>}
           /\ At(ws.order, <<o, n>>) = ws.order[o].lines[n]
           /\ Outstanding(ws.order[o].lines[n]) = ws.order[o].lines[n].ordered
<1> DEFINE lines == ws.order[o].lines
<1>1. /\ OrderOK(ws.order[o]) /\ lines \in Seq(OrderLines)
      /\ \A k \in DOMAIN lines : lines[k] \in OrderLines
  BY OrderSeen
<1>2. DOMAIN lines = 1..Len(lines) /\ Len(lines) \in Nat /\ Len(lines) <= MaxLines
  BY <1>1 DEF OrderOK
<1>3. n \in DOMAIN lines /\ \A j \in 1..n : j \in DOMAIN lines /\ j \in 1..MaxLines
  BY <1>2, BoundsAssumption
<1>4. Done(o, n) \subseteq LineIds(ws.order) /\ <<o, n>> \in LineIds(ws.order)
  BY <1>2, <1>3 DEF Done, LineIds
<1>5. 1..n = (1..n - 1) \cup {n} /\ n \notin 1..n - 1 /\ 1..n - 1 \subseteq 1..n
  BY <1>2
<1>6. \A id \in Counting(ws.order, ws.approval) : id \in LineIds(ws.order) /\ id[1] # o
  BY DEF Counting, Counts
<1>7. <<o, n>> \notin Counting(ws.order, ws.approval) \cup Done(o, n - 1)
  <2>1. <<o, n>> \notin Counting(ws.order, ws.approval)
    BY <1>6
  <2> QED BY <1>5, <2>1 DEF Done
<1>8. Done(o, n - 1) \subseteq Done(o, n)
  BY <1>5 DEF Done
<1>9. Done(o, n) = Done(o, n - 1) \cup {<<o, n>>}
  BY <1>5 DEF Done
<1>10. Outstanding(lines[n]) = lines[n].ordered
  <2>1. Processed(lines[n]) = 0 /\ lines[n] \in OrderLines
    BY <1>1, <1>3 DEF OrderOK, Fresh
  <2>2. lines[n].ordered \in Nat
    BY <2>1 DEF OrderLines
  <2> QED BY <2>1, <2>2, OutstandingIs
<1>11. At(ws.order, <<o, n>>) = lines[n]
  BY DEF At
<1>12. Counting(ws.order, ws.approval) \cup Done(o, n - 1) \subseteq LineIds(ws.order)
  BY <1>4, <1>6, <1>8
<1>13. /\ <<o, n>> \notin OpenLines(ws.order) \cup Done(o, n - 1)
       /\ OpenLines(ws.order) \cup Done(o, n - 1) \subseteq LineIds(ws.order)
  <2>1. \A id \in OpenLines(ws.order) : id \in LineIds(ws.order) /\ id[1] # o
    BY DEF OpenLines, IsOpen, OpenForReceiving
  <2>2. <<o, n>> \notin OpenLines(ws.order)
    BY <2>1
  <2> QED BY <1>4, <1>7, <1>8, <2>1, <2>2
<1> QED BY <1>3, <1>4, <1>7, <1>9, <1>10, <1>11, <1>12, <1>13

(* A turn opens its line and orders its quantity. *)
LEMMA LineOpened ==
    ASSUME NEW o \in Orders, NEW od, OrderKept(o, od), NEW k \in DOMAIN ws.order[o].lines
    PROVE  LET line == od[o].lines[k]
               new  == [od EXCEPT ![o] = [od[o] EXCEPT !.lines =
                           [od[o].lines EXCEPT ![k] = [line EXCEPT !.status = "OPEN"]]]]
           IN  /\ LineStays(ws.order[o].lines[k], line) /\ line \in OrderLines
               /\ new = [od EXCEPT ![o].lines[k].status = "OPEN"]
               /\ OrderKept(o, new)
<1> DEFINE line == od[o].lines[k]
           marked == [line EXCEPT !.status = "OPEN"]
           lines == [od[o].lines EXCEPT ![k] = marked]
           row == [od[o] EXCEPT !.lines = lines]
           new == [od EXCEPT ![o] = row]
<1>1. /\ od[o] \in OrderRows /\ od[o].lines \in Seq(OrderLines)
      /\ DOMAIN od[o].lines = DOMAIN ws.order[o].lines /\ Len(od[o].lines) = Len(ws.order[o].lines)
      /\ LineStays(ws.order[o].lines[k], line)
  BY DEF OrderKept, OrderTable, LinesStay, OrderRows
<1>2. line \in OrderLines /\ k \in DOMAIN od[o].lines
  BY <1>1
<1>3. marked \in OrderLines /\ LineStays(line, marked)
  BY <1>2 DEF OrderLines, OrderLineStatuses, LineStays
<1>4. new = [od EXCEPT ![o].lines[k].status = "OPEN"]
  BY Zenon
<1> HIDE DEF marked
<1>5. /\ lines \in Seq(OrderLines) /\ Len(lines) = Len(od[o].lines)
      /\ DOMAIN lines = DOMAIN od[o].lines /\ lines[k] = marked
      /\ \A j \in DOMAIN od[o].lines \ {k} : lines[j] = od[o].lines[j]
  BY <1>1, <1>2, <1>3, PlaceWritten
<1> HIDE DEF lines
<1>6. row \in OrderRows /\ row.lines = lines /\ row.status = "APPROVED"
  BY <1>1, <1>5 DEF OrderRows, OrderKept
<1>7. LinesStay(ws.order[o].lines, row.lines)
  <2>1. ASSUME NEW j \in DOMAIN ws.order[o].lines
        PROVE  LineStays(ws.order[o].lines[j], lines[j])
    <3>1. LineStays(ws.order[o].lines[j], od[o].lines[j])
      BY DEF OrderKept, LinesStay
    <3>2. LineStays(od[o].lines[j], lines[j])
      BY <1>1, <1>3, <1>5 DEF LineStays
    <3> QED BY <3>1, <3>2 DEF LineStays
  <2> QED BY <1>1, <1>5, <1>6, <2>1 DEF LinesStay
<1>8. row # None
  BY <1>6, NoneAssumption
<1> HIDE DEF row
<1>9. OrderKept(o, new)
  BY <1>6, <1>7, <1>8 DEF OrderKept, OrderTable
<1> QED BY <1>1, <1>2, <1>4, <1>9 DEF line, new, marked, lines, row

AddedOnOrder(st, new, p, quantity, rows) ==
    new = [st EXCEPT ![p] = OnOrder(@, quantity, p \in rows)]

(* What is ordered for a position is added to what it has. *)
LEMMA StockOrdered ==
    ASSUME NEW st, StockKept(st), NEW p \in Positions, NEW quantity \in Nat, NEW rows,
           NEW new, AddedOnOrder(st, new, p, quantity, rows)
    PROVE  /\ StockKept(new)
           /\ p \notin rows => OnOrderAt(new[p]) = OnOrderAt(st[p]) + quantity
           /\ \A x \in Positions \ {p} : new[x] = st[x]
           /\ \A x \in Positions : OnOrderAt(st[x]) \in Nat
<1> DEFINE hidden == p \in rows
           row == OnOrder(st[p], quantity, hidden)
<1>1. new = [st EXCEPT ![p] = row]
  BY DEF AddedOnOrder
<1>2. st \in [Positions -> StockRows \cup {None}] /\ st[p] \in StockRows \cup {None}
  BY DEF StockKept, StockTable
<1>3. \/ /\ row \in StockRows /\ OnHand(row) = OnHand(st[p])
         /\ OnOrderAt(row) = OnOrderAt(st[p]) + quantity
      \/ row = st[p] /\ hidden
  <2>1. CASE st[p] = None
    <3>1. row = [on_hand |-> 0, on_order |-> quantity]
      BY <2>1 DEF OnOrder
    <3>2. row \in StockRows /\ row.on_hand = 0 /\ row.on_order = quantity
      BY <3>1 DEF StockRows
    <3>3. row # None
      BY <3>2, NoneAssumption
    <3> QED BY <2>1, <3>2, <3>3 DEF OnHand, OnOrderAt
  <2>2. CASE st[p] # None /\ ~hidden
    <3>1. st[p] \in StockRows
      BY <1>2, <2>2
    <3>2. row = [st[p] EXCEPT !.on_order = st[p].on_order + quantity]
      BY <2>2 DEF OnOrder
    <3>3. row \in StockRows /\ row.on_hand = st[p].on_hand /\ row.on_order = st[p].on_order + quantity
      BY <3>1, <3>2 DEF StockRows
    <3>4. row # None
      BY <3>3, NoneAssumption
    <3> QED BY <2>2, <3>3, <3>4 DEF OnHand, OnOrderAt
  <2>3. CASE st[p] # None /\ hidden
    BY <2>3 DEF OnOrder
  <2> QED BY <2>1, <2>2, <2>3
<1> HIDE DEF row
<1>4. new[p] = row /\ \A x \in Positions \ {p} : new[x] = st[x]
  BY <1>2, <1>1
<1>5. new \in StockTable
  BY <1>2, <1>3, <1>1 DEF StockTable
<1>6. StockKept(new)
  BY <1>3, <1>4, <1>5 DEF StockKept
<1>7. ~hidden => OnOrderAt(new[p]) = OnOrderAt(st[p]) + quantity
  BY <1>3, <1>4
<1>8. \A x \in Positions : OnOrderAt(st[x]) \in Nat
  BY <1>2 DEF OnOrderAt, StockRows
<1> QED BY <1>4, <1>6, <1>7, <1>8

(* A line that joins those that count takes nothing from what is sourced. *)
LEMMA SourcedByMore ==
    ASSUME NEW rq \in ReqTable, NEW od \in OrderTable, IsFiniteSet(Existing(od)),
           NEW T, T \subseteq LineIds(od), NEW a \in LineIds(od) \ T, SourcedBy(rq, od, T)
    PROVE  SourcedBy(rq, od, T \cup {a})
<1> SUFFICES ASSUME NEW q \in Reqs, rq[q] # None, NEW k \in DOMAIN rq[q].lines
             PROVE  /\ rq[q].lines[k].sourced <= rq[q].lines[k].requested
                    /\ rq[q].lines[k].sourced <= Asked(od, T \cup {a}, <<q, k>>)
  BY DEF SourcedBy
<1>1. /\ rq[q].lines[k].sourced <= rq[q].lines[k].requested
      /\ rq[q].lines[k].sourced <= Asked(od, T, <<q, k>>)
  BY DEF SourcedBy
<1>2. rq[q].lines[k] \in ReqLines
  BY DEF ReqTable, ReqRows
<1>3. rq[q].lines[k].sourced \in Nat
  BY <1>2 DEF ReqLines
<1>4. Asked(od, T, <<q, k>>) \in Nat /\ At(od, a).ordered \in Nat
  BY SumTypes, LinesOfIds
<1>5. Asked(od, T \cup {a}, <<q, k>>) = Asked(od, T, <<q, k>>)
          + (IF At(od, a).source = <<q, k>> THEN At(od, a).ordered ELSE 0)
  BY AskedGains
<1> QED BY <1>1, <1>3, <1>4, <1>5

(* The requisition line a line names is sourced by what that line orders. *)
LEMMA LineSourced ==
    ASSUME NEW rq, ReqsKept(rq), NEW od \in OrderTable, IsFiniteSet(Existing(od)),
           NEW T, T \subseteq LineIds(od), NEW a \in LineIds(od) \ T, SourcedBy(rq, od, T),
           NEW q \in Reqs, NEW k, At(od, a).source = <<q, k>>,
           rq[q] # None, k \in DOMAIN rq[q].lines,
           ~Oversources(rq[q].lines[k], At(od, a).ordered)
    PROVE  LET new == [rq EXCEPT ![q].lines[k] = Sourced(@, At(od, a).ordered)]
           IN  ReqsKept(new) /\ SourcedBy(new, od, T \cup {a})
<1>1. PICK n \in Nat : n = At(od, a).ordered
  BY LinesOfIds
<1> DEFINE old == rq[q]
           line == Sourced(old.lines[k], n)
           lines == [old.lines EXCEPT ![k] = line]
           row == [old EXCEPT !.lines = lines]
           new == [rq EXCEPT ![q] = row]
<1>2. rq \in ReqTable /\ old \in ReqRows /\ old.lines \in Seq(ReqLines) /\ old.lines[k] \in ReqLines
  BY DEF ReqsKept, ReqTable, ReqRows
<1>3. /\ line \in ReqLines /\ line.requested = old.lines[k].requested
      /\ line.sourced = old.lines[k].sourced + n
      /\ line.sourced <= line.requested
  <2> DEFINE next == [old.lines[k] EXCEPT !.sourced = old.lines[k].sourced + n]
  <2>1. /\ next \in ReqLines /\ next.requested = old.lines[k].requested
        /\ next.sourced = old.lines[k].sourced + n
    <3>1. PICK x \in ReqLines : x = old.lines[k]
      BY <1>2
    <3> QED BY <1>1, <3>1 DEF ReqLines
  <2>2. line = [next EXCEPT !.status = ReqLineStatus(next)]
    BY DEF Sourced
  <2>3. ReqLineStatus(next) \in ReqLineStatuses
    BY DEF ReqLineStatus, ReqLineStatuses
  <2> HIDE DEF next
  <2>4. line \in ReqLines /\ line.requested = next.requested /\ line.sourced = next.sourced
    BY <2>1, <2>2, <2>3 DEF ReqLines
  <2>5. ~(old.lines[k].sourced + n > old.lines[k].requested)
    BY <1>1 DEF Oversources
  <2>6. old.lines[k].sourced \in Nat /\ old.lines[k].requested \in Nat
    BY <1>2 DEF ReqLines
  <2> QED BY <2>1, <2>4, <2>5, <2>6
<1>4. new = [rq EXCEPT ![q].lines[k] = Sourced(@, n)]
  BY Zenon
<1> HIDE DEF line
<1>5. /\ lines \in Seq(ReqLines) /\ DOMAIN lines = DOMAIN old.lines /\ lines[k] = line
      /\ \A j \in DOMAIN old.lines \ {k} : lines[j] = old.lines[j]
  BY <1>2, <1>3, PlaceWritten
<1> HIDE DEF lines
<1>6. /\ row \in ReqRows /\ row.lines = lines /\ row.status = old.status
      /\ row.reference = old.reference
  BY <1>2, <1>5 DEF ReqRows
<1>7. row # None
  BY <1>6, NoneAssumption
<1> HIDE DEF row
<1>8. /\ new \in ReqTable /\ new[q] = row /\ \A x \in Reqs \ {q} : new[x] = rq[x]
  BY <1>2, <1>6 DEF ReqTable
<1> HIDE DEF new
<1>9. ReqsKept(new)
  BY <1>5, <1>6, <1>7, <1>8 DEF ReqsKept
<1>10. SourcedBy(new, od, T \cup {a})
  <2> SUFFICES ASSUME NEW x \in Reqs, new[x] # None, NEW j \in DOMAIN new[x].lines
               PROVE  /\ new[x].lines[j].sourced <= new[x].lines[j].requested
                      /\ new[x].lines[j].sourced <= Asked(od, T \cup {a}, <<x, j>>)
    BY DEF SourcedBy
  <2>1. CASE x = q /\ j = k
    <3>1. old.lines[k].sourced <= Asked(od, T, <<q, k>>)
      BY DEF SourcedBy
    <3>2. Asked(od, T \cup {a}, <<q, k>>) = Asked(od, T, <<q, k>>) + n
      <4>1. PICK s : s = <<q, k>>
        OBVIOUS
      <4>2. Asked(od, T \cup {a}, s) = Asked(od, T, s)
              + (IF At(od, a).source = s THEN At(od, a).ordered ELSE 0)
        BY AskedGains
      <4>3. At(od, a).source = s
        BY <4>1
      <4>4. Asked(od, T \cup {a}, s) = Asked(od, T, s) + n
        BY <1>1, <4>2, <4>3
      <4> QED BY <4>1, <4>4
    <3>3. Asked(od, T, <<q, k>>) \in Nat /\ old.lines[k].sourced \in Nat
      BY <1>2, SumTypes DEF ReqLines
    <3>4. new[x].lines[j] = line
      BY <1>5, <1>6, <1>8, <2>1
    <3>5. line.sourced <= Asked(od, T \cup {a}, <<q, k>>)
      BY <1>1, <1>3, <3>1, <3>2, <3>3
    <3> QED BY <1>3, <2>1, <3>4, <3>5
  <2>2. CASE ~(x = q /\ j = k)
    <3>1. /\ rq[x] # None /\ j \in DOMAIN rq[x].lines
          /\ new[x].lines[j] = rq[x].lines[j]
      BY <1>5, <1>6, <1>8, <2>2
    <3>2. SourcedBy(rq, od, T \cup {a})
      BY <1>2, SourcedByMore
    <3> QED BY <3>1, <3>2 DEF SourcedBy
  <2> QED BY <2>1, <2>2
<1> QED BY <1>1, <1>4, <1>9, <1>10

(* A turn of the loop keeps what the loop keeps. *)
LEMMA ApprovalTurn ==
    ASSUME TabInv(ws), NEW o \in Orders, ws.order[o] # None, ws.order[o].status = "SUBMITTED",
           NEW n \in 1..Len(ws.order[o].lines), NEW run, ApprovalOK(o, run, n - 1)
    PROVE  ApprovalOK(o, ApproveLine(o, run, n), n)
<1> DEFINE t == run.tables
           line == t.order[o].lines[n]
           p == line.position
           source == line.source
           hidden == p \in run.rows
           od == [t.order EXCEPT ![o] = [t.order[o] EXCEPT !.lines =
                     [t.order[o].lines EXCEPT ![n] = [line EXCEPT !.status = "OPEN"]]]]
           st == [t.stock EXCEPT ![p] = OnOrder(@, line.ordered, hidden)]
           rows == IF t.stock[p] = None THEN run.rows \cup {p} ELSE run.rows
           a == <<o, n>>
           O == OpenLines(ws.order) \cup Done(o, n - 1)
           T == Counting(ws.order, ws.approval) \cup Done(o, n - 1)
           opened == [t EXCEPT !.order[o].lines[n].status = "OPEN",
                               !.stock[p] = OnOrder(@, line.ordered, hidden)]
           next == [run EXCEPT !.tables = opened, !.rows = rows, !.doubled = @ \/ hidden]
           raised == [next EXCEPT !.ok = FALSE]
           sourced == [next EXCEPT !.tables.req[source[1]].lines[source[2]] =
                                       Sourced(@, line.ordered),
                                   !.touched = @ \cup {source[1]}]
<1>1. /\ run = [tables |-> t, ok |-> run.ok, rows |-> run.rows,
                doubled |-> run.doubled, touched |-> run.touched]
      /\ run.ok \in BOOLEAN /\ run.doubled \in BOOLEAN
      /\ run.rows \subseteq Positions /\ run.touched \subseteq {q \in Reqs : ws.req[q] # None}
      /\ Fields \subseteq DOMAIN ws /\ DOMAIN t = DOMAIN ws
      /\ \A f \in DOMAIN ws \ {"req", "order", "stock"} : t[f] = ws[f]
      /\ OrderKept(o, t.order) /\ ReqsKept(t.req) /\ StockKept(t.stock)
      /\ SourcedBy(t.req, ws.order, T)
      /\ Reqs = {} => run.ok
      /\ run.ok /\ ~run.doubled => \A x \in Positions :
           OnOrderAt(t.stock[x]) + Due(ws.order, OpenLines(ws.order), x)
             = OnOrderAt(ws.stock[x]) + Due(ws.order, O, x)
  BY DEF ApprovalOK
<1>2. /\ n \in DOMAIN ws.order[o].lines
      /\ a \in LineIds(ws.order) \ T /\ T \subseteq LineIds(ws.order)
      /\ a \in LineIds(ws.order) \ O /\ O \subseteq LineIds(ws.order)
      /\ Done(o, n) = Done(o, n - 1) \cup {a}
      /\ At(ws.order, a) = ws.order[o].lines[n]
      /\ Outstanding(ws.order[o].lines[n]) = ws.order[o].lines[n].ordered
  BY ApprovedOrder
<1>3. /\ LineStays(ws.order[o].lines[n], line) /\ line \in OrderLines
      /\ od = [t.order EXCEPT ![o].lines[n].status = "OPEN"]
      /\ OrderKept(o, od)
  <2>1. PICK x : x = t.order
    OBVIOUS
  <2>2. OrderKept(o, x)
    BY <1>1, <2>1
  <2> QED BY <1>2, <2>1, <2>2, LineOpened
<1>4. /\ p \in Positions /\ line.ordered \in Nat /\ source \in Sources \cup {None}
      /\ p = ws.order[o].lines[n].position /\ line.ordered = ws.order[o].lines[n].ordered
      /\ source = ws.order[o].lines[n].source
  BY <1>3 DEF LineStays, OrderLines
<1>5. /\ StockKept(st)
      /\ ~hidden => OnOrderAt(st[p]) = OnOrderAt(t.stock[p]) + line.ordered
      /\ \A x \in Positions \ {p} : st[x] = t.stock[x]
      /\ \A x \in Positions : OnOrderAt(t.stock[x]) \in Nat
  <2>1. PICK x : x = t.stock
    OBVIOUS
  <2>2. StockKept(x)
    BY <1>1, <2>1
  <2> HIDE DEF p, line
  <2>3. PICK m \in Nat : m = line.ordered
    BY <1>4
  <2>4. PICK y \in Positions : y = p
    BY <1>4
  <2>5. PICK ids : ids = run.rows
    OBVIOUS
  <2>6. PICK new : new = [x EXCEPT ![y] = OnOrder(@, m, y \in ids)]
    OBVIOUS
  <2>7. AddedOnOrder(x, new, y, m, ids)
    BY <2>6 DEF AddedOnOrder
  <2>8. /\ StockKept(new)
        /\ y \notin ids => OnOrderAt(new[y]) = OnOrderAt(x[y]) + m
        /\ \A z \in Positions \ {y} : new[z] = x[z]
        /\ \A z \in Positions : OnOrderAt(x[z]) \in Nat
    BY <2>2, <2>7, StockOrdered
  <2>9. st = new
    BY <2>1, <2>3, <2>4, <2>5, <2>6
  <2> HIDE DEF st
  <2> QED BY <2>1, <2>3, <2>4, <2>5, <2>8, <2>9
<1>6. \A x \in Positions : Due(ws.order, OpenLines(ws.order) \cup Done(o, n), x)
          = Due(ws.order, O, x) + (IF p = x THEN line.ordered ELSE 0)
  <2>1. ws.order \in OrderTable /\ IsFiniteSet(Existing(ws.order))
    BY DEF TabInv, OrdersOK
  <2>2. OpenLines(ws.order) \cup Done(o, n) = O \cup {a}
    BY <1>2
  <2>3. a \in LineIds(ws.order) \ O /\ O \subseteq LineIds(ws.order)
    BY <1>2
  <2> HIDE DEF a, p, line, O
  <2>4. \A x : Due(ws.order, O \cup {a}, x) = Due(ws.order, O, x)
           + (IF At(ws.order, a).position = x THEN Outstanding(At(ws.order, a)) ELSE 0)
    BY <2>1, <2>3, DueGains
  <2> QED BY <1>2, <1>4, <2>2, <2>4
<1>7. rows \subseteq Positions
  BY <1>1, <1>4
<1>8. /\ ~run.ok => ApproveLine(o, run, n) = run
      /\ run.ok /\ source = None => ApproveLine(o, run, n) = next
      /\ run.ok /\ source # None => ApproveLine(o, run, n) =
             IF Oversources(ReqLine(opened, source), line.ordered) THEN raised ELSE sourced
  <2> HIDE DEF hidden, p, line, source, rows, next, opened, raised, sourced
  <2>1. ApproveLine(o, run, n) =
            CASE ~run.ok -> run
              [] run.ok /\ source = None -> next
              [] OTHER -> IF Oversources(ReqLine(opened, source), line.ordered)
                          THEN raised ELSE sourced
    BY Zenon DEF ApproveLine, hidden, p, line, source, rows, next, opened, raised, sourced
  <2> QED BY <1>1, <2>1
(* What the three ways of the turn have in common. *)
<1>9. ASSUME NEW new, NEW rq, ReqsKept(rq), SourcedBy(rq, ws.order, T \cup {a}),
             NEW ok \in BOOLEAN, Reqs = {} => ok, run.ok,
             NEW touched, touched \subseteq {q \in Reqs : ws.req[q] # None},
             NEW u, DOMAIN u = DOMAIN t, u.order = od, u.stock = st, u.req = rq,
             \A f \in DOMAIN ws \ {"req", "order", "stock"} : u[f] = t[f],
             new = [tables |-> u, ok |-> ok, rows |-> rows, doubled |-> run.doubled \/ hidden,
                    touched |-> touched]
      PROVE  ApprovalOK(o, new, n)
  <2> HIDE DEF hidden, p, line, source, rows, next, opened, raised, sourced, st, od, a, T
  <2> DEFINE doubled == run.doubled \/ hidden
  <2>1. /\ new.tables = u /\ new.ok = ok /\ new.rows = rows /\ new.touched = touched
        /\ new.doubled = doubled
    BY <1>9
  <2>2. new = [tables |-> new.tables, ok |-> new.ok, rows |-> new.rows,
               doubled |-> new.doubled, touched |-> new.touched]
    BY <1>9
  <2>3. doubled \in BOOLEAN
    OBVIOUS
  <2>4. SourcedBy(rq, ws.order, Counting(ws.order, ws.approval) \cup Done(o, n))
    <3>1. T \cup {a} = Counting(ws.order, ws.approval) \cup Done(o, n)
      BY <1>2 DEF T
    <3> QED BY <1>9, <3>1
  <2>5. ASSUME ~doubled, NEW x \in Positions
        PROVE  OnOrderAt(st[x]) + Due(ws.order, OpenLines(ws.order), x)
                 = OnOrderAt(ws.stock[x]) + Due(ws.order, OpenLines(ws.order) \cup Done(o, n), x)
    <3>1. OnOrderAt(t.stock[x]) + Due(ws.order, OpenLines(ws.order), x)
            = OnOrderAt(ws.stock[x]) + Due(ws.order, O, x)
      BY <1>1, <1>9, <2>5
    <3>2. OnOrderAt(st[x]) = OnOrderAt(t.stock[x]) + (IF p = x THEN line.ordered ELSE 0)
      <4>1. CASE p = x
        <5>1. ~hidden
          BY <2>5
        <5> QED BY <1>5, <4>1, <5>1
      <4>2. CASE p # x
        <5>1. OnOrderAt(t.stock[x]) \in Nat /\ st[x] = t.stock[x]
          BY <1>5, <4>2
        <5> QED BY <4>2, <5>1
      <4> QED BY <4>1, <4>2
    <3>3. /\ OnOrderAt(ws.stock[x]) \in Nat /\ OnOrderAt(t.stock[x]) \in Nat
          /\ Due(ws.order, OpenLines(ws.order), x) \in Nat
          /\ Due(ws.order, O, x) \in Nat
      <4>1. ws.order \in OrderTable /\ IsFiniteSet(Existing(ws.order)) /\ ws.stock \in StockTable
        BY DEF TabInv, OrdersOK, StockOK
      <4>2. OpenLines(ws.order) \subseteq LineIds(ws.order)
        BY DEF OpenLines
      <4> HIDE DEF O
      <4>3. Due(ws.order, OpenLines(ws.order), x) \in Nat /\ Due(ws.order, O, x) \in Nat
        BY <1>2, <4>1, <4>2, SumTypes
      <4>4. ws.stock[x] # None => ws.stock[x].on_order \in Nat
        BY <4>1 DEF StockTable, StockRows
      <4> QED BY <1>5, <4>3, <4>4 DEF OnOrderAt
    <3> HIDE DEF O, p, line, st, t
    <3>4. PICK more \in Nat : more = IF p = x THEN line.ordered ELSE 0
      BY <1>4
    <3>5. Due(ws.order, OpenLines(ws.order) \cup Done(o, n), x) = Due(ws.order, O, x) + more
      BY <1>6, <3>4
    <3>6. OnOrderAt(st[x]) = OnOrderAt(t.stock[x]) + more
      BY <3>2, <3>4
    <3>7. PICK w, b, d, e \in Nat :
              /\ w = OnOrderAt(ws.stock[x]) /\ b = OnOrderAt(t.stock[x])
              /\ d = Due(ws.order, OpenLines(ws.order), x) /\ e = Due(ws.order, O, x)
      BY <3>3
    <3>8. b + d = w + e
      BY <3>1, <3>7, Zenon
    <3>9. (b + more) + d = w + (e + more)
      BY <3>8
    <3>10. OnOrderAt(st[x]) = b + more
      BY <3>6, <3>7
    <3> QED BY <3>5, <3>7, <3>9, <3>10
  <2> HIDE DEF doubled
  <2>6. \A f \in DOMAIN ws \ {"req", "order", "stock"} : u[f] = ws[f]
    BY <1>1, <1>9
  <2> QED BY <1>1, <1>3, <1>5, <1>7, <1>9, <2>1, <2>2, <2>3, <2>4, <2>5, <2>6 DEF ApprovalOK
<1>10. SourcedBy(t.req, ws.order, T \cup {a}) /\ ws.order \in OrderTable /\ IsFiniteSet(Existing(ws.order))
  <2>1. ws.order \in OrderTable /\ IsFiniteSet(Existing(ws.order))
    BY DEF TabInv, OrdersOK
  <2>2. PICK rq \in ReqTable : rq = t.req
    BY <1>1 DEF ReqsKept
  <2> HIDE DEF a, T
  <2>3. SourcedBy(rq, ws.order, T \cup {a})
    BY <1>1, <1>2, <2>1, <2>2, SourcedByMore
  <2> QED BY <2>1, <2>2, <2>3
<1>11. /\ DOMAIN opened = DOMAIN t /\ opened.order = od /\ opened.stock = st /\ opened.req = t.req
       /\ \A f \in DOMAIN ws \ {"req", "order", "stock"} : opened[f] = t[f]
  <2> HIDE DEF hidden, p, line, source
  <2>1. opened = [t EXCEPT !.order = [@ EXCEPT ![o].lines[n].status = "OPEN"], !.stock = st]
    BY Zenon DEF opened, st
  <2>2. opened = [t EXCEPT !.order = od, !.stock = st]
    <3> HIDE DEF od, st, opened
    <3> QED BY <1>3, <2>1
  <2> HIDE DEF od, st, opened
  <2> QED BY <1>1, <2>2 DEF Fields
<1>12. next = [tables |-> opened, ok |-> run.ok, rows |-> rows, doubled |-> run.doubled \/ hidden,
               touched |-> run.touched]
  <2>1. PICK tables, ok, before, doubled, touched :
               run = [tables |-> tables, ok |-> ok, rows |-> before, doubled |-> doubled,
                      touched |-> touched]
    BY <1>1, Zenon
  <2>2. PICK after : after = (run.doubled \/ hidden)
    OBVIOUS
  <2>3. next = [run EXCEPT !.tables = opened, !.rows = rows, !.doubled = after]
    <3> HIDE DEF hidden, p, line, source, rows, opened
    <3> QED BY <2>2, Zenon
  <2> HIDE DEF hidden, p, line, source, rows, opened, next
  <2>4. next = [tables |-> opened, ok |-> run.ok, rows |-> rows, doubled |-> after,
                touched |-> run.touched]
    BY <2>1, <2>3
  <2> QED BY <2>2, <2>4, Zenon
<1> HIDE DEF hidden, p, line, rows, next, opened, st, od
<1>13. CASE ~run.ok
  <2>1. T \cup {a} = Counting(ws.order, ws.approval) \cup Done(o, n)
    BY <1>2
  <2> HIDE DEF a, T
  <2> QED BY <1>1, <1>8, <1>10, <1>13, <2>1 DEF ApprovalOK
<1>14. CASE run.ok /\ source = None
  <2> HIDE DEF a, T
  <2>1. PICK rq : rq = t.req
    OBVIOUS
  <2>2. ApprovalOK(o, next, n)
    BY <1>1, <1>9, <1>10, <1>11, <1>12, <1>14, <2>1
  <2> QED BY <1>8, <1>14, <2>2
<1>15. CASE run.ok /\ source # None
  <2>1. source \in Sources /\ source[1] \in Reqs /\ source = <<source[1], source[2]>>
    BY <1>4, <1>15 DEF Sources
  <2>2. t.req[source[1]] # None /\ source[2] \in DOMAIN t.req[source[1]].lines
        /\ ws.req[source[1]] # None
    <3>1. SourceExists(ws.req, source)
      <4>1. o \in Existing(ws.order)
        BY DEF Existing
      <4>2. SourceExists(ws.req, ws.order[o].lines[n].source)
        BY <1>2, <4>1 DEF TabInv, SourcesOK
      <4> QED BY <1>4, <4>2
    <3> QED BY <1>1, <1>15, <2>1, <3>1 DEF SourceExists, ReqsKept
  <2>3. ReqLine(opened, source) = t.req[source[1]].lines[source[2]]
    BY <1>11 DEF ReqLine
  <2>4. CASE Oversources(ReqLine(opened, source), line.ordered)
    <3>1. raised = [tables |-> opened, ok |-> FALSE, rows |-> rows,
                    doubled |-> run.doubled \/ hidden, touched |-> run.touched]
      <4>1. PICK doubled, touched : doubled = (run.doubled \/ hidden) /\ touched = run.touched
        OBVIOUS
      <4>2. next = [tables |-> opened, ok |-> run.ok, rows |-> rows, doubled |-> doubled,
                    touched |-> touched]
        BY <1>12, <4>1
      <4>3. PICK ok : ok = FALSE
        OBVIOUS
      <4>4. raised = [next EXCEPT !.ok = ok]
        BY <4>3, Zenon
      <4> HIDE DEF raised
      <4>5. raised = [tables |-> opened, ok |-> ok, rows |-> rows, doubled |-> doubled,
                      touched |-> touched]
        BY <4>2, <4>4
      <4> QED BY <4>1, <4>3, <4>5, Zenon
    <3> HIDE DEF a, T, source, raised
    <3>2. Reqs # {}
      BY <2>1
    <3>3. PICK rq : rq = t.req
      OBVIOUS
    <3>4. ApprovalOK(o, raised, n)
      BY <1>1, <1>9, <1>10, <1>11, <1>15, <3>1, <3>2, <3>3
    <3> QED BY <1>8, <1>15, <2>4, <3>4
  <2>5. CASE ~Oversources(ReqLine(opened, source), line.ordered)
    <3> DEFINE rq == [t.req EXCEPT ![source[1]].lines[source[2]] = Sourced(@, line.ordered)]
               u == [opened EXCEPT !.req = rq]
    <3>1. sourced = [tables |-> u, ok |-> run.ok, rows |-> rows,
                     doubled |-> run.doubled \/ hidden, touched |-> run.touched \cup {source[1]}]
      <4>1. PICK doubled, touched : doubled = (run.doubled \/ hidden) /\ touched = run.touched
        OBVIOUS
      <4>2. next = [tables |-> opened, ok |-> run.ok, rows |-> rows, doubled |-> doubled,
                    touched |-> touched]
        BY <1>12, <4>1
      <4>3. next.tables = opened /\ next.touched = touched /\ opened.req = t.req
        BY <1>11, <4>2
      <4>4. sourced = [next EXCEPT !.tables = [next.tables EXCEPT !.req = [next.tables.req EXCEPT
                                       ![source[1]].lines[source[2]] = Sourced(@, line.ordered)]],
                                   !.touched = next.touched \cup {source[1]}]
        BY Zenon
      <4>5. sourced = [next EXCEPT !.tables = u, !.touched = touched \cup {source[1]}]
        <5> HIDE DEF sourced, source
        <5> QED BY <4>3, <4>4, Zenon
      <4> HIDE DEF sourced, source, u
      <4> QED BY <4>1, <4>2, <4>5
    <3>2. ReqsKept(rq) /\ SourcedBy(rq, ws.order, T \cup {a})
      <4>1. PICK x : x = t.req
        OBVIOUS
      <4>2. PICK y, k : y = source[1] /\ k = source[2]
        OBVIOUS
      <4>3. /\ At(ws.order, a).source = <<y, k>> /\ y \in Reqs
            /\ At(ws.order, a).ordered = line.ordered
        BY <1>2, <1>4, <2>1, <4>2
      <4> HIDE DEF a, T, source
      <4>4. /\ ReqsKept(x) /\ SourcedBy(x, ws.order, T)
            /\ x[y] # None /\ k \in DOMAIN x[y].lines
            /\ ~Oversources(x[y].lines[k], At(ws.order, a).ordered)
        BY <1>1, <2>2, <2>3, <2>5, <4>1, <4>2, <4>3
      <4>5. LET new == [x EXCEPT ![y].lines[k] = Sourced(@, At(ws.order, a).ordered)]
            IN  ReqsKept(new) /\ SourcedBy(new, ws.order, T \cup {a})
        BY <1>2, <1>10, <4>3, <4>4, LineSourced
      <4>6. rq = [x EXCEPT ![y].lines[k] = Sourced(@, At(ws.order, a).ordered)]
        BY <4>1, <4>2, <4>3
      <4> QED BY <4>5, <4>6
    <3>3. /\ DOMAIN u = DOMAIN t /\ u.order = od /\ u.stock = st /\ u.req = rq
          /\ \A f \in DOMAIN ws \ {"req", "order", "stock"} : u[f] = t[f]
      <4> HIDE DEF rq
      <4> QED BY <1>1, <1>11 DEF Fields
    <3> HIDE DEF a, T, rq, u, sourced
    <3>4. run.touched \cup {source[1]} \subseteq {q \in Reqs : ws.req[q] # None}
      BY <1>1, <2>1, <2>2
    <3> HIDE DEF source
    <3>5. PICK v, w : v = u /\ w = rq
      OBVIOUS
    <3>6. ApprovalOK(o, sourced, n)
      BY <1>1, <1>9, <1>15, <3>1, <3>2, <3>3, <3>4, <3>5
    <3> QED BY <1>8, <1>15, <2>5, <3>6
  <2> QED BY <2>4, <2>5
<1> QED BY <1>1, <1>13, <1>14, <1>15

(* What the loop keeps, it keeps from its start. *)
LEMMA ApprovalLoop ==
    ASSUME TabInv(ws), SessionOK, NEW o \in Orders, ws.order[o] # None,
           ws.order[o].status = "SUBMITTED"
    PROVE  ApprovalOK(o, ApprovedLines(o), Len(ws.order[o].lines))
<1> DEFINE n == Len(ws.order[o].lines)
<1>1. /\ OrderOK(ws.order[o]) /\ ws.order[o] \in OrderRows /\ ws.order[o].lines \in Seq(OrderLines)
      /\ ws.order \in OrderTable
  BY OrderSeen
<1>2. n \in Nat
  BY <1>1
<1>3. PICK f : /\ ApprovedLines(o) = f[n] /\ f[0] = ApprovalStart(o)
               /\ \A k \in 1..n : f[k] = ApproveLine(o, f[k - 1], k)
  BY <1>2, ApprovedLinesIs
<1>4. ApprovalOK(o, f[0], 0)
  <2> DEFINE row == [ws.order[o] EXCEPT !.status = "APPROVED"]
             od == [ws.order EXCEPT ![o] = row]
  <2>1. PICK u : u = [ws EXCEPT !.order[o].status = "APPROVED"]
    OBVIOUS
  <2>2. u = [ws EXCEPT !.order = od]
    BY <2>1
  <2>3. row \in OrderRows /\ row.lines = ws.order[o].lines /\ row.status = "APPROVED"
    BY <1>1 DEF OrderRows, OrderStatuses
  <2>4. row # None /\ LinesStay(ws.order[o].lines, row.lines)
    BY <2>3, NoneAssumption, NoneStays
  <2> HIDE DEF row
  <2>5. OrderKept(o, od)
    BY <1>1, <2>3, <2>4 DEF OrderKept, OrderTable
  <2> HIDE DEF od
  <2>6. /\ DOMAIN u = DOMAIN ws /\ u.order = od /\ u.req = ws.req /\ u.stock = ws.stock
        /\ Fields \subseteq DOMAIN ws
        /\ \A g \in DOMAIN ws \ {"req", "order", "stock"} : u[g] = ws[g]
    BY <2>2 DEF TabInv, Fields
  <2>7. ReqsKept(ws.req) /\ StockKept(ws.stock)
    BY DEF TabInv, StockOK, ReqsKept, StockKept
  <2>8. 1..0 = {} /\ Done(o, 0) = {}
    BY DEF Done
  <2>9. SourcedBy(ws.req, ws.order, Counting(ws.order, ws.approval) \cup Done(o, 0))
    BY <2>8 DEF TabInv
  <2>10. f[0] = [tables |-> u, ok |-> TRUE, rows |-> unflushed, doubled |-> clash, touched |-> {}]
    BY <1>3, <2>1 DEF ApprovalStart
  <2>11. clash \in BOOLEAN /\ unflushed \subseteq Positions
    BY DEF SessionOK
  <2>12. f[0].tables = u /\ f[0].ok = TRUE /\ f[0].rows = unflushed /\ f[0].doubled = clash
         /\ f[0].touched = {}
    BY <2>10
  <2>13. f[0] = [tables |-> f[0].tables, ok |-> f[0].ok, rows |-> f[0].rows,
                 doubled |-> f[0].doubled, touched |-> f[0].touched]
    BY <2>10
  <2>14. OpenLines(ws.order) \cup Done(o, 0) = OpenLines(ws.order)
    BY <2>8
  <2> QED BY <2>5, <2>6, <2>7, <2>9, <2>11, <2>12, <2>13, <2>14 DEF ApprovalOK
<1> DEFINE T == {k \in 0..n : ~ApprovalOK(o, f[k], k)}
<1>5. T = {}
  <2> SUFFICES ASSUME T # {} PROVE FALSE
    OBVIOUS
  <2>1. PICK k \in T : \A x \in T : k <= x
    <3>1. T \subseteq Nat
      OBVIOUS
    <3> HIDE DEF T
    <3> QED BY <3>1, LeastNumber
  <2>2. k \in 1..n /\ k - 1 \in 0..n /\ k - 1 \notin T /\ ~ApprovalOK(o, f[k], k)
    BY <1>2, <1>4, <2>1
  <2>3. ApprovalOK(o, f[k - 1], k - 1)
    BY <2>2
  <2>4. PICK run : run = f[k - 1]
    OBVIOUS
  <2>5. ApprovalOK(o, ApproveLine(o, run, k), k)
    BY <2>2, <2>3, <2>4, ApprovalTurn
  <2>6. f[k] = ApproveLine(o, run, k)
    BY <1>3, <2>2, <2>4
  <2> QED BY <2>2, <2>5, <2>6
<1>6. n \in 0..n
  BY <1>2
<1>7. ApprovalOK(o, f[n], n)
  BY <1>5, <1>6
<1> QED BY <1>3, <1>7

(* The statuses a requisition is refreshed to are those that follow approval. *)
LEMMA RefreshedRow ==
    ASSUME NEW row \in ReqRows, NEW decision, Decided(row, decision), Refreshable(row)
    PROVE  /\ [row EXCEPT !.status = RefreshedStatus(row)] \in ReqRows
           /\ [row EXCEPT !.status = RefreshedStatus(row)].lines = row.lines
           /\ [row EXCEPT !.status = RefreshedStatus(row)].reference = row.reference
           /\ Decided([row EXCEPT !.status = RefreshedStatus(row)], decision)
<1> DEFINE next == RefreshedStatus(row)
           new == [row EXCEPT !.status = next]
<1>1. next \in {"FULLY_SOURCED", "PARTIALLY_SOURCED", row.status} /\ row.status \in ReqStatuses
  BY DEF RefreshedStatus, ReqRows
<1>2. next = row.status \/ <<row.status, next>> \in REQUISITION_STATUS_TRANSITIONS
  BY DEF Refreshable, ValidTransition
<1> HIDE DEF next
<1>3. next = row.status \/ row.status \in {"APPROVED", "PARTIALLY_SOURCED"}
  <2> SUFFICES ASSUME next # row.status PROVE row.status \in {"APPROVED", "PARTIALLY_SOURCED"}
    OBVIOUS
  <2>1. next \in {"FULLY_SOURCED", "PARTIALLY_SOURCED"}
    BY <1>1
  <2> QED BY <1>2, <2>1 DEF REQUISITION_STATUS_TRANSITIONS
<1>4. new \in ReqRows /\ new.lines = row.lines /\ new.reference = row.reference /\ new.status = next
  BY <1>1 DEF ReqRows, ReqStatuses
<1>5. new # None
  BY <1>4, NoneAssumption
<1> HIDE DEF new
<1>6. Decided(new, decision)
  BY <1>1, <1>3, <1>4, <1>5 DEF Decided
<1> QED BY <1>4, <1>6 DEF new, next

RefreshedReqs(rq, qs) == [q \in Reqs |-> IF q \in qs
                                         THEN [rq[q] EXCEPT !.status = RefreshedStatus(rq[q])]
                                         ELSE rq[q]]

(* The requisitions, after some of those touched were refreshed. *)
LEMMA ReqsRefreshed ==
    ASSUME TabInv(ws), NEW rq, ReqsKept(rq),
           NEW qs, \A q \in qs : Refreshable(rq[q]) /\ ws.req[q] # None,
           NEW new, new = RefreshedReqs(rq, qs)
    PROVE  /\ new \in ReqTable
           /\ \A q \in Reqs : /\ new[q] = None <=> rq[q] = None
                              /\ new[q] # None => new[q].lines = rq[q].lines
                              /\ Decided(new[q], ws.approval[q])
           /\ ReqsStay(ws.req, new)
<1>1. ASSUME NEW q \in Reqs
      PROVE  /\ new[q] \in ReqRows \cup {None}
             /\ new[q] = None <=> rq[q] = None
             /\ new[q] # None => /\ new[q].lines = rq[q].lines
                                 /\ new[q].reference = rq[q].reference
             /\ Decided(new[q], ws.approval[q])
  <2>1. rq[q] \in ReqRows \cup {None} /\ Decided(rq[q], ws.approval[q])
    BY DEF ReqsKept, ReqTable, TabInv, DecisionsOK, Decided
  <2>2. CASE q \in qs
    <3>1. rq[q] # None /\ Refreshable(rq[q])
      BY <2>2 DEF ReqsKept
    <3>2. PICK row \in ReqRows : row = rq[q]
      BY <2>1, <3>1
    <3>3. PICK d : d = ws.approval[q]
      OBVIOUS
    <3>4. PICK after : after = [row EXCEPT !.status = RefreshedStatus(row)]
      OBVIOUS
    <3>5. after \in ReqRows /\ after.lines = row.lines /\ after.reference = row.reference
          /\ Decided(after, d)
      BY <2>1, <3>1, <3>2, <3>3, <3>4, RefreshedRow
    <3>6. new[q] = after
      BY <2>2, <3>2, <3>4 DEF RefreshedReqs
    <3> QED BY <3>1, <3>2, <3>3, <3>5, <3>6, NoneAssumption
  <2>3. CASE q \notin qs
    BY <2>1, <2>3 DEF RefreshedReqs
  <2> QED BY <2>2, <2>3
<1>2. new \in ReqTable
  <2>1. new = [q \in Reqs |-> new[q]]
    BY Zenon DEF RefreshedReqs
  <2> QED BY <1>1, <2>1 DEF ReqTable
<1>3. ReqsStay(ws.req, new)
  BY <1>1 DEF ReqsStay, ReqsKept
<1> QED BY <1>1, <1>2, <1>3

(* The tables the approval handler leaves are those of an approved order. *)
LEMMA ApprovedMoves ==
    ASSUME TabInv(ws), NEW o \in Orders, ws.order[o] # None, ws.order[o].status = "SUBMITTED",
           ws.approval[o] = "PENDING",
           NEW run, ApprovalOK(o, run, Len(ws.order[o].lines)),
           NEW qs, \A q \in qs : Refreshable(run.tables.req[q]) /\ ws.req[q] # None,
           NEW u, u = Refreshed(run.tables, qs)
    PROVE  /\ TablesStay(ws, u)
           /\ run.ok /\ ~run.doubled => Moved(ws, u)
           /\ Handled(u, o, "APPROVED")
<1> DEFINE n == Len(ws.order[o].lines)
           t == run.tables
<1>1. /\ Fields \subseteq DOMAIN ws /\ DOMAIN t = DOMAIN ws
      /\ \A f \in DOMAIN ws \ {"req", "order", "stock"} : t[f] = ws[f]
      /\ OrderKept(o, t.order) /\ ReqsKept(t.req) /\ StockKept(t.stock)
      /\ SourcedBy(t.req, ws.order, Counting(ws.order, ws.approval) \cup Done(o, n))
      /\ run.ok /\ ~run.doubled => \A p \in Positions :
           OnOrderAt(t.stock[p]) + Due(ws.order, OpenLines(ws.order), p)
             = OnOrderAt(ws.stock[p]) + Due(ws.order, OpenLines(ws.order) \cup Done(o, n), p)
  BY DEF ApprovalOK
<1> HIDE DEF t
<1>2. PICK od, st, rq : od = t.order /\ st = t.stock /\ rq = t.req
  OBVIOUS
<1>3. PICK nw : nw = RefreshedReqs(rq, qs)
  OBVIOUS
<1>4. u = [t EXCEPT !.req = nw]
  BY <1>2, <1>3 DEF Refreshed, RefreshedReqs, t
<1>5. /\ nw \in ReqTable
      /\ \A q \in Reqs : /\ nw[q] = None <=> rq[q] = None
                         /\ nw[q] # None => nw[q].lines = rq[q].lines
                         /\ Decided(nw[q], ws.approval[q])
      /\ ReqsStay(ws.req, nw)
  <2>1. ReqsKept(rq) /\ \A q \in qs : Refreshable(rq[q]) /\ ws.req[q] # None
    BY <1>1, <1>2 DEF t
  <2> QED BY <1>3, <2>1, ReqsRefreshed
<1>6. /\ DOMAIN u = DOMAIN ws /\ u.req = nw /\ u.order = od /\ u.stock = st
      /\ \A f \in DOMAIN ws \ {"req", "order", "stock"} : u[f] = ws[f]
  BY <1>1, <1>2, <1>4, <1>3 DEF Fields
<1>7. /\ OrderKept(o, od) /\ ReqsKept(rq) /\ StockKept(st)
      /\ SourcedBy(rq, ws.order, Counting(ws.order, ws.approval) \cup Done(o, n))
  BY <1>1, <1>2
<1>8. u.approval = ws.approval /\ u.master = ws.master
  BY <1>1, <1>6 DEF Fields
<1>9. /\ OrderOK(ws.order[o]) /\ ws.order[o].lines \in Seq(OrderLines) /\ ws.order \in OrderTable
      /\ IsFiniteSet(Existing(ws.order)) /\ od \in OrderTable
      /\ od[o] \in OrderRows /\ od[o].lines \in Seq(OrderLines)
      /\ \A k \in DOMAIN ws.order[o].lines : ws.order[o].lines[k] \in OrderLines
  BY <1>7, OrderSeen DEF TabInv, OrdersOK, OrderKept, OrderTable, OrderRows
<1>10. /\ od[o] # None /\ od[o].status = "APPROVED" /\ LinesStay(ws.order[o].lines, od[o].lines)
       /\ \A x \in Orders \ {o} : od[x] = ws.order[x]
  BY <1>7 DEF OrderKept
<1>11. \A x \in Orders : /\ od[x] = None <=> ws.order[x] = None
                         /\ od[x] # None => LinesStay(ws.order[x].lines, od[x].lines)
  BY <1>10, NoneStays
<1>12. OrdersOK(od)
  <2>1. Existing(od) = Existing(ws.order)
    BY <1>11 DEF Existing
  <2>2. OrderOK(od[o])
    <3>1. FullyProcessed(od[o].lines) <=> FullyProcessed(ws.order[o].lines)
      BY <1>9, <1>10, StayProcessed
    <3>2. \A k \in DOMAIN od[o].lines : /\ k \in DOMAIN ws.order[o].lines
                                        /\ Processed(od[o].lines[k]) = Processed(ws.order[o].lines[k])
                                        /\ od[o].lines[k].ordered = ws.order[o].lines[k].ordered
      BY <1>10 DEF LinesStay, LineStays, Processed
    <3>3. Len(od[o].lines) = Len(ws.order[o].lines)
      BY <1>10 DEF LinesStay
    <3> QED BY <1>9, <1>10, <3>1, <3>2, <3>3 DEF OrderOK, Fresh
  <2>3. \A x \in Existing(od) : OrderOK(od[x])
    BY <1>10, <2>2 DEF Existing, TabInv, OrdersOK
  <2> QED BY <1>9, <2>1, <2>3 DEF OrdersOK
<1>13. SourcesOK(nw, od)
  <2> SUFFICES ASSUME NEW x \in Existing(od), NEW k \in DOMAIN od[x].lines
               PROVE  SourceExists(nw, od[x].lines[k].source)
    BY DEF SourcesOK
  <2>1. /\ x \in Orders /\ x \in Existing(ws.order) /\ k \in DOMAIN ws.order[x].lines
        /\ od[x].lines[k].source = ws.order[x].lines[k].source
    BY <1>11 DEF Existing, LinesStay, LineStays
  <2>2. SourceExists(ws.req, ws.order[x].lines[k].source)
    BY <2>1 DEF TabInv, SourcesOK
  <2>3. ws.order[x].lines[k].source \in Sources \cup {None}
    <3>1. ws.order[x] \in OrderRows
      BY <1>9, <2>1 DEF OrderTable, Existing
    <3>2. ws.order[x].lines[k] \in OrderLines
      BY <2>1, <3>1 DEF OrderRows
    <3> QED BY <3>2 DEF OrderLines
  <2> QED BY <1>5, <2>1, <2>2, <2>3 DEF SourceExists, ReqsStay, Sources
<1>14. DecisionsOK(nw, od, ws.approval)
  <2>1. Decided(od[o], ws.approval[o]) /\ od[o].status # "DRAFT"
    BY <1>10 DEF Decided
  <2>2. \A x \in Orders : /\ Decided(od[x], ws.approval[x])
                          /\ od[x] # None /\ od[x].status = "DRAFT" => ws.approval[x] = None
    BY <1>10, <2>1 DEF TabInv, DecisionsOK
  <2> QED BY <1>5, <2>2 DEF TabInv, DecisionsOK
<1>15. StockOK(od, st)
  <2>1. ASSUME NEW x \in Orders
        PROVE  RowGrows(ws.order[x], od[x])
    BY <1>11 DEF RowGrows, LinesOf, LinesStay
  <2>2. IsFiniteSet(Existing(od))
    BY <1>12 DEF OrdersOK
  <2>3. \A p \in Positions : Delivered(od, p) = Delivered(ws.order, p)
    BY <1>9, <2>1, <2>2, DeliveredStays
  <2> QED BY <1>7, <2>3 DEF StockKept, TabInv, StockOK
<1>16. Counting(od, ws.approval) = Counting(ws.order, ws.approval) \cup Done(o, n)
  <2>1. DOMAIN ws.order[o].lines = 1..n /\ 1..n \subseteq 1..MaxLines
    BY <1>9, BoundsAssumption DEF OrderOK
  <2>2. \A k : <<o, k>> \in Done(o, n) <=> k \in 1..n
    BY DEF Done
  <2>3. \A id \in Done(o, n) : id[1] = o /\ id = <<o, id[2]>> /\ id[2] \in 1..n
    BY DEF Done
  <2>4. Counts(od[o], ws.approval[o]) /\ ~Counts(ws.order[o], ws.approval[o])
    BY <1>10, NoneAssumption DEF Counts
  <2>5. DOMAIN od[o].lines = 1..n
    BY <1>10, <2>1 DEF LinesStay
  <2>6. ASSUME NEW id \in Counting(od, ws.approval)
        PROVE  id \in Counting(ws.order, ws.approval) \cup Done(o, n)
    <3>1. /\ id \in Orders \X (1..MaxLines) /\ od[id[1]] # None
          /\ id[2] \in DOMAIN od[id[1]].lines /\ Counts(od[id[1]], ws.approval[id[1]])
      BY DEF Counting, LineIds
    <3>2. CASE id[1] = o
      BY <2>5, <3>1, <3>2 DEF Done
    <3>3. CASE id[1] # o
      <4>1. od[id[1]] = ws.order[id[1]]
        BY <1>10, <3>1, <3>3
      <4> QED BY <3>1, <4>1 DEF Counting, LineIds
    <3> QED BY <3>2, <3>3
  <2>7. ASSUME NEW id \in Counting(ws.order, ws.approval)
        PROVE  id \in Counting(od, ws.approval)
    <3>1. /\ id \in Orders \X (1..MaxLines) /\ ws.order[id[1]] # None
          /\ id[2] \in DOMAIN ws.order[id[1]].lines /\ Counts(ws.order[id[1]], ws.approval[id[1]])
      BY DEF Counting, LineIds
    <3>2. id[1] # o
      BY <2>4, <3>1
    <3>3. od[id[1]] = ws.order[id[1]]
      BY <1>10, <3>1, <3>2
    <3> QED BY <3>1, <3>3 DEF Counting, LineIds
  <2>8. ASSUME NEW id \in Done(o, n)
        PROVE  id \in Counting(od, ws.approval)
    <3>1. id \in Orders \X (1..MaxLines) /\ id[1] = o /\ id[2] \in DOMAIN od[o].lines
      BY <2>1, <2>5 DEF Done
    <3> QED BY <1>10, <2>4, <3>1 DEF Counting, LineIds
  <2> QED BY <2>6, <2>7, <2>8
<1>17. \A id \in LineIds(ws.order) : LineStays(At(ws.order, id), At(od, id))
  BY <1>11 DEF LineIds, At, LinesStay
<1>18. Done(o, n) \subseteq LineIds(ws.order)
  <2>1. DOMAIN ws.order[o].lines = 1..n /\ 1..n \subseteq 1..MaxLines
    BY <1>9, BoundsAssumption DEF OrderOK
  <2> QED BY <2>1 DEF Done, LineIds
<1>19. SourcedBy(nw, od, Counting(od, ws.approval))
  <2> DEFINE T == Counting(ws.order, ws.approval) \cup Done(o, n)
  <2>1. T \subseteq LineIds(ws.order)
    BY <1>18 DEF Counting
  <2>2. \A id \in T : /\ At(od, id).source = At(ws.order, id).source
                      /\ At(od, id).ordered = At(ws.order, id).ordered
    BY <1>17, <2>1 DEF LineStays
  <2>3. Counting(od, ws.approval) = T /\ SourcedBy(rq, ws.order, T)
    BY <1>7, <1>16
  <2> HIDE DEF T
  <2>4. \A s : Asked(od, T, s) = Asked(ws.order, T, s)
    BY <1>9, <2>1, <2>2, AskedStays
  <2> QED BY <1>5, <2>3, <2>4 DEF SourcedBy
<1>20. TabInv(u)
  <2>1. Fields \subseteq DOMAIN u /\ u.master \in MasterStates
    BY <1>1, <1>6, <1>8 DEF TabInv
  <2> QED BY <1>5, <1>6, <1>8, <1>12, <1>13, <1>14, <1>15, <1>19, <2>1 DEF TabInv
<1>21. ASSUME run.ok, ~run.doubled, Balanced(ws.order, ws.stock)
       PROVE  Balanced(od, st)
  <2> SUFFICES ASSUME NEW p \in Positions
               PROVE  OnOrderAt(st[p]) = Due(od, OpenLines(od), p)
    BY DEF Balanced
  <2> DEFINE O == OpenLines(ws.order) \cup Done(o, n)
  <2>1. /\ OpenLines(ws.order) \subseteq LineIds(ws.order) /\ O \subseteq LineIds(ws.order)
    BY <1>18 DEF OpenLines
  <2>2. OpenLines(od) = O
    <3>1. DOMAIN ws.order[o].lines = 1..n /\ 1..n \subseteq 1..MaxLines
      BY <1>9, BoundsAssumption DEF OrderOK
    <3>2. DOMAIN od[o].lines = 1..n
      BY <1>10, <3>1 DEF LinesStay
    <3>3. IsOpen(od[o]) /\ ~IsOpen(ws.order[o])
      BY <1>10 DEF IsOpen, OpenForReceiving
    <3>4. ASSUME NEW id \in OpenLines(od)
          PROVE  id \in O
      <4>1. /\ id \in Orders \X (1..MaxLines) /\ od[id[1]] # None
            /\ id[2] \in DOMAIN od[id[1]].lines /\ IsOpen(od[id[1]])
        BY DEF OpenLines, LineIds
      <4>2. CASE id[1] = o
        BY <3>2, <4>1, <4>2 DEF Done
      <4>3. CASE id[1] # o
        <5>1. od[id[1]] = ws.order[id[1]]
          BY <1>10, <4>1, <4>3
        <5> QED BY <4>1, <5>1 DEF OpenLines, LineIds
      <4> QED BY <4>2, <4>3
    <3>5. ASSUME NEW id \in OpenLines(ws.order)
          PROVE  id \in OpenLines(od)
      <4>1. /\ id \in Orders \X (1..MaxLines) /\ ws.order[id[1]] # None
            /\ id[2] \in DOMAIN ws.order[id[1]].lines /\ IsOpen(ws.order[id[1]])
        BY DEF OpenLines, LineIds
      <4>2. id[1] # o
        BY <3>3, <4>1
      <4>3. od[id[1]] = ws.order[id[1]]
        BY <1>10, <4>1, <4>2
      <4> QED BY <4>1, <4>3 DEF OpenLines, LineIds
    <3>6. ASSUME NEW id \in Done(o, n)
          PROVE  id \in OpenLines(od)
      <4>1. id \in Orders \X (1..MaxLines) /\ id[1] = o /\ id[2] \in DOMAIN od[o].lines
        BY <3>1, <3>2 DEF Done
      <4> QED BY <1>10, <3>3, <4>1 DEF OpenLines, LineIds
    <3> QED BY <3>4, <3>5, <3>6
  <2>3. \A id \in O : /\ At(od, id).position = At(ws.order, id).position
                      /\ Outstanding(At(od, id)) = Outstanding(At(ws.order, id))
    BY <1>17, <2>1 DEF LineStays, Outstanding
  <2>4. /\ OnOrderAt(st[p]) + Due(ws.order, OpenLines(ws.order), p)
             = OnOrderAt(ws.stock[p]) + Due(ws.order, O, p)
    BY <1>1, <1>2, <1>21
  <2> HIDE DEF O
  <2>5. Due(od, O, p) = Due(ws.order, O, p)
    BY <1>9, <2>1, <2>3, DueStays
  <2>6. OnOrderAt(ws.stock[p]) = Due(ws.order, OpenLines(ws.order), p)
    BY <1>21 DEF Balanced
  <2>7. Due(ws.order, OpenLines(ws.order), p) \in Nat /\ Due(ws.order, O, p) \in Nat
    BY <1>9, <2>1, SumTypes
  <2>8. OnOrderAt(st[p]) \in Nat
    <3>1. st[p] \in StockRows \cup {None}
      BY <1>7 DEF StockKept, StockTable
    <3> QED BY <3>1 DEF OnOrderAt, StockRows
  <2>9. PICK x, y, z \in Nat : /\ x = OnOrderAt(st[p]) /\ y = Due(ws.order, OpenLines(ws.order), p)
                               /\ z = Due(ws.order, O, p)
    BY <2>7, <2>8
  <2>10. x + y = y + z
    BY <2>4, <2>6, <2>9
  <2>11. x = z
    BY <2>10
  <2> QED BY <2>2, <2>5, <2>9, <2>11
<1>22. \A f \in DOMAIN ws \ Fields : u[f] = ws[f]
  BY <1>6 DEF Fields
<1>23. TablesStay(ws, u)
  BY <1>5, <1>6, <1>20, <1>22 DEF TablesStay
<1>24. run.ok /\ ~run.doubled => Moved(ws, u)
  BY <1>6, <1>21, <1>23 DEF Moved
<1>25. Handled(u, o, "APPROVED")
  <2>1. o \notin Reqs
    BY EntityAssumption
  <2> QED BY <1>6, <1>8, <1>10, <2>1 DEF Handled, RowOf
<1> QED BY <1>23, <1>24, <1>25

(* The approval of a purchase order keeps the invariant, also when its handler raises
   in the middle of the lines. *)
LEMMA ApprovePurchaseOrderStep ==
    ASSUME IInv, NEW o \in Orders, ApprovePurchaseOrder(o)
    PROVE  IInv' /\ SessionStep
<1>1. PICK run : run = ApprovedLines(o)
  OBVIOUS
<1> DEFINE stuck == {q \in run.touched : ~Refreshable(run.tables.req[q])}
<1>2. /\ TabInv(ws) /\ SessionOK /\ deciding = None /\ ws.approval[o] = "PENDING"
      /\ ws.order[o].status \in {"SUBMITTED", "UNDER_REVIEW"}
      /\ IF run.ok /\ stuck = {}
         THEN HandlerDone(o, "APPROVED", Refreshed(run.tables, run.touched), run.doubled)
         ELSE /\ \E qs \in IF run.ok THEN SUBSET (run.touched \ stuck) ELSE {{}} :
                      LeftOpen(Refreshed(run.tables, qs), run.rows, run.doubled)
              /\ UNCHANGED deciding
  BY <1>1 DEF ApprovePurchaseOrder, AwaitsDecision, Ready, IInv
<1>3. ws.order[o] # None
  BY <1>2, NoneAssumption DEF TabInv, DecisionsOK, Decided
<1>4. ws.order[o].status = "SUBMITTED"
  <2>1. OrderOK(ws.order[o])
    BY <1>2, <1>3, OrderSeen
  <2> QED BY <1>2, <2>1 DEF OrderOK
<1>5. ApprovalOK(o, run, Len(ws.order[o].lines))
  BY <1>1, <1>2, <1>3, <1>4, ApprovalLoop
<1>6. /\ run.doubled \in BOOLEAN /\ run.ok \in BOOLEAN /\ run.rows \subseteq Positions
      /\ run.touched \subseteq {q \in Reqs : ws.req[q] # None}
      /\ Reqs = {} => run.ok
  BY <1>5 DEF ApprovalOK
<1>7. CASE run.ok /\ stuck = {}
  <2>1. PICK u : u = Refreshed(run.tables, run.touched)
    OBVIOUS
  <2>2. PICK doubled \in BOOLEAN : doubled = run.doubled
    BY <1>6
  <2>3. HandlerDone(o, "APPROVED", u, doubled)
    BY <1>2, <1>7, <2>1, <2>2
  <2>4. PICK qs : qs = run.touched
    OBVIOUS
  <2>5. \A q \in qs : Refreshable(run.tables.req[q]) /\ ws.req[q] # None
    BY <1>6, <1>7, <2>4
  <2>6. ~doubled => Moved(ws, u) /\ Handled(u, o, "APPROVED")
    <3> HIDE DEF stuck
    <3>1. /\ run.ok /\ ~run.doubled => Moved(ws, u)
          /\ Handled(u, o, "APPROVED")
      BY <1>2, <1>3, <1>4, <1>5, <2>1, <2>4, <2>5, ApprovedMoves
    <3> QED BY <1>7, <2>2, <3>1
  <2>7. o \in Entities
    BY DEF Entities
  <2> HIDE DEF stuck
  <2> QED BY <1>2, <2>3, <2>6, <2>7, HandlerStep
<1>8. CASE ~(run.ok /\ stuck = {})
  <2>1. PICK qs \in IF run.ok THEN SUBSET (run.touched \ stuck) ELSE {{}} :
            LeftOpen(Refreshed(run.tables, qs), run.rows, run.doubled)
    BY <1>2, <1>8
  <2>2. PICK u : u = Refreshed(run.tables, qs)
    OBVIOUS
  <2>3. \A q \in qs : Refreshable(run.tables.req[q]) /\ ws.req[q] # None
    BY <1>6, <2>1
  <2>4. Reqs # {}
    BY <1>6, <1>8
  <2>5. TablesStay(ws, u) /\ u # ws
    <3> HIDE DEF stuck
    <3>1. TablesStay(ws, u) /\ Handled(u, o, "APPROVED")
      BY <1>2, <1>3, <1>4, <1>5, <2>2, <2>3, ApprovedMoves
    <3>2. RowOf(u, o) = u.order[o]
      BY EntityAssumption DEF RowOf
    <3> QED BY <1>4, <3>1, <3>2 DEF Handled
  <2>6. PICK doubled \in BOOLEAN : doubled = run.doubled
    BY <1>6
  <2>7. PICK rows : rows = run.rows
    OBVIOUS
  <2>8. LeftOpen(u, rows, doubled) /\ rows \subseteq Positions
    BY <1>6, <2>1, <2>2, <2>7, <2>6
  <2>9. UNCHANGED deciding
    BY <1>2, <1>8
  <2> HIDE DEF stuck
  <2> QED BY <1>2, <2>4, <2>5, <2>6, <2>8, <2>9, OpenStep
<1> QED BY <1>7, <1>8

-----------------------------------------------------------------------------
(* The loop of post_receipt *)

ReceiptStart == [tables |-> ws, ok |-> ~clash]

ReceiptRun(o, receipt, f, n) ==
    f = [k \in 0..n |-> IF k = 0 THEN ReceiptStart ELSE ReceiveEntry(o, f[k - 1], receipt[k])]

(* The loop has a run over any number of entries. *)
LEMMA ReceiptRuns ==
    ASSUME NEW o, NEW receipt, NEW n \in Nat
    PROVE  \E f : ReceiptRun(o, receipt, f, n)
<1> DEFINE T == {m \in Nat : ~ \E f : ReceiptRun(o, receipt, f, m)}
<1>1. SUFFICES ASSUME T # {} PROVE FALSE
  OBVIOUS
<1>2. PICK m \in T : \A x \in T : m <= x
  <2>1. T \subseteq Nat
    OBVIOUS
  <2> HIDE DEF T
  <2> QED BY <1>1, <2>1, LeastNumber
<1>3. m \in Nat /\ ~ \E f : ReceiptRun(o, receipt, f, m)
  OBVIOUS
<1>4. CASE m = 0
  <2> DEFINE g == [k \in 0..0 |-> ReceiptStart]
  <2>1. g = [k \in 0..0 |-> IF k = 0 THEN ReceiptStart ELSE ReceiveEntry(o, g[k - 1], receipt[k])]
    OBVIOUS
  <2> HIDE DEF g
  <2>2. ReceiptRun(o, receipt, g, 0)
    BY <2>1 DEF ReceiptRun
  <2> QED BY <1>3, <1>4, <2>2
<1>5. CASE m # 0
  <2>1. m - 1 \in Nat /\ m - 1 \notin T
    BY <1>2, <1>3, <1>5
  <2>2. PICK f : ReceiptRun(o, receipt, f, m - 1)
    BY <2>1
  <2> DEFINE g == [k \in 0..m |-> IF k = m THEN ReceiveEntry(o, f[m - 1], receipt[m]) ELSE f[k]]
  <2>3. ASSUME NEW k \in 0..m
        PROVE  g[k] = IF k = 0 THEN ReceiptStart ELSE ReceiveEntry(o, g[k - 1], receipt[k])
    <3>1. CASE k = m
      BY <1>3, <1>5, <3>1
    <3>2. CASE k # m
      <4>1. k \in 0..m - 1 /\ g[k] = f[k] /\ (k # 0 => g[k - 1] = f[k - 1])
        BY <1>3, <3>2
      <4> HIDE DEF g
      <4>2. f[k] = IF k = 0 THEN ReceiptStart ELSE ReceiveEntry(o, f[k - 1], receipt[k])
        BY <2>2, <4>1, Zenon DEF ReceiptRun
      <4> QED BY <4>1, <4>2
    <3> QED BY <3>1, <3>2
  <2>4. DOMAIN g = 0..m /\ g = [k \in 0..m |-> g[k]]
    OBVIOUS
  <2> HIDE DEF g
  <2>5. ReceiptRun(o, receipt, g, m)
    BY <2>3, <2>4, Zenon DEF ReceiptRun
  <2> QED BY <1>3, <2>5
<1> QED BY <1>4, <1>5

(* What post_receipt has when its loop ends. *)
LEMMA ReceivedEntriesIs ==
    ASSUME NEW o, NEW receipt, Len(receipt) \in Nat
    PROVE  \E f : /\ ReceivedEntries(o, receipt) = f[Len(receipt)]
                  /\ f[0] = ReceiptStart
                  /\ \A k \in 1..Len(receipt) : f[k] = ReceiveEntry(o, f[k - 1], receipt[k])
<1> DEFINE n == Len(receipt)
<1>1. PICK f : f = CHOOSE g : ReceiptRun(o, receipt, g, n)
  OBVIOUS
<1>2. ReceiptRun(o, receipt, f, n)
  BY <1>1, ReceiptRuns
<1>3. ReceivedEntries(o, receipt) = f[n]
  BY <1>1, Zenon DEF ReceivedEntries, ReceiptRun, ReceiptStart
<1>4. 0 \in 0..n /\ \A k \in 1..n : k \in 0..n /\ k # 0
  OBVIOUS
<1> HIDE DEF n
<1>5. f[0] = ReceiptStart
  BY <1>2, <1>4, Zenon DEF ReceiptRun
<1>6. \A k \in 1..n : f[k] = ReceiveEntry(o, f[k - 1], receipt[k])
  BY <1>2, <1>4, Zenon DEF ReceiptRun
<1> QED BY <1>3, <1>5, <1>6 DEF n

(* What may not change in a line by receiving; no more is processed than was ordered. *)
LineReceives(old, new) == /\ new.position = old.position /\ new.ordered = old.ordered
                          /\ new.source = old.source
                          /\ Processed(new) <= new.ordered

(* What the loop keeps of the order and of the stock. *)
OrderReceives(o, od) ==
    /\ od \in OrderTable
    /\ od[o] # None /\ od[o].status = ws.order[o].status
    /\ DOMAIN od[o].lines = DOMAIN ws.order[o].lines
    /\ Len(od[o].lines) = Len(ws.order[o].lines)
    /\ \A k \in DOMAIN ws.order[o].lines : LineReceives(ws.order[o].lines[k], od[o].lines[k])
    /\ \A x \in Orders \ {o} : od[x] = ws.order[x]

IsRun(run) == run = [tables |-> run.tables, ok |-> run.ok]

ReceiptOK(o, run, n) ==
    /\ IsRun(run)
    /\ run.ok \in BOOLEAN /\ (run.ok => ~clash)
    /\ Fields \subseteq DOMAIN ws /\ DOMAIN run.tables = DOMAIN ws
    /\ \A f \in DOMAIN ws \ {"order", "stock"} : run.tables[f] = ws[f]
    /\ OrderReceives(o, run.tables.order)
    /\ StockOK(run.tables.order, run.tables.stock)
    /\ run.ok /\ n # 0 => \E k \in DOMAIN run.tables.order[o].lines :
                              Processed(run.tables.order[o].lines[k]) > 0
    /\ Balanced(ws.order, ws.stock) => Balanced(run.tables.order, run.tables.stock)

(* The lines of the tables the loop works on. *)
LEMMA ReceivedLines ==
    ASSUME TabInv(ws), NEW o \in Orders, ws.order[o] # None, NEW od, OrderReceives(o, od)
    PROVE  /\ IsFiniteSet(Existing(od)) /\ od \in OrderTable
           /\ LineIds(od) = LineIds(ws.order)
           /\ OpenLines(od) = OpenLines(ws.order)
           /\ \A k \in DOMAIN od[o].lines : <<o, k>> \in LineIds(od)
           /\ od[o] \in OrderRows /\ od[o].lines \in Seq(OrderLines)
           /\ \A k \in DOMAIN od[o].lines : od[o].lines[k] \in OrderLines
<1>1. /\ OrderOK(ws.order[o]) /\ ws.order[o].lines \in Seq(OrderLines)
      /\ IsFiniteSet(Existing(ws.order))
  BY OrderSeen DEF TabInv, OrdersOK
<1>2. \A x \in Orders : /\ od[x] = None <=> ws.order[x] = None
                        /\ od[x] # None => /\ od[x].status = ws.order[x].status
                                           /\ DOMAIN od[x].lines = DOMAIN ws.order[x].lines
  BY DEF OrderReceives
<1>3. Existing(od) = Existing(ws.order)
  BY <1>2 DEF Existing
<1>4. LineIds(od) = LineIds(ws.order)
  BY <1>2 DEF LineIds
<1>5. OpenLines(od) = OpenLines(ws.order)
  BY <1>2, <1>4 DEF OpenLines, IsOpen, LineIds
<1>6. od[o] \in OrderRows /\ od[o].lines \in Seq(OrderLines) /\ od \in OrderTable
  BY DEF OrderReceives, OrderTable, OrderRows
<1>7. DOMAIN ws.order[o].lines = 1..Len(ws.order[o].lines)
      /\ Len(ws.order[o].lines) <= MaxLines /\ Len(ws.order[o].lines) \in Nat
  BY <1>1 DEF OrderOK
<1>8. \A k \in DOMAIN od[o].lines : <<o, k>> \in LineIds(od)
  BY <1>2, <1>7, BoundsAssumption DEF LineIds, OrderReceives
<1> QED BY <1>1, <1>3, <1>4, <1>5, <1>6, <1>8

(* An entry takes from what its line still has to deliver what it processes. *)
LEMMA LineReceived ==
    ASSUME NEW line \in OrderLines, Processed(line) <= line.ordered,
           NEW entry \in [line : Nat, accepted : Nat, rejected : Nat],
           entry.accepted + entry.rejected > 0,
           entry.accepted + entry.rejected <= Outstanding(line)
    PROVE  /\ Received(line, entry) \in OrderLines
           /\ LineReceives(line, Received(line, entry))
           /\ Received(line, entry).received = line.received + entry.accepted
           /\ Processed(Received(line, entry)) > 0
           /\ Outstanding(Received(line, entry))
                = Outstanding(line) - (entry.accepted + entry.rejected)
<1> DEFINE next == [line EXCEPT !.received = line.received + entry.accepted,
                                !.rejected = line.rejected + entry.rejected]
           new == [next EXCEPT !.status = OrderLineStatus(next)]
<1>1. entry.accepted \in Nat /\ entry.rejected \in Nat
  OBVIOUS
<1>2. /\ next \in OrderLines /\ next.position = line.position /\ next.ordered = line.ordered
      /\ next.source = line.source /\ next.received = line.received + entry.accepted
      /\ next.rejected = line.rejected + entry.rejected
  <2>1. PICK a, r \in Nat : a = entry.accepted /\ r = entry.rejected
    BY <1>1
  <2>2. next = [line EXCEPT !.received = line.received + a, !.rejected = line.rejected + r]
    BY <2>1
  <2>3. line.received + a \in Nat /\ line.rejected + r \in Nat
    BY DEF OrderLines
  <2>4. PICK x, y \in Nat : x = line.received + a /\ y = line.rejected + r
    BY <2>3
  <2>5. next = [line EXCEPT !.received = x, !.rejected = y]
    BY <2>2, <2>4
  <2> HIDE DEF next
  <2> QED BY <2>1, <2>4, <2>5 DEF OrderLines
<1>3. OrderLineStatus(next) \in OrderLineStatuses
  BY DEF OrderLineStatus, OrderLineStatuses
<1> HIDE DEF next
<1>4. /\ new \in OrderLines /\ new.position = line.position /\ new.ordered = line.ordered
      /\ new.source = line.source /\ new.received = line.received + entry.accepted
      /\ new.rejected = line.rejected + entry.rejected
  BY <1>2, <1>3 DEF OrderLines
<1>5. Received(line, entry) = new
  BY DEF Received, new, next
<1> HIDE DEF new
<1>6. Processed(new) = Processed(line) + (entry.accepted + entry.rejected)
      /\ Processed(line) \in Nat /\ line.ordered \in Nat
  BY <1>1, <1>4 DEF Processed, OrderLines
<1>7. Outstanding(line) = line.ordered - Processed(line)
  BY OutstandingIs
<1>8. Processed(new) <= new.ordered /\ Processed(new) > 0
  BY <1>1, <1>4, <1>6, <1>7
<1>9. Outstanding(new) = new.ordered - Processed(new)
  BY <1>4, <1>8, OutstandingIs
<1>10. Outstanding(new) = Outstanding(line) - (entry.accepted + entry.rejected)
  BY <1>1, <1>4, <1>6, <1>7, <1>9
<1> QED BY <1>4, <1>5, <1>8, <1>10 DEF LineReceives

(* Line a of position p received acc and rejected rej, and so did the stock. *)
LineGave(od, nw, a, p, acc, rej) ==
    /\ od \in OrderTable /\ IsFiniteSet(Existing(od))
    /\ LineIds(nw) = LineIds(od) /\ OpenLines(nw) = OpenLines(od) /\ a \in OpenLines(od)
    /\ \A id \in LineIds(od) \ {a} : At(nw, id) = At(od, id)
    /\ At(nw, a) \in OrderLines /\ At(nw, a).position = At(od, a).position
    /\ At(nw, a).received = At(od, a).received + acc
    /\ Outstanding(At(nw, a)) = Outstanding(At(od, a)) - (acc + rej)
    /\ At(od, a).position = p

StockTook(st, sn, p, acc, rej) ==
    /\ sn \in StockTable /\ \A x \in Positions \ {p} : sn[x] = st[x]
    /\ st[p] # None /\ sn[p] # None
    /\ sn[p].on_hand = st[p].on_hand + acc
    /\ sn[p].on_order = st[p].on_order - (acc + rej)

(* What an entry takes from one line it takes from the sums, and from the stock. *)
LEMMA LineTaken ==
    ASSUME NEW od, NEW nw, NEW a, NEW p \in Positions, NEW acc \in Nat, NEW rej \in Nat,
           LineGave(od, nw, a, p, acc, rej),
           NEW st, NEW sn, StockTook(st, sn, p, acc, rej), StockOK(od, st)
    PROVE  StockOK(nw, sn) /\ (Balanced(od, st) => Balanced(nw, sn))
<1> USE DEF LineGave, StockTook
<1>1. a \in LineIds(od) /\ OpenLines(od) \subseteq LineIds(od) /\ At(od, a) \in OrderLines
  BY LinesOfIds DEF OpenLines
<1>2. PICK r0, r1, m0, m1 \in Nat :
          /\ r0 = At(od, a).received /\ r1 = At(nw, a).received
          /\ m0 = Outstanding(At(od, a)) /\ m1 = Outstanding(At(nw, a))
  <2>1. At(od, a).received \in Nat /\ At(nw, a).received \in Nat
    BY <1>1 DEF OrderLines
  <2>2. Outstanding(At(od, a)) \in Nat /\ Outstanding(At(nw, a)) \in Nat
    BY <1>1, OutstandingIs
  <2> QED BY <2>1, <2>2
<1>3. r1 = r0 + acc /\ m1 = m0 - (acc + rej)
  BY <1>2
<1>4. st[p].on_order \in Nat /\ st[p].on_hand \in Nat
  BY DEF StockOK, StockTable, StockRows
<1>5. StockOK(nw, sn)
  <2> SUFFICES ASSUME NEW x \in Positions
               PROVE  OnHand(sn[x]) = Delivered(nw, x)
    BY DEF StockOK
  <2>1. OnHand(st[x]) = Delivered(od, x)
    BY DEF StockOK
  <2>2. Delivered(nw, x) = Delivered(od, x) + (IF At(od, a).position = x
                                   THEN At(nw, a).received - At(od, a).received ELSE 0)
    BY <1>1, <1>2, DeliveredChanges
  <2>3. Delivered(od, x) \in Nat
    BY <1>1, SumTypes
  <2>4. CASE x = p
    <3>1. PICK d \in Nat : d = Delivered(od, x)
      BY <2>3
    <3>2. Delivered(nw, x) = d + (r1 - r0)
      BY <1>2, <2>2, <2>4, <3>1
    <3>3. OnHand(st[x]) = st[p].on_hand /\ OnHand(sn[x]) = st[p].on_hand + acc
      BY <2>4 DEF OnHand
    <3>4. OnHand(sn[x]) = d + acc
      BY <2>1, <3>1, <3>3
    <3>5. d + (r1 - r0) = d + acc
      BY <1>3
    <3> QED BY <3>2, <3>4, <3>5
  <2>5. CASE x # p
    <3>1. Delivered(nw, x) = Delivered(od, x)
      BY <2>2, <2>3, <2>5
    <3> QED BY <2>1, <2>5, <3>1
  <2> QED BY <2>4, <2>5
<1>6. ASSUME Balanced(od, st)
      PROVE  Balanced(nw, sn)
  <2> SUFFICES ASSUME NEW x \in Positions
               PROVE  OnOrderAt(sn[x]) = Due(nw, OpenLines(od), x)
    BY DEF Balanced
  <2>1. OnOrderAt(st[x]) = Due(od, OpenLines(od), x)
    BY <1>6 DEF Balanced
  <2>2. Due(nw, OpenLines(od), x) = Due(od, OpenLines(od), x) + (IF At(od, a).position = x
                             THEN Outstanding(At(nw, a)) - Outstanding(At(od, a)) ELSE 0)
    BY <1>1, <1>2, DueChanges
  <2>3. Due(od, OpenLines(od), x) \in Nat
    BY <1>1, SumTypes
  <2>4. CASE x = p
    <3>1. PICK d \in Nat : d = Due(od, OpenLines(od), x)
      BY <2>3
    <3>2. Due(nw, OpenLines(od), x) = d + (m1 - m0)
      BY <1>2, <2>2, <2>4, <3>1
    <3>3. OnOrderAt(st[x]) = st[p].on_order /\ OnOrderAt(sn[x]) = st[p].on_order - (acc + rej)
      BY <2>4 DEF OnOrderAt
    <3>4. OnOrderAt(sn[x]) = d - (acc + rej)
      BY <2>1, <3>1, <3>3
    <3>5. d + (m1 - m0) = d - (acc + rej)
      BY <1>3
    <3> QED BY <3>2, <3>4, <3>5
  <2>5. CASE x # p
    <3>1. Due(nw, OpenLines(od), x) = Due(od, OpenLines(od), x)
      BY <2>2, <2>3, <2>5
    <3> QED BY <2>1, <2>5, <3>1
  <2> QED BY <2>4, <2>5
<1> QED BY <1>5, <1>6

(* What an entry writes into the orders and into the stock. *)
LineWritten(od, o, entry, nw) ==
    nw = [od EXCEPT ![o] = [od[o] EXCEPT !.lines = [od[o].lines EXCEPT
             ![entry.line] = Received(od[o].lines[entry.line], entry)]]]

StockWritten(st, p, entry, sn) ==
    sn = [st EXCEPT ![p] = [st[p] EXCEPT
             !.on_hand = st[p].on_hand + entry.accepted,
             !.on_order = st[p].on_order - entry.accepted - entry.rejected]]

Acceptable(o, od, st, entry, p) ==
    /\ entry.line \in DOMAIN od[o].lines
    /\ entry.accepted + entry.rejected > 0
    /\ entry.accepted + entry.rejected <= Outstanding(od[o].lines[entry.line])
    /\ p = od[o].lines[entry.line].position /\ st[p] # None
    /\ st[p].on_order >= entry.accepted + entry.rejected

(* An entry that is accepted keeps what the loop keeps: what it takes off the line it takes
   off the stock's on-order quantity, and what it accepts it adds to the stock on hand. *)
LEMMA EntryReceived ==
    ASSUME TabInv(ws), NEW o \in Orders, ws.order[o] # None,
           IsOpen(ws.order[o]),
           NEW od, OrderReceives(o, od), NEW st, StockOK(od, st),
           NEW entry \in [line : Nat, accepted : Nat, rejected : Nat],
           NEW p, Acceptable(o, od, st, entry, p),
           NEW nw, LineWritten(od, o, entry, nw), NEW sn, StockWritten(st, p, entry, sn)
    PROVE  /\ OrderReceives(o, nw) /\ StockOK(nw, sn)
           /\ \E k \in DOMAIN nw[o].lines : Processed(nw[o].lines[k]) > 0
           /\ Balanced(od, st) => Balanced(nw, sn)
<1>1. PICK k, acc \in Nat, rej \in Nat : k = entry.line /\ acc = entry.accepted /\ rej = entry.rejected
  OBVIOUS
<1> USE DEF Acceptable
<1> DEFINE line == od[o].lines[k]
           new == Received(line, entry)
           lines == [od[o].lines EXCEPT ![k] = new]
           row == [od[o] EXCEPT !.lines = lines]
           a == <<o, k>>
<1>2. /\ IsFiniteSet(Existing(od)) /\ od \in OrderTable
      /\ OpenLines(od) \subseteq LineIds(od) /\ a \in LineIds(od)
      /\ od[o] \in OrderRows /\ od[o].lines \in Seq(OrderLines)
      /\ k \in DOMAIN od[o].lines /\ line \in OrderLines
  BY <1>1, ReceivedLines DEF OpenLines
<1>3. Processed(line) <= line.ordered
  BY <1>2 DEF OrderReceives, LineReceives
<1>4. /\ new \in OrderLines /\ LineReceives(line, new)
      /\ new.received = line.received + acc /\ Processed(new) > 0
      /\ Outstanding(new) = Outstanding(line) - (acc + rej)
      /\ Outstanding(new) \in Nat /\ new.received \in Nat
  <2>1. /\ new \in OrderLines /\ LineReceives(line, new)
        /\ new.received = line.received + entry.accepted /\ Processed(new) > 0
        /\ Outstanding(new) = Outstanding(line) - (entry.accepted + entry.rejected)
    BY <1>1, <1>2, <1>3, LineReceived
  <2>2. new.received \in Nat
    BY <2>1 DEF OrderLines
  <2> HIDE DEF new
  <2> QED BY <1>1, <2>1, <2>2, OutstandingIs
<1> HIDE DEF new
<1>5. /\ lines \in Seq(OrderLines) /\ Len(lines) = Len(od[o].lines)
      /\ DOMAIN lines = DOMAIN od[o].lines /\ lines[k] = new
      /\ \A j \in DOMAIN od[o].lines \ {k} : lines[j] = od[o].lines[j]
  BY <1>2, <1>4, PlaceWritten
<1>6. nw = [od EXCEPT ![o] = row]
  BY <1>1 DEF new, LineWritten
<1> HIDE DEF lines
<1>7. row \in OrderRows /\ row.lines = lines /\ row.status = od[o].status
  BY <1>2, <1>5 DEF OrderRows
<1>8. row # None
  BY <1>7, NoneAssumption
<1> HIDE DEF row
<1>9. nw \in OrderTable /\ nw[o] = row /\ \A x \in Orders \ {o} : nw[x] = od[x]
  BY <1>2, <1>6, <1>7 DEF OrderTable
<1>10. OrderReceives(o, nw)
  <2>1. ASSUME NEW j \in DOMAIN ws.order[o].lines
        PROVE  LineReceives(ws.order[o].lines[j], lines[j])
    <3>1. LineReceives(ws.order[o].lines[j], od[o].lines[j]) /\ j \in DOMAIN od[o].lines
      BY DEF OrderReceives
    <3>2. CASE j = k
      BY <1>4, <1>5, <3>1, <3>2 DEF LineReceives
    <3>3. CASE j # k
      BY <1>5, <3>1, <3>3
    <3> QED BY <3>2, <3>3
  <2> QED BY <1>5, <1>7, <1>8, <1>9, <2>1 DEF OrderReceives
<1>11. LineIds(nw) = LineIds(od) /\ OpenLines(nw) = OpenLines(od)
  BY <1>10, ReceivedLines
<1>12. /\ At(nw, a) = new /\ At(od, a) = line
       /\ \A id \in LineIds(od) \ {a} : At(nw, id) = At(od, id)
  <2>1. ASSUME NEW id \in LineIds(od), id # a
        PROVE  At(nw, id) = At(od, id)
    <3>1. id[1] \in Orders /\ id[2] \in DOMAIN od[id[1]].lines /\ id = <<id[1], id[2]>>
      BY DEF LineIds
    <3>2. CASE id[1] = o
      <4>1. id[2] # k
        BY <2>1, <3>1, <3>2
      <4> QED BY <1>5, <1>7, <1>9, <3>1, <3>2, <4>1 DEF At
    <3>3. CASE id[1] # o
      BY <1>9, <3>1, <3>3 DEF At
    <3> QED BY <3>2, <3>3
  <2> QED BY <1>5, <1>7, <1>9, <2>1 DEF At
<1>13. p = line.position /\ p \in Positions /\ new.position = p
  BY <1>1, <1>2, <1>4 DEF OrderLines, LineReceives
<1>14. /\ sn \in StockTable /\ sn[p] # None /\ \A x \in Positions \ {p} : sn[x] = st[x]
       /\ sn[p].on_hand = st[p].on_hand + acc
       /\ sn[p].on_order = st[p].on_order - (acc + rej)
       /\ st[p].on_hand \in Nat /\ st[p].on_order \in Nat
  <2>1. st \in [Positions -> StockRows \cup {None}] /\ st[p] \in StockRows
    BY <1>13 DEF StockOK, StockTable
  <2>2. PICK h \in Nat, q \in Nat : h = st[p].on_hand /\ q = st[p].on_order
    BY <2>1 DEF StockRows
  <2>3. q >= acc + rej
    BY <1>1, <2>2
  <2>4. PICK h1 \in Nat, q1 \in Nat : h1 = h + acc /\ q1 = q - (acc + rej) /\ q1 = q - acc - rej
    BY <2>3
  <2> DEFINE stocked == [st[p] EXCEPT !.on_hand = h1, !.on_order = q1]
  <2>5. stocked \in StockRows /\ stocked.on_hand = h1 /\ stocked.on_order = q1
    BY <2>1 DEF StockRows
  <2>6. sn = [st EXCEPT ![p] = stocked]
    BY <1>1, <2>2, <2>4 DEF StockWritten
  <2>7. stocked # None
    BY <2>5, NoneAssumption
  <2> HIDE DEF stocked
  <2>8. sn[p] = stocked /\ \A x \in Positions \ {p} : sn[x] = st[x]
    BY <1>13, <2>1, <2>6
  <2>9. sn \in StockTable
    BY <2>1, <2>5, <2>6 DEF StockTable
  <2> QED BY <2>2, <2>4, <2>5, <2>7, <2>8, <2>9
<1> HIDE DEF a, line
<1>15. OpenLines(nw) = OpenLines(od) /\ LineIds(nw) = LineIds(od) /\ a \in OpenLines(od)
  <2>1. IsOpen(od[o])
    BY DEF IsOpen, OrderReceives
  <2> QED BY <1>2, <1>11, <2>1 DEF OpenLines, a
<1>16. StockOK(nw, sn) /\ (Balanced(od, st) => Balanced(nw, sn))
  <2>1. /\ At(nw, a) \in OrderLines /\ At(nw, a).position = At(od, a).position
        /\ At(nw, a).received = At(od, a).received + acc
        /\ Outstanding(At(nw, a)) = Outstanding(At(od, a)) - (acc + rej)
        /\ At(od, a).position = p
    BY <1>4, <1>12, <1>13
  <2>2. LineGave(od, nw, a, p, acc, rej)
    BY <1>2, <1>12, <1>15, <2>1 DEF LineGave
  <2>3. StockTook(st, sn, p, acc, rej)
    BY <1>14 DEF StockTook
  <2> QED BY <1>13, <2>2, <2>3, LineTaken
<1>17. k \in DOMAIN nw[o].lines /\ Processed(nw[o].lines[k]) > 0
  BY <1>2, <1>4, <1>5, <1>7, <1>9
<1> QED BY <1>10, <1>16, <1>17

(* The record an accepted entry leaves. *)
Accepted(o, run, entry) == run.ok /\ ReceivableEntry(run.tables, o, entry)

Writable(o, run, entry, p) ==
    /\ IsRun(run) /\ Accepted(o, run, entry)
    /\ {"order", "stock"} \subseteq DOMAIN run.tables
    /\ o \in DOMAIN run.tables.order /\ "lines" \in DOMAIN run.tables.order[o]
    /\ p = run.tables.order[o].lines[entry.line].position
    /\ p \in DOMAIN run.tables.stock
    /\ {"on_hand", "on_order"} \subseteq DOMAIN run.tables.stock[p]

(* The rows one accepted entry writes. *)
LEMMA EntryWrites ==
    ASSUME NEW o, NEW run, NEW entry, NEW p, Writable(o, run, entry, p),
           NEW new, new = ReceiveEntry(o, run, entry)
    PROVE  /\ IsRun(new)
           /\ new.ok = run.ok /\ DOMAIN new.tables = DOMAIN run.tables
           /\ LineWritten(run.tables.order, o, entry, new.tables.order)
           /\ StockWritten(run.tables.stock, p, entry, new.tables.stock)
           /\ \A f \in DOMAIN run.tables \ {"order", "stock"} : new.tables[f] = run.tables[f]
<1> DEFINE t == run.tables
           od == t.order
           st == t.stock
           k == entry.line
           v == Received(od[o].lines[k], entry)
           nw == [od EXCEPT ![o] = [od[o] EXCEPT !.lines = [od[o].lines EXCEPT ![k] = v]]]
           s1 == [st EXCEPT ![p] = [st[p] EXCEPT !.on_hand = st[p].on_hand + entry.accepted]]
           sn == [st EXCEPT ![p] = [st[p] EXCEPT
                     !.on_hand = st[p].on_hand + entry.accepted,
                     !.on_order = st[p].on_order - entry.accepted - entry.rejected]]
           r1 == [run EXCEPT !.tables.order[o].lines[k] = v]
           r2 == [r1 EXCEPT !.tables.stock[p].on_hand = st[p].on_hand + entry.accepted]
           r3 == [r2 EXCEPT !.tables.stock[p].on_order =
                     st[p].on_order - entry.accepted - entry.rejected]
           u1 == [t EXCEPT !.order = nw]
           u2 == [u1 EXCEPT !.stock = s1]
           u3 == [u2 EXCEPT !.stock = sn]
<1>1. new = r3
  <2>1. /\ Accepted(o, run, entry)
        /\ p = run.tables.order[o].lines[entry.line].position
    BY Zenon DEF Writable
  <2> DEFINE q == run.tables.order[o].lines[entry.line].position
             w2 == [r1 EXCEPT !.tables.stock[q].on_hand = st[q].on_hand + entry.accepted]
             w3 == [w2 EXCEPT !.tables.stock[q].on_order =
                       st[q].on_order - entry.accepted - entry.rejected]
  <2>2. new = w3
    BY <2>1, Zenon DEF ReceiveEntry, Accepted
  <2>3. w2 = r2
    BY <2>1, Zenon
  <2>4. w3 = r3
    <3>1. q = p
      BY <2>1
    <3> HIDE DEF r2, w2, q
    <3> QED BY <2>3, <3>1
  <2> HIDE DEF w3, r3
  <2> QED BY <2>2, <2>4
<1>2. r1 = [tables |-> u1, ok |-> run.ok]
  <2>1. r1 = [run EXCEPT !.tables = u1]
    BY Zenon
  <2>2. run = [tables |-> t, ok |-> run.ok]
    BY Zenon DEF IsRun, Writable
  <2> HIDE DEF u1, r1
  <2>3. PICK b : b = run.ok
    OBVIOUS
  <2>4. run = [tables |-> t, ok |-> b]
    BY <2>2, <2>3, Zenon
  <2> HIDE DEF t
  <2>5. [run EXCEPT !.tables = u1] = [tables |-> u1, ok |-> b]
    BY <2>4
  <2> QED BY <2>1, <2>3, <2>5, Zenon
<1> HIDE DEF r1, v, nw
<1>3. u1.stock = st /\ u1.order = nw /\ DOMAIN u1 = DOMAIN t
      /\ \A f \in DOMAIN t \ {"order", "stock"} : u1[f] = t[f]
  BY DEF Writable
<1> HIDE DEF u1
<1>4. r2 = [tables |-> u2, ok |-> run.ok]
  <2>1. r1.tables = u1
    BY <1>2
  <2>2. r2 = [r1 EXCEPT !.tables = [r1.tables EXCEPT !.stock = [r1.tables.stock EXCEPT ![p] =
                 [r1.tables.stock[p] EXCEPT !.on_hand = st[p].on_hand + entry.accepted]]]]
    BY Zenon
  <2>3. r2 = [r1 EXCEPT !.tables = u2]
    BY <1>3, <2>1, <2>2, Zenon
  <2> HIDE DEF r2, u2
  <2> QED BY <1>2, <2>3
<1>5. u2.stock = s1 /\ u2.order = nw /\ DOMAIN u2 = DOMAIN t
      /\ \A f \in DOMAIN t \ {"order", "stock"} : u2[f] = t[f]
  BY <1>3 DEF Writable
<1> HIDE DEF u2, r2
<1>6. s1[p] = [st[p] EXCEPT !.on_hand = st[p].on_hand + entry.accepted]
      /\ s1[p].on_order = st[p].on_order
      /\ sn = [s1 EXCEPT ![p] = [s1[p] EXCEPT !.on_order = st[p].on_order - entry.accepted - entry.rejected]]
  BY DEF Writable
<1> HIDE DEF s1, sn
<1>7. r3 = [tables |-> u3, ok |-> run.ok]
  <2>1. r2.tables = u2
    BY <1>4
  <2>2. r3 = [r2 EXCEPT !.tables = [r2.tables EXCEPT !.stock = [r2.tables.stock EXCEPT ![p] =
                 [r2.tables.stock[p] EXCEPT !.on_order =
                    st[p].on_order - entry.accepted - entry.rejected]]]]
    BY Zenon
  <2>3. r3 = [r2 EXCEPT !.tables = u3]
    BY <1>5, <1>6, <2>1, <2>2, Zenon
  <2> HIDE DEF r3, u3
  <2> QED BY <1>4, <2>3
<1>8. u3.stock = sn /\ u3.order = nw /\ DOMAIN u3 = DOMAIN t
      /\ \A f \in DOMAIN t \ {"order", "stock"} : u3[f] = t[f]
  BY <1>5 DEF Writable
<1> HIDE DEF u3, r3
<1>9. LineWritten(od, o, entry, nw) /\ StockWritten(st, p, entry, sn)
  BY DEF LineWritten, StockWritten, nw, sn, v
<1> HIDE DEF t
<1>10. new.tables = u3 /\ new.ok = run.ok /\ IsRun(new)
  <2>1. PICK b : b = run.ok
    OBVIOUS
  <2>2. new = [tables |-> u3, ok |-> b]
    BY <1>1, <1>7, <2>1, Zenon
  <2>3. new.tables = u3 /\ new.ok = b
    BY <2>2
  <2> QED BY <2>1, <2>2, <2>3, Zenon DEF IsRun
<1> QED BY <1>8, <1>9, <1>10 DEF t

(* One turn of the loop over the entries keeps what the loop guarantees. *)
LEMMA ReceiptTurn ==
    ASSUME TabInv(ws), NEW o \in Orders, ws.order[o] # None, IsOpen(ws.order[o]),
           NEW n \in Nat, NEW m \in Nat, NEW run, ReceiptOK(o, run, n),
           NEW entry \in [line : Nat, accepted : Nat, rejected : Nat]
    PROVE  ReceiptOK(o, ReceiveEntry(o, run, entry), m)
<1>1. PICK new : new = ReceiveEntry(o, run, entry)
  OBVIOUS
<1> DEFINE t == run.tables
<1>2. /\ IsRun(run)
      /\ run.ok \in BOOLEAN /\ (run.ok => ~clash)
      /\ Fields \subseteq DOMAIN ws /\ DOMAIN t = DOMAIN ws
      /\ \A f \in DOMAIN ws \ {"order", "stock"} : t[f] = ws[f]
      /\ OrderReceives(o, t.order)
      /\ StockOK(t.order, t.stock)
      /\ Balanced(ws.order, ws.stock) => Balanced(t.order, t.stock)
  BY DEF ReceiptOK
<1>3. CASE run.ok /\ ReceivableEntry(t, o, entry)
  <2> DEFINE p == t.order[o].lines[entry.line].position
  <2>1. /\ entry.line \in DOMAIN t.order[o].lines
        /\ entry.accepted + entry.rejected > 0
        /\ entry.accepted + entry.rejected <= Outstanding(t.order[o].lines[entry.line])
        /\ t.stock[p] # None
        /\ t.stock[p].on_order >= entry.accepted + entry.rejected
    BY <1>3, Zenon DEF ReceivableEntry
  <2>2. /\ t.order \in OrderTable /\ t.order[o] \in OrderRows
        /\ t.order[o].lines[entry.line] \in OrderLines
    BY <1>2, <2>1, ReceivedLines
  <2>3. p \in Positions /\ t.stock \in StockTable
    BY <1>2, <2>2 DEF OrderLines, StockOK
  <2>4. t.stock[p] \in StockRows
    BY <2>1, <2>3 DEF StockTable
  <2>5. /\ {"order", "stock"} \subseteq DOMAIN t
        /\ o \in DOMAIN t.order /\ "lines" \in DOMAIN t.order[o]
        /\ p \in DOMAIN t.stock /\ {"on_hand", "on_order"} \subseteq DOMAIN t.stock[p]
    BY <1>2, <2>2, <2>3, <2>4 DEF Fields, OrderTable, OrderRows, StockTable, StockRows
  <2>6. PICK x : x = p
    OBVIOUS
  <2>7. /\ IsRun(new)
        /\ new.ok = run.ok /\ DOMAIN new.tables = DOMAIN t
        /\ LineWritten(t.order, o, entry, new.tables.order)
        /\ StockWritten(t.stock, x, entry, new.tables.stock)
        /\ \A f \in DOMAIN t \ {"order", "stock"} : new.tables[f] = t[f]
    <3>1. x = t.order[o].lines[entry.line].position
      BY <2>6
    <3>2. x \in DOMAIN t.stock /\ {"on_hand", "on_order"} \subseteq DOMAIN t.stock[x]
      BY <2>5, <2>6
    <3>3. Accepted(o, run, entry)
      BY <1>3, Zenon DEF Accepted
    <3> HIDE DEF p
    <3>4. Writable(o, run, entry, x)
      BY <1>2, <2>5, <3>1, <3>2, <3>3, Zenon DEF Writable
    <3> QED BY <1>1, <3>4, EntryWrites
  <2>8. PICK od, st, nw, sn : /\ od = t.order /\ st = t.stock
                              /\ nw = new.tables.order /\ sn = new.tables.stock
    OBVIOUS
  <2>9. /\ OrderReceives(o, nw) /\ StockOK(nw, sn)
        /\ \E k \in DOMAIN nw[o].lines : Processed(nw[o].lines[k]) > 0
        /\ Balanced(od, st) => Balanced(nw, sn)
    <3>1. /\ OrderReceives(o, od) /\ StockOK(od, st)
          /\ entry.line \in DOMAIN od[o].lines
          /\ entry.accepted + entry.rejected <= Outstanding(od[o].lines[entry.line])
          /\ x = od[o].lines[entry.line].position /\ st[x] # None
          /\ st[x].on_order >= entry.accepted + entry.rejected
      BY <1>2, <2>1, <2>6, <2>8
    <3>2. LineWritten(od, o, entry, nw) /\ StockWritten(st, x, entry, sn)
      BY <2>7, <2>8
    <3>3. entry.accepted + entry.rejected > 0
      BY <2>1
    <3> HIDE DEF p, t
    <3>4. Acceptable(o, od, st, entry, x)
      BY <3>1, <3>3 DEF Acceptable
    <3> QED BY <3>1, <3>2, <3>4, EntryReceived
  <2> HIDE DEF p
  <2> QED BY <1>1, <1>2, <2>7, <2>8, <2>9 DEF ReceiptOK
<1>4. CASE ~(run.ok /\ ReceivableEntry(t, o, entry))
  <2>1. new = [run EXCEPT !.ok = FALSE]
    BY <1>1, <1>4, Zenon DEF ReceiveEntry
  <2>2. PICK b \in BOOLEAN : b = run.ok
    BY <1>2
  <2>3. run = [tables |-> t, ok |-> b]
    BY <1>2, <2>2, Zenon DEF IsRun
  <2>4. new = [tables |-> t, ok |-> FALSE]
    BY <2>1, <2>3
  <2>5. new.tables = t /\ new.ok = FALSE /\ IsRun(new)
    BY <2>4 DEF IsRun
  <2> HIDE DEF t
  <2> QED BY <1>1, <1>2, <2>5 DEF ReceiptOK
<1> QED BY <1>3, <1>4

(* What the loop guarantees holds after the last entry. *)
LEMMA ReceiptLoop ==
    ASSUME TabInv(ws), SessionOK, NEW o \in Orders, ws.order[o] # None, IsOpen(ws.order[o]),
           NEW receipt \in Receipts
    PROVE  ReceiptOK(o, ReceivedEntries(o, receipt), Len(receipt))
<1> DEFINE n == Len(receipt)
           E == [line : Nat, accepted : Nat, rejected : Nat]
<1>1. receipt \in Seq(E)
  BY ReceiptsAssumption
<1> HIDE DEF E
<1>2. n \in Nat /\ \A k \in 1..n : receipt[k] \in E
  BY <1>1
<1>3. PICK f : /\ ReceivedEntries(o, receipt) = f[n] /\ f[0] = ReceiptStart
               /\ \A k \in 1..n : f[k] = ReceiveEntry(o, f[k - 1], receipt[k])
  BY <1>2, ReceivedEntriesIs
<1>4. ReceiptOK(o, f[0], 0)
  <2>1. PICK b \in BOOLEAN : b = ~clash
    BY DEF SessionOK
  <2>2. PICK g : g = f[0]
    OBVIOUS
  <2>3. g = [tables |-> ws, ok |-> b]
    BY <1>3, <2>1, <2>2, Zenon DEF ReceiptStart
  <2>4. g.tables = ws /\ g.ok = b /\ IsRun(g)
    BY <2>3 DEF IsRun
  <2>5. OrderReceives(o, ws.order)
    <3>1. ws.order \in OrderTable /\ OrderOK(ws.order[o])
      BY OrderSeen
    <3> QED BY <3>1 DEF OrderReceives, OrderOK, LineReceives
  <2>6. Fields \subseteq DOMAIN ws /\ StockOK(ws.order, ws.stock)
    BY DEF TabInv
  <2>7. ReceiptOK(o, g, 0)
    BY <2>1, <2>4, <2>5, <2>6 DEF ReceiptOK
  <2> QED BY <2>2, <2>7
<1> DEFINE T == {k \in 0..n : ~ReceiptOK(o, f[k], k)}
<1>5. T = {}
  <2> SUFFICES ASSUME T # {} PROVE FALSE
    OBVIOUS
  <2>1. PICK k \in T : \A x \in T : k <= x
    <3>1. T \subseteq Nat
      OBVIOUS
    <3> HIDE DEF T
    <3> QED BY <3>1, LeastNumber
  <2>2. k \in 1..n /\ k - 1 \in 0..n /\ k - 1 \notin T /\ ~ReceiptOK(o, f[k], k)
    BY <1>2, <1>4, <2>1
  <2>3. ReceiptOK(o, f[k - 1], k - 1)
    BY <2>2
  <2>4. PICK run, entry, m : run = f[k - 1] /\ entry = receipt[k] /\ m = k - 1
    OBVIOUS
  <2>5. ReceiptOK(o, run, m) /\ entry \in E /\ m \in Nat /\ k \in Nat
    BY <1>2, <2>2, <2>3, <2>4
  <2> USE DEF E
  <2> HIDE DEF T, n
  <2>6. ReceiptOK(o, ReceiveEntry(o, run, entry), k)
    BY <2>5, ReceiptTurn
  <2>7. f[k] = ReceiveEntry(o, run, entry)
    BY <1>3, <2>2, <2>4
  <2> QED BY <2>2, <2>6, <2>7
<1>6. n \in 0..n
  BY <1>2
<1>7. ReceiptOK(o, f[n], n)
  BY <1>5, <1>6
<1> QED BY <1>3, <1>7

(* An order is saved with the status its receipt left it in. *)
StatusWritten(od, o, nw) ==
    nw = [od EXCEPT ![o] = [od[o] EXCEPT !.status = ReceivingStatus(od[o].lines)]]

(* The status post_receipt gives an order suits the lines it has received. *)
LEMMA ReceivedOrder ==
    ASSUME TabInv(ws), NEW o \in Orders, ws.order[o] # None, IsOpen(ws.order[o]),
           NEW od, OrderReceives(o, od),
           \E k \in DOMAIN od[o].lines : Processed(od[o].lines[k]) > 0,
           NEW st, StockOK(od, st),
           NEW nw, StatusWritten(od, o, nw)
    PROVE  /\ OrdersOK(nw) /\ SourcesOK(ws.req, nw)
           /\ DecisionsOK(ws.req, nw, ws.approval) /\ StockOK(nw, st)
           /\ SourcedBy(ws.req, nw, Counting(nw, ws.approval))
           /\ Balanced(od, st) => Balanced(nw, st)
<1> DEFINE lines == od[o].lines
           status == ReceivingStatus(lines)
           row == [od[o] EXCEPT !.status = status]
<1>1. /\ IsFiniteSet(Existing(od)) /\ od \in OrderTable
      /\ LineIds(od) = LineIds(ws.order) /\ OpenLines(od) = OpenLines(ws.order)
      /\ od[o] \in OrderRows /\ lines \in Seq(OrderLines)
      /\ \A k \in DOMAIN lines : lines[k] \in OrderLines
  BY ReceivedLines
<1>2. /\ OrderOK(ws.order[o]) /\ Decided(ws.order[o], ws.approval[o])
      /\ ws.order[o].status \in OpenForReceiving /\ IsFiniteSet(Existing(ws.order))
      /\ ws.order \in OrderTable
  BY OrderSeen DEF IsOpen, TabInv, OrdersOK
<1>3. status \in {"FULLY_RECEIVED", "PARTIALLY_RECEIVED"}
      /\ (status = "FULLY_RECEIVED" <=> FullyProcessed(lines))
  BY DEF ReceivingStatus
<1> HIDE DEF status
<1>4. row \in OrderRows /\ row.status = status /\ row.lines = lines
  BY <1>1, <1>3 DEF OrderRows, OrderStatuses
<1>5. row # None
  BY <1>4, NoneAssumption
<1>6. nw = [od EXCEPT ![o] = row]
  BY DEF status, StatusWritten
<1> HIDE DEF row
<1>7. nw \in OrderTable /\ nw[o] = row /\ \A x \in Orders \ {o} : nw[x] = ws.order[x] /\ nw[x] = od[x]
  BY <1>1, <1>4, <1>6 DEF OrderTable, OrderReceives
<1>8. /\ DOMAIN lines = DOMAIN ws.order[o].lines /\ Len(lines) = Len(ws.order[o].lines)
      /\ \A k \in DOMAIN lines : LineReceives(ws.order[o].lines[k], lines[k])
  BY DEF OrderReceives
<1>9. OrderOK(row)
  <2>1. \A k \in DOMAIN lines : Processed(lines[k]) <= lines[k].ordered
    BY <1>8 DEF LineReceives
  <2> QED BY <1>2, <1>3, <1>4, <1>8, <2>1 DEF OrderOK, Fresh
<1>10. Existing(nw) = Existing(ws.order)
  BY <1>5, <1>7 DEF Existing
<1>11. OrdersOK(nw)
  <2>1. \A x \in Existing(nw) : OrderOK(nw[x])
    <3>1. \A x \in Existing(ws.order) : OrderOK(ws.order[x])
      BY DEF TabInv, OrdersOK
    <3>2. Existing(ws.order) \subseteq Orders
      BY DEF Existing
    <3> QED BY <1>7, <1>9, <1>10, <3>1, <3>2
  <2> QED BY <1>2, <1>7, <1>10, <2>1 DEF OrdersOK
<1>12. SourcesOK(ws.req, nw)
  <2> SUFFICES ASSUME NEW x \in Existing(nw), NEW k \in DOMAIN nw[x].lines
               PROVE  SourceExists(ws.req, nw[x].lines[k].source)
    BY DEF SourcesOK
  <2>1. CASE x = o
    BY <1>4, <1>7, <1>8, <1>10, <2>1 DEF TabInv, SourcesOK, LineReceives
  <2>2. CASE x # o
    BY <1>7, <1>10, <2>2 DEF TabInv, SourcesOK, Existing
  <2> QED BY <2>1, <2>2
<1>13. Decided(row, ws.approval[o])
  BY <1>2, <1>3, <1>4, <1>5 DEF Decided, OpenForReceiving
<1>14. DecisionsOK(ws.req, nw, ws.approval)
  <2>1. ASSUME NEW x \in Orders
        PROVE  /\ Decided(nw[x], ws.approval[x])
               /\ nw[x] # None /\ nw[x].status = "DRAFT" => ws.approval[x] = None
    <3>1. CASE x = o
      BY <1>3, <1>4, <1>7, <1>13, <3>1
    <3>2. CASE x # o
      BY <1>7, <3>2 DEF TabInv, DecisionsOK
    <3> QED BY <3>1, <3>2
  <2> QED BY <2>1 DEF TabInv, DecisionsOK
<1>15. StockOK(nw, st)
  <2>1. ASSUME NEW x \in Orders
        PROVE  RowGrows(od[x], nw[x])
    <3>1. LinesOf(nw[x]) = LinesOf(od[x])
      <4>1. CASE x = o
        BY <1>4, <1>5, <1>7, <4>1 DEF LinesOf, OrderReceives
      <4>2. CASE x # o
        BY <1>7, <4>2 DEF LinesOf
      <4> QED BY <4>1, <4>2
    <3> QED BY <3>1 DEF RowGrows, LineStays
  <2>2. \A p \in Positions : Delivered(nw, p) = Delivered(od, p)
    BY <1>1, <1>7, <1>11, <2>1, DeliveredStays DEF OrdersOK
  <2> QED BY <2>2 DEF StockOK
<1>16. LineIds(nw) = LineIds(ws.order)
  BY <1>4, <1>5, <1>7, <1>8 DEF LineIds
<1>17. Counting(nw, ws.approval) = Counting(ws.order, ws.approval)
  <2>1. \A x \in Orders : Counts(nw[x], ws.approval[x]) <=> Counts(ws.order[x], ws.approval[x])
    BY <1>2, <1>3, <1>4, <1>5, <1>7 DEF Counts, OpenForReceiving
  <2>2. \A id \in LineIds(ws.order) : id[1] \in Orders
    BY DEF LineIds
  <2> QED BY <1>16, <2>1, <2>2 DEF Counting
<1>18. SourcedBy(ws.req, nw, Counting(nw, ws.approval))
  <2> DEFINE T == Counting(ws.order, ws.approval)
  <2>1. ASSUME NEW id \in T
        PROVE  /\ At(nw, id).source = At(ws.order, id).source
               /\ At(nw, id).ordered = At(ws.order, id).ordered
    <3>1. id[1] \in Orders /\ id[2] \in DOMAIN ws.order[id[1]].lines
      BY DEF Counting, LineIds
    <3>2. CASE id[1] = o
      <4>1. LineReceives(ws.order[o].lines[id[2]], lines[id[2]])
        BY <1>8, <3>1, <3>2
      <4>2. At(nw, id) = lines[id[2]] /\ At(ws.order, id) = ws.order[o].lines[id[2]]
        BY <1>4, <1>7, <3>2 DEF At
      <4> HIDE DEF lines
      <4> QED BY <4>1, <4>2 DEF LineReceives
    <3>3. CASE id[1] # o
      BY <1>7, <3>1, <3>3 DEF At
    <3> QED BY <3>2, <3>3
  <2>2. T \subseteq LineIds(ws.order)
    BY DEF Counting
  <2> HIDE DEF T
  <2>3. \A s : Asked(nw, T, s) = Asked(ws.order, T, s)
    BY <1>2, <2>1, <2>2, AskedStays
  <2> QED BY <1>17, <2>3 DEF TabInv, SourcedBy, T
<1>19. ASSUME Balanced(od, st)
       PROVE  Balanced(nw, st)
  <2> SUFFICES ASSUME NEW p \in Positions
               PROVE  Due(nw, OpenLines(nw), p) = Due(od, OpenLines(od), p)
    BY <1>19 DEF Balanced
  <2>1. LineIds(nw) = LineIds(od)
    BY <1>1, <1>16
  <2>2. \A x \in Orders \ {o} : IsOpen(nw[x]) <=> IsOpen(od[x])
    BY <1>7
  <2>3. OpenLines(nw) \subseteq OpenLines(od)
    BY <2>1, <2>2, <1>2 DEF OpenLines, LineIds, IsOpen, OrderReceives
  <2>4. ASSUME NEW id \in LineIds(od)
        PROVE  At(nw, id) = At(od, id)
    BY <1>4, <1>7 DEF At, LineIds
  <2>5. ASSUME NEW id \in OpenLines(od) \ OpenLines(nw)
        PROVE  Outstanding(At(od, id)) = 0
    <3>1. id \in LineIds(od) /\ id[1] \in Orders /\ id[2] \in DOMAIN od[id[1]].lines
      BY DEF OpenLines, LineIds
    <3>2. id[1] = o /\ ~IsOpen(row)
      BY <1>7, <2>1, <2>2, <3>1 DEF OpenLines
    <3>3. FullyProcessed(lines)
      BY <1>3, <1>4, <1>5, <3>2 DEF IsOpen, OpenForReceiving
    <3> QED BY <3>1, <3>2, <3>3 DEF FullyProcessed, At
  <2>6. OpenLines(od) \subseteq LineIds(od)
    BY DEF OpenLines
  <2>7. Due(nw, OpenLines(nw), p) = Due(od, OpenLines(nw), p)
    <3>1. \A id \in OpenLines(nw) : At(nw, id) = At(od, id)
      BY <2>3, <2>4, <2>6
    <3>2. OpenLines(nw) \subseteq LineIds(od)
      BY <2>3, <2>6
    <3> QED BY <1>1, <3>1, <3>2, DueStays
  <2>8. Due(od, OpenLines(nw), p) = Due(od, OpenLines(od), p)
    BY <1>1, <2>3, <2>5, <2>6, DueWithout
  <2> QED BY <2>7, <2>8
<1> QED BY <1>11, <1>12, <1>14, <1>15, <1>18, <1>19

(* post_receipt keeps the invariant. *)
LEMMA PostReceiptStep ==
    ASSUME IInv, NEW o \in Orders, NEW receipt \in Receipts, PostReceipt(o, receipt)
    PROVE  IInv' /\ SessionStep
<1>1. PICK run : run = ReceivedEntries(o, receipt)
  OBVIOUS
<1>2. /\ TabInv(ws) /\ SessionOK /\ deciding = None /\ UNCHANGED deciding
      /\ ws.order[o] # None /\ ws.order[o].status \in OpenForReceiving /\ receipt # <<>>
      /\ IF run.ok THEN Committed([run.tables EXCEPT !.order[o].status =
                                        ReceivingStatus(run.tables.order[o].lines)])
                   ELSE Rollback
  BY <1>1 DEF PostReceipt, Ready, IInv
<1>3. IsOpen(ws.order[o])
  BY <1>2 DEF IsOpen
<1>4. ReceiptOK(o, run, Len(receipt))
  BY <1>1, <1>2, <1>3, ReceiptLoop
<1>5. Len(receipt) # 0
  BY <1>2, ReceiptsAssumption
<1>6. CASE ~run.ok
  BY <1>2, <1>6, RollbackStep
<1>7. CASE run.ok
  <2> DEFINE t == run.tables
             nw == [t.order EXCEPT ![o] = [t.order[o] EXCEPT !.status =
                                               ReceivingStatus(t.order[o].lines)]]
  <2>1. PICK u : u = [t EXCEPT !.order[o].status = ReceivingStatus(t.order[o].lines)]
    OBVIOUS
  <2>2. u = [t EXCEPT !.order = nw]
    BY <2>1, Zenon
  <2>3. /\ ~clash /\ Fields \subseteq DOMAIN ws /\ DOMAIN t = DOMAIN ws
        /\ \A f \in DOMAIN ws \ {"order", "stock"} : t[f] = ws[f]
        /\ OrderReceives(o, t.order)
        /\ StockOK(t.order, t.stock)
        /\ \E k \in DOMAIN t.order[o].lines : Processed(t.order[o].lines[k]) > 0
        /\ Balanced(ws.order, ws.stock) => Balanced(t.order, t.stock)
    BY <1>4, <1>5, <1>7 DEF ReceiptOK
  <2>4. PICK od, st, new : od = t.order /\ st = t.stock /\ new = nw
    OBVIOUS
  <2>5. /\ OrdersOK(new) /\ SourcesOK(ws.req, new)
        /\ DecisionsOK(ws.req, new, ws.approval) /\ StockOK(new, st)
        /\ SourcedBy(ws.req, new, Counting(new, ws.approval))
        /\ Balanced(od, st) => Balanced(new, st)
    <3>1. StatusWritten(od, o, new)
      BY <2>4 DEF StatusWritten
    <3> HIDE DEF nw
    <3> QED BY <1>2, <1>3, <2>3, <2>4, <3>1, ReceivedOrder
  <2> HIDE DEF nw
  <2>6. /\ u.order = new /\ u.stock = st /\ DOMAIN u = DOMAIN ws
        /\ \A f \in DOMAIN ws \ {"order", "stock"} : u[f] = ws[f]
        /\ u.req = ws.req /\ u.approval = ws.approval /\ u.master = ws.master
    BY <2>2, <2>3, <2>4 DEF Fields
  <2>7. TabInv(u)
    BY <1>2, <2>3, <2>5, <2>6 DEF TabInv
  <2>8. Moved(ws, u)
    BY <2>3, <2>4, <2>5, <2>6, <2>7 DEF Moved, TablesStay, ReqsStay, Fields
  <2>9. CommitOrRollback(u)
    BY <1>2, <1>7, <2>1, <2>3, Zenon DEF CommitOrRollback
  <2> QED BY <1>2, <2>8, <2>9, SaveStep
<1> QED BY <1>6, <1>7

-----------------------------------------------------------------------------
(* From the first state on *)

(* Nothing is stored, nothing is on hand and nothing is due. *)
LEMMA EmptyTablesOK ==
    ASSUME NEW t, Fields \subseteq DOMAIN t, t.master \in MasterStates,
           t.req = [q \in Reqs |-> None], t.order = [o \in Orders |-> None],
           t.approval = [e \in Entities |-> None], t.stock = [p \in Positions |-> None]
    PROVE  TabInv(t) /\ Balanced(t.order, t.stock)
<1> DEFINE od == t.order
<1>1. Existing(od) = {} /\ LineIds(od) = {} /\ OpenLines(od) = {}
  BY DEF Existing, LineIds, OpenLines
<1>2. t.req \in ReqTable /\ od \in OrderTable /\ t.approval \in ApprovalTable
      /\ t.stock \in StockTable
  BY DEF ReqTable, OrderTable, ApprovalTable, StockTable
<1>3. \A p : Delivered(od, p) = 0 /\ Due(od, OpenLines(od), p) = 0
  <2> TAKE p
  <2> DEFINE f == [id \in LineIds(od) |-> IF At(od, id).position = p THEN At(od, id).received ELSE 0]
             g == [id \in OpenLines(od) |-> IF At(od, id).position = p
                                            THEN Outstanding(At(od, id)) ELSE 0]
  <2>1. SumFunctionOnSet(f, {}) = 0 /\ SumFunctionOnSet(g, {}) = 0
    BY SumEmpty
  <2>2. Delivered(od, p) = SumFunctionOnSet(f, LineIds(od))
        /\ Due(od, OpenLines(od), p) = SumFunctionOnSet(g, OpenLines(od))
    BY DEF Delivered, Due
  <2> HIDE DEF f, g
  <2> QED BY <1>1, <2>1, <2>2
<1>4. IsFiniteSet(Existing(od))
  BY <1>1, FS_EmptySet
<1>5. OrdersOK(od) /\ SourcesOK(t.req, od)
  BY <1>1, <1>2, <1>4 DEF OrdersOK, SourcesOK
<1>6. DecisionsOK(t.req, od, t.approval)
  BY <1>2, NoneAssumption DEF DecisionsOK, Decided, Entities
<1>7. StockOK(od, t.stock) /\ Balanced(od, t.stock)
  BY <1>2, <1>3 DEF StockOK, OnHand, Balanced, OnOrderAt
<1>8. SourcedBy(t.req, od, Counting(od, t.approval))
  BY DEF SourcedBy
<1> QED BY <1>2, <1>5, <1>6, <1>7, <1>8 DEF TabInv

(* A fresh session on good tables satisfies the invariant. *)
LEMMA OpenedOK ==
    ASSUME NEW t, TabInv(t), SessionOpen(t), deciding = None
    PROVE  IInv /\ db = t /\ ws = t
BY DEF SessionOpen, IInv, SessionOK

(* The empty database satisfies the invariant. *)
LEMMA InitOK ==
    ASSUME Init
    PROVE  IInv /\ Balanced(db.order, db.stock) /\ Balanced(ws.order, ws.stock)
<1>1. PICK m \in MasterStates : SessionOpen(EmptyTables(m)) /\ deciding = None
  BY DEF Init
<1>2. PICK t : t = EmptyTables(m)
  OBVIOUS
<1>3. TabInv(t) /\ Balanced(t.order, t.stock)
  <2>1. /\ Fields \subseteq DOMAIN t /\ t.master = m
        /\ t.req = [q \in Reqs |-> None] /\ t.order = [o \in Orders |-> None]
        /\ t.approval = [e \in Entities |-> None] /\ t.stock = [p \in Positions |-> None]
    BY <1>2 DEF EmptyTables, Fields
  <2> QED BY <2>1, EmptyTablesOK
<1> QED BY <1>1, <1>2, <1>3, OpenedOK

(* Every operation on a requisition keeps the invariant. *)
LEMMA RequisitionNextStep ==
    ASSUME IInv, RequisitionNext
    PROVE  IInv' /\ SessionStep
<1>1. PICK q \in Reqs :
        \/ \E room \in StoreroomIds, reference \in References \cup {None} :
              \/ CreateRequisition(q, room, reference)
              \/ UpdateRequisition(q, room, reference)
        \/ \E i \in Items, n \in Quantities : AddRequisitionLine(q, i, n)
        \/ SubmitRequisition(q)
        \/ CancelRequisition(q)
        \/ ApproveRequisition(q)
        \/ RejectRequisition(q)
  BY DEF RequisitionNext
<1>2. ASSUME NEW room, NEW reference \in References \cup {None},
             CreateRequisition(q, room, reference) \/ UpdateRequisition(q, room, reference)
      PROVE  IInv' /\ SessionStep
  BY <1>2, CreateRequisitionStep, UpdateRequisitionStep
<1>3. ASSUME NEW i \in Items, NEW n \in Quantities, AddRequisitionLine(q, i, n)
      PROVE  IInv' /\ SessionStep
  BY <1>3, AddRequisitionLineStep, BoundsAssumption
<1>4. CASE SubmitRequisition(q) \/ CancelRequisition(q)
  BY <1>4, SubmitRequisitionStep, CancelRequisitionStep
<1>5. CASE ApproveRequisition(q)
  <2>1. "OPEN" \in ReqLineStatuses
    BY DEF ReqLineStatuses
  <2> QED BY <1>5, <2>1, DecideRequisitionStep DEF ApproveRequisition
<1>6. CASE RejectRequisition(q)
  <2>1. "REJECTED" \in ReqLineStatuses
    BY DEF ReqLineStatuses
  <2> QED BY <1>6, <2>1, DecideRequisitionStep DEF RejectRequisition
<1> QED BY <1>1, <1>2, <1>3, <1>4, <1>5, <1>6

(* Every operation on a purchase order keeps the invariant. *)
LEMMA OrderNextStep ==
    ASSUME IInv, OrderNext
    PROVE  IInv' /\ SessionStep
<1>1. PICK o \in Orders :
        \/ \E source \in Reqs \cup {None} :
              CreatePurchaseOrder(o, source) \/ UpdatePurchaseOrder(o, source)
        \/ \E p \in Positions, n \in Quantities, source \in Sources \cup {None} :
              AddPurchaseOrderLine(o, p, n, source)
        \/ SubmitPurchaseOrder(o)
        \/ CancelPurchaseOrder(o)
        \/ SendPurchaseOrder(o)
        \/ ClosePurchaseOrder(o)
        \/ ApprovePurchaseOrder(o)
        \/ RejectPurchaseOrder(o)
        \/ \E receipt \in Receipts : PostReceipt(o, receipt)
  BY DEF OrderNext
<1>2. ASSUME NEW source \in Reqs \cup {None},
             CreatePurchaseOrder(o, source) \/ UpdatePurchaseOrder(o, source)
      PROVE  IInv' /\ SessionStep
  BY <1>2, CreatePurchaseOrderStep, UpdatePurchaseOrderStep
<1>3. ASSUME NEW p \in Positions, NEW n \in Quantities, NEW source \in Sources \cup {None},
             AddPurchaseOrderLine(o, p, n, source)
      PROVE  IInv' /\ SessionStep
  BY <1>3, AddPurchaseOrderLineStep
<1>4. CASE SubmitPurchaseOrder(o) \/ CancelPurchaseOrder(o)
  BY <1>4, SubmitPurchaseOrderStep, CancelPurchaseOrderStep
<1>5. CASE SendPurchaseOrder(o) \/ ClosePurchaseOrder(o)
  BY <1>5, SendPurchaseOrderStep, ClosePurchaseOrderStep
<1>6. CASE ApprovePurchaseOrder(o) \/ RejectPurchaseOrder(o)
  BY <1>6, ApprovePurchaseOrderStep, RejectPurchaseOrderStep
<1>7. ASSUME NEW receipt \in Receipts, PostReceipt(o, receipt)
      PROVE  IInv' /\ SessionStep
  BY <1>7, PostReceiptStep
<1> QED BY <1>1, <1>2, <1>3, <1>4, <1>5, <1>6, <1>7

(* Every step keeps the invariant. *)
LEMMA NextStep ==
    ASSUME IInv, Next
    PROVE  IInv' /\ SessionStep
<1>1. ASSUME NEW m \in MasterStates, UpdateMaster(m)
      PROVE  IInv' /\ SessionStep
  BY <1>1, UpdateMasterStep
<1> QED BY <1>1, RequisitionNextStep, OrderNextStep, FinishDecisionStep, RestartStep DEF Next

(* A stuttering step keeps the invariant. *)
LEMMA StutterStep ==
    ASSUME IInv, UNCHANGED vars
    PROVE  IInv' /\ SessionStep
<1>1. db' = db /\ ws' = ws /\ unflushed' = unflushed /\ clash' = clash /\ session' = session
      /\ deciding' = deciding
  BY DEF vars, sessionVars
<1>2. TabInv(db') /\ TabInv(ws')
  BY <1>1 DEF IInv
<1>3. SessionOK'
  BY <1>1 DEF IInv, SessionOK
<1>4. Moved(ws, ws)
  BY NothingMoved DEF IInv
<1>5. ws' = db \/ Moved(ws, ws')
  BY <1>1, <1>4
<1> QED BY <1>1, <1>2, <1>3, <1>5 DEF IInv, SessionStep

(* Every step and every stutter keeps the invariant. *)
LEMMA StepOK ==
    ASSUME IInv, [Next]_vars
    PROVE  IInv' /\ SessionStep
BY NextStep, StutterStep

-----------------------------------------------------------------------------
(* What the invariant says of the properties of Procurement *)

(* The invariant makes statuses suit the lines. *)
LEMMA ConsistentRows ==
    ASSUME IInv
    PROVE  RowsConsistent
<1>1. ASSUME NEW t, TabInv(t)
      PROVE  TablesOK(t)
  BY <1>1 DEF TabInv, TablesOK, ReqTable, OrdersOK, OrderTable, DecisionsOK, ApprovalTable,
              StockOK, StockTable
<1>2. TypeOK
  BY <1>1 DEF IInv, SessionOK, TypeOK
<1>3. OrderMatchesLines
  <2> SUFFICES ASSUME NEW o \in Orders, db.order[o] # None
               PROVE  LET lines == db.order[o].lines
                      IN  /\ \A k \in DOMAIN lines :
                               lines[k].received + lines[k].rejected <= lines[k].ordered
                          /\ db.order[o].status \in {"FULLY_RECEIVED", "CLOSED"} <=> FullyProcessed(lines)
                          /\ db.order[o].status = "PARTIALLY_RECEIVED" =>
                               \E k \in DOMAIN lines : lines[k].received + lines[k].rejected > 0
    BY DEF OrderMatchesLines
  <2>1. OrderOK(db.order[o])
    BY OrderSeen DEF IInv
  <2> QED BY <2>1 DEF OrderOK, Processed
<1> QED BY <1>2, <1>3 DEF RowsConsistent

(* The invariant makes the stock on hand what the receipts accepted. *)
LEMMA AcceptedOnHand ==
    ASSUME IInv
    PROVE  OnHandIsAccepted
<1> SUFFICES ASSUME NEW p \in Positions
             PROVE  OnHand(db.stock[p])
                      = SumFunction([id \in {id \in OrderLineIds(db) : Line(db, id).position = p} |->
                                         Line(db, id).received])
  BY DEF OnHandIsAccepted, OnHand
<1>1. PICK od : od = db.order
  OBVIOUS
<1>2. od \in OrderTable /\ IsFiniteSet(Existing(od)) /\ OnHand(db.stock[p]) = Delivered(od, p)
  BY <1>1 DEF IInv, TabInv, OrdersOK, StockOK
<1>3. SumFunction([id \in {x \in LineIds(od) : At(od, x).position = p} |-> At(od, id).received])
        = Delivered(od, p)
  BY <1>2, SumOfReceived
<1>4. [id \in {x \in LineIds(od) : At(od, x).position = p} |-> At(od, id).received]
        = [id \in {id \in OrderLineIds(db) : Line(db, id).position = p} |-> Line(db, id).received]
  BY <1>1, Zenon DEF OrderLineIds, LineIds, Line, At
<1> QED BY <1>2, <1>3, <1>4

(* The invariant makes decided requests and their entities agree. *)
LEMMA AppliedDecisions ==
    ASSUME IInv
    PROVE  DecisionApplied
<1> SUFFICES ASSUME NEW e \in Entities
             PROVE  LET row == IF e \in Reqs THEN db.req[e] ELSE db.order[e]
                    IN  /\ db.approval[e] = "REJECTED" => row.status = "REJECTED"
                        /\ db.approval[e] = "APPROVED" =>
                             row.status \notin {"DRAFT", "SUBMITTED", "UNDER_REVIEW",
                                                "REJECTED", "CANCELLED"}
  BY DEF DecisionApplied
<1>1. DecisionsOK(db.req, db.order, db.approval)
  BY DEF IInv, TabInv
<1>2. e \in Reqs \/ (e \notin Reqs /\ e \in Orders)
  BY DEF Entities
<1> QED BY <1>1, <1>2 DEF DecisionsOK, Decided

(* The invariant keeps a requisition line from being ordered twice over. *)
LEMMA NothingOversourced ==
    ASSUME IInv
    PROVE  NotOversourced
<1> SUFFICES ASSUME NEW q \in Reqs, db.req[q] # None, NEW k \in DOMAIN db.req[q].lines
             PROVE  LET line == db.req[q].lines[k]
                        by   == {id \in OrderLineIds(db) :
                                    /\ Line(db, id).source = <<q, k>>
                                    /\ db.approval[id[1]] # None
                                    /\ db.order[id[1]].status \notin {"SUBMITTED", "REJECTED"}}
                    IN  /\ line.sourced <= line.requested
                        /\ line.sourced <= SumFunction([id \in by |-> Line(db, id).ordered])
  BY DEF NotOversourced
<1>1. PICK od, s, T : od = db.order /\ s = <<q, k>> /\ T = Counting(db.order, db.approval)
  OBVIOUS
<1>2. /\ od \in OrderTable /\ IsFiniteSet(Existing(od)) /\ T \subseteq LineIds(od)
      /\ SourcedBy(db.req, od, T)
  BY <1>1 DEF IInv, TabInv, OrdersOK, Counting
<1>3. db.req[q].lines[k].sourced <= db.req[q].lines[k].requested
      /\ db.req[q].lines[k].sourced <= Asked(od, T, s)
  BY <1>1, <1>2 DEF SourcedBy
<1>4. SumFunction([id \in {x \in T : At(od, x).source = s} |-> At(od, id).ordered])
        = Asked(od, T, s)
  BY <1>2, SumOfOrdered
<1>5. {x \in T : At(od, x).source = s}
        = {id \in OrderLineIds(db) : /\ Line(db, id).source = <<q, k>>
                                     /\ db.approval[id[1]] # None
                                     /\ db.order[id[1]].status \notin {"SUBMITTED", "REJECTED"}}
  BY <1>1 DEF OrderLineIds, LineIds, Line, At, Counting, Counts
<1>6. \A id : At(od, id) = Line(db, id)
  BY <1>1 DEF At, Line
<1>7. [id \in {x \in T : At(od, x).source = s} |-> At(od, id).ordered]
        = [id \in {id \in OrderLineIds(db) :
                      /\ Line(db, id).source = <<q, k>>
                      /\ db.approval[id[1]] # None
                      /\ db.order[id[1]].status \notin {"SUBMITTED", "REJECTED"}} |-> Line(db, id).ordered]
  BY <1>5, <1>6, Zenon
<1> QED BY <1>3, <1>4, <1>7

(* With the balance, what is on order is what open orders still miss. *)
LEMMA DueIsOnOrder ==
    ASSUME IInv, Balanced(db.order, db.stock)
    PROVE  OnOrderMatches
<1> SUFFICES ASSUME NEW p \in Positions
             PROVE  OnOrderAt(db.stock[p])
                      = SumFunction([id \in {id \in OrderLineIds(db) :
                                                /\ db.order[id[1]].status \in OpenForReceiving
                                                /\ Line(db, id).position = p} |->
                                         Outstanding(Line(db, id))])
  BY DEF OnOrderMatches, OnOrderAt
<1>1. PICK od, T : od = db.order /\ T = OpenLines(db.order)
  OBVIOUS
<1>2. /\ od \in OrderTable /\ IsFiniteSet(Existing(od)) /\ T \subseteq LineIds(od)
      /\ OnOrderAt(db.stock[p]) = Due(od, T, p)
  BY <1>1 DEF IInv, TabInv, OrdersOK, OpenLines, Balanced
<1>3. SumFunction([id \in {x \in T : At(od, x).position = p} |-> Outstanding(At(od, id))])
        = Due(od, T, p)
  BY <1>2, SumOfDue
<1>4. {x \in T : At(od, x).position = p}
        = {id \in OrderLineIds(db) : /\ db.order[id[1]].status \in OpenForReceiving
                                     /\ Line(db, id).position = p}
  BY <1>1 DEF OrderLineIds, LineIds, Line, At, OpenLines, IsOpen
<1>5. \A id : At(od, id) = Line(db, id)
  BY <1>1 DEF At, Line
<1>6. [id \in {x \in T : At(od, x).position = p} |-> Outstanding(At(od, id))]
        = [id \in {id \in OrderLineIds(db) :
                      /\ db.order[id[1]].status \in OpenForReceiving
                      /\ Line(db, id).position = p} |-> Outstanding(Line(db, id))]
  BY <1>4, <1>5, Zenon
<1> QED BY <1>2, <1>3, <1>6

-----------------------------------------------------------------------------
(* The theorems about Procurement *)

(* The invariant: both sets of tables are well formed, orders agree with their lines and
   requisitions with the orders that source them, decisions with statuses and stock on
   hand with what was received (ProcurementService, PurchasingService, ApprovalService). *)
THEOREM ProcurementInvariant == Spec => []IInv
<1>1. Init => IInv
  BY InitOK
<1>2. IInv /\ [Next]_vars => IInv'
  BY StepOK
<1> QED BY <1>1, <1>2, PTL DEF Spec

(* Rows keep the shapes of the ORM models, on-order and on-hand quantities never become
   negative, and the status of an order tells what its lines received (post_receipt,
   close_purchase_order). *)
THEOREM ProcurementRowsConsistent == Spec => []RowsConsistent
BY ProcurementInvariant, ConsistentRows, PTL

(* The stock on hand at a position is what receipts accepted there, whatever receipt fails
   on whatever line (post_receipt rolls the whole receipt back). *)
THEOREM StockIsWhatWasAccepted == Spec => []OnHandIsAccepted
BY ProcurementInvariant, AcceptedOnHand, PTL

(* A request marked approved or rejected was applied, though the handler and the mark are
   two commits (ApprovalService.approve_and_apply, reject). *)
THEOREM DecisionsAreApplied == Spec => []DecisionApplied
BY ProcurementInvariant, AppliedDecisions, PTL

(* No requisition line is sourced beyond what it requests, nor by orders that were not
   approved, however many orders were drafted against it
   (apply_submitted_purchase_order_approval). *)
THEOREM RequisitionsAreNotOversourced == Spec => []NotOversourced
BY ProcurementInvariant, NothingOversourced, PTL

(* The invariant of the balance: in both sets of tables on order is what is due. *)
BalanceInv == IInv /\ Balanced(db.order, db.stock) /\ Balanced(ws.order, ws.stock)

(* Only a step that leaves writes open in the session disturbs the balance. *)
LEMMA BalanceStep ==
    ASSUME BalanceInv, [Next]_vars
    PROVE  BalanceInv' \/ LeftHalfway
<1>1. IInv' /\ SessionStep
  BY StepOK DEF BalanceInv
<1>2. CASE ~LeftHalfway
  <2>1. Balanced(ws'.order, ws'.stock)
    BY <1>1, <1>2 DEF BalanceInv, SessionStep, Moved
  <2>2. Balanced(db'.order, db'.stock)
    BY <1>1, <2>1 DEF BalanceInv, SessionStep
  <2>3. (Balanced(db.order, db.stock) /\ Balanced(ws.order, ws.stock))'
    BY <2>1, <2>2
  <2> QED BY <1>1, <2>3 DEF BalanceInv
<1> QED BY <1>2

(* As long as no failed operation leaves writes open in the session, the quantity a
   position shows as on order is exactly what its open orders still have to deliver,
   whatever the orders source, however many of them share a requisition line and whichever
   receipts fail: only the writes of a half done approval that a later commit makes
   permanent can part the two (apply_submitted_purchase_order_approval,
   _adjust_on_order_balance, post_receipt). *)
THEOREM OnOrderIsOutstanding == Spec /\ [](ws = db) => []OnOrderMatches
<1>1. Init => BalanceInv
  BY InitOK DEF BalanceInv
<1>2. BalanceInv /\ [Next]_vars /\ ws = db /\ (ws = db)' => BalanceInv'
  BY BalanceStep DEF LeftHalfway
<1>3. BalanceInv => OnOrderMatches
  BY DueIsOnOrder DEF BalanceInv
<1> QED BY <1>1, <1>2, <1>3, PTL DEF Spec

(* While orders source no requisition no approval can stop half way, and on order is what
   open orders still have to deliver in every behaviour (_adjust_on_order_balance). *)
THEOREM OnOrderWithoutSourcing ==
    ASSUME Reqs = {}
    PROVE  Spec => []OnOrderMatches
<1>1. Init => BalanceInv
  BY InitOK DEF BalanceInv
<1>2. BalanceInv /\ [Next]_vars => BalanceInv'
  BY BalanceStep DEF LeftHalfway
<1>3. BalanceInv => OnOrderMatches
  BY DueIsOnOrder DEF BalanceInv
<1> QED BY <1>1, <1>2, <1>3, PTL DEF Spec

-----------------------------------------------------------------------------
(* MaterialDemand: the invariant of the requirements *)

NeedTable == [Needs -> NeedRows \cup {None}]

(* The requisition exists and asks for something. *)
Made(rq, q) == rq[q] # None /\ DOMAIN rq[q].lines # {}

(* No requirement but n counts on the requisition. *)
SoleLink(need, n, q) == \A m \in Needs \ {n} : need[m] # None => need[m].linked # q

NeedOK(row, rq) == /\ StatusTold(row) /\ row.issued <= row.required
                   /\ row.linked # None => row.position # None /\ Made(rq, row.linked)

NeedsOK(t) == /\ "need" \in DOMAIN t /\ t.need \in NeedTable
              /\ \A n \in Needs : t.need[n] # None =>
                    /\ NeedOK(t.need[n], t.req)
                    /\ t.need[n].linked # None => SoleLink(t.need, n, t.need[n].linked)

Escalations == [need : Needs, req : Reqs, at : {"created", "lined", "linking"},
                submit : BOOLEAN, missing : Nat]

(* Between two commits of a call no other service ran: no row is doubled, the requirement
   and its requisition are as the call left them, and nothing is linked to it yet. *)
EscalationOK ==
    escalating # None =>
        /\ ~clash
        /\ escalating \in Escalations
        /\ ws.need[escalating.need] # None
        /\ ws.need[escalating.need].position # None
        /\ ws.req[escalating.req] # None
        /\ SoleLink(ws.need, escalating.need, escalating.req)
        /\ escalating.at \in {"lined", "linking"} => DOMAIN ws.req[escalating.req].lines # {}

DemandIInv == IInv /\ NeedsOK(db) /\ NeedsOK(ws) /\ EscalationOK

(* Requirements whose table nobody wrote are as well off as before. *)
LEMMA NeedsCarried ==
    ASSUME NEW t, NEW u, NeedsOK(t), TablesStay(t, u)
    PROVE  NeedsOK(u) /\ u.need = t.need
<1>1. "need" \in DOMAIN t \ Fields
  BY DEF NeedsOK, Fields
<1>2. u.need = t.need /\ "need" \in DOMAIN u /\ ReqsStay(t.req, u.req)
  BY <1>1 DEF TablesStay
<1>3. ASSUME NEW n \in Needs, t.need[n] # None
      PROVE  NeedOK(t.need[n], u.req)
  <2>1. NeedOK(t.need[n], t.req) /\ t.need[n].linked \in Reqs \cup {None}
    BY <1>3 DEF NeedsOK, NeedTable, NeedRows
  <2> QED BY <1>2, <2>1 DEF NeedOK, Made, ReqsStay
<1> QED BY <1>2, <1>3 DEF NeedsOK

(* A step of the services behind the requirements leaves the requirements in order. *)
LEMMA SessionCarries ==
    ASSUME NeedsOK(db), NeedsOK(ws), SessionStep
    PROVE  NeedsOK(db') /\ NeedsOK(ws')
<1>1. PICK d, w, e, v : d = db /\ w = ws /\ e = db' /\ v = ws'
  OBVIOUS
<1>2. (e = d \/ e = v) /\ (v = d \/ TablesStay(w, v)) /\ NeedsOK(d) /\ NeedsOK(w)
  BY <1>1 DEF SessionStep, Moved, LeftHalfway
<1>3. NeedsOK(v)
  BY <1>2, NeedsCarried
<1> QED BY <1>1, <1>2, <1>3

(* A row of the requirements, or the state of their orders, is saved. *)
LEMMA NeedSaved ==
    ASSUME DemandIInv, NEW u, DOMAIN u = DOMAIN ws, \A f \in Fields : u[f] = ws[f], NeedsOK(u),
           CommitOrRollback(u), UNCHANGED deciding, deciding = None
    PROVE  IInv' /\ NeedsOK(db)' /\ NeedsOK(ws)'
<1>1. TabInv(u)
  BY DEF DemandIInv, IInv, TabInv, Fields
<1>2. CASE ~clash
  <2>1. db' = u /\ ws' = u /\ unflushed' = {} /\ clash' = FALSE /\ session' = session
    BY <1>2 DEF CommitOrRollback, Committed
  <2>2. TabInv(db') /\ TabInv(ws') /\ NeedsOK(db') /\ NeedsOK(ws')
    BY <1>1, <2>1
  <2>3. SessionOK'
    BY <2>1 DEF SessionOK, IInv, DemandIInv
  <2> QED BY <2>2, <2>3 DEF IInv
<1>3. CASE clash
  <2>1. db' = db /\ ws' = db /\ unflushed' = {} /\ clash' = FALSE /\ session' = session
    BY <1>3 DEF CommitOrRollback, Rollback, Undone
  <2>2. TabInv(db') /\ TabInv(ws') /\ NeedsOK(db') /\ NeedsOK(ws')
    BY <2>1 DEF DemandIInv, IInv
  <2>3. SessionOK'
    BY <2>1 DEF SessionOK, IInv, DemandIInv
  <2> QED BY <2>2, <2>3 DEF IInv
<1> QED BY <1>2, <1>3

(* Saving one requirement keeps the invariant of the rest. *)
LEMMA NeedRowSaved ==
    ASSUME DemandIInv, NEW n \in Needs, NEW row \in NeedRows, NeedOK(row, ws.req),
           row.linked # None => SoleLink(ws.need, n, row.linked),
           SaveNeed(n, row), deciding = None
    PROVE  IInv' /\ NeedsOK(db)' /\ NeedsOK(ws)'
<1>1. PICK need : need = [ws.need EXCEPT ![n] = row]
  OBVIOUS
<1>2. PICK u : u = [ws EXCEPT !.need = need]
  OBVIOUS
<1>3. CommitOrRollback(u) /\ UNCHANGED deciding
  BY <1>1, <1>2 DEF SaveNeed
<1>4. "need" \in DOMAIN ws /\ ws.need \in NeedTable
      /\ \A x \in Needs : ws.need[x] # None =>
            /\ NeedOK(ws.need[x], ws.req)
            /\ ws.need[x].linked # None => SoleLink(ws.need, x, ws.need[x].linked)
  BY DEF DemandIInv, NeedsOK
<1>5. u.need = need /\ DOMAIN u = DOMAIN ws /\ \A f \in Fields : u[f] = ws[f]
  BY <1>2, <1>4 DEF Fields
<1>6. u.req = ws.req
  BY <1>5 DEF Fields
<1>7. need \in NeedTable /\ need[n] = row /\ \A x \in Needs \ {n} : need[x] = ws.need[x]
  BY <1>1, <1>4 DEF NeedTable
<1>8. ASSUME NEW x \in Needs, need[x] # None
      PROVE  /\ NeedOK(need[x], ws.req)
             /\ need[x].linked # None => SoleLink(need, x, need[x].linked)
  <2>1. NeedOK(need[x], ws.req)
    BY <1>4, <1>7, <1>8
  <2>2. ASSUME need[x].linked # None, NEW m \in Needs \ {x}, need[m] # None
        PROVE  need[m].linked # need[x].linked
    BY <1>4, <1>7, <1>8, <2>2 DEF SoleLink
  <2> QED BY <2>1, <2>2 DEF SoleLink
<1>9. NeedsOK(u)
  BY <1>4, <1>5, <1>6, <1>7, <1>8 DEF NeedsOK
<1> QED BY <1>3, <1>5, <1>9, NeedSaved

-----------------------------------------------------------------------------
(* The statuses of a requirement *)

(* The base status of a requirement is the one its quantities call for. *)
LEMMA BaseTold ==
    ASSUME NEW row \in NeedRows, row.issued <= row.required,
           row.linked # None => row.position # None
    PROVE  /\ BaseStatus(row) \in ProcurementStatuses
           /\ StatusTold([row EXCEPT !.status = BaseStatus(row)])
           /\ WithBaseStatus(row) \in NeedRows
<1>1. row.issued \in Nat /\ row.required \in Nat \ {0}
  BY BoundsAssumption DEF NeedRows
<1>2. BaseStatus(row) \in ProcurementStatuses
  BY DEF BaseStatus, ProcurementStatuses
<1>3. PICK s : s = BaseStatus(row)
  OBVIOUS
<1> DEFINE next == [row EXCEPT !.status = s]
<1>4. /\ next \in NeedRows /\ next.status = s /\ next.position = row.position
      /\ next.issued = row.issued /\ next.required = row.required /\ next.linked = row.linked
  BY <1>2, <1>3 DEF NeedRows
<1> HIDE DEF next
<1>5. CASE row.position = None
  <2>1. s = "NON_STOCK"
    BY <1>3, <1>5 DEF BaseStatus
  <2> QED BY <1>2, <1>3, <1>4, <1>5, <2>1 DEF StatusTold, WithBaseStatus, next
<1>6. CASE row.position # None /\ row.issued >= row.required
  <2>1. s = "FULLY_ISSUED"
    <3>1. row.issued \notin 1..row.required - 1
      BY <1>1, <1>6
    <3> QED BY <1>3, <1>6, <3>1 DEF BaseStatus
  <2>2. row.issued = row.required
    BY <1>1, <1>6
  <2> QED BY <1>2, <1>3, <1>4, <1>6, <2>1, <2>2 DEF StatusTold, WithBaseStatus, next
<1>7. CASE row.position # None /\ row.issued \in 1..row.required - 1
  <2>1. s = "PARTIALLY_ISSUED"
    <3>1. ~(row.issued >= row.required)
      BY <1>1, <1>7
    <3> QED BY <1>3, <1>7, <3>1 DEF BaseStatus
  <2> QED BY <1>2, <1>3, <1>4, <1>7, <2>1 DEF StatusTold, WithBaseStatus, next
<1>8. CASE row.position # None /\ ~(row.issued >= row.required)
             /\ row.issued \notin 1..row.required - 1
  <2>1. s = IF row.linked # None THEN "REQUISITIONED" ELSE "PLANNED"
    BY <1>3, <1>8 DEF BaseStatus
  <2>2. row.issued = 0
    BY <1>1, <1>8
  <2> QED BY <1>2, <1>3, <1>4, <1>8, <2>1, <2>2 DEF StatusTold, WithBaseStatus, next
<1> QED BY <1>5, <1>6, <1>7, <1>8

(* create_requirement keeps the invariant. *)
LEMMA CreateRequirementStep ==
    ASSUME DemandIInv, NEW n \in Needs, NEW position \in Positions \cup {None},
           NEW required \in Quantities, NEW issued \in Quantities \cup {0},
           CreateRequirement(n, position, required, issued)
    PROVE  DemandIInv'
<1>1. PICK row : row = [position |-> position, required |-> required, issued |-> issued,
                        status |-> "PLANNED", linked |-> None]
  OBVIOUS
<1>2. issued \in Nat
  BY BoundsAssumption
<1>3. row \in NeedRows /\ row.issued <= row.required /\ row.linked = None
  BY <1>1, <1>2 DEF NeedRows, ProcurementStatuses, CreateRequirement
<1>4. /\ StatusTold([row EXCEPT !.status = BaseStatus(row)]) /\ WithBaseStatus(row) \in NeedRows
  BY <1>3, BaseTold
<1>5. PICK next : next = WithBaseStatus(row)
  OBVIOUS
<1>6. next.issued = row.issued /\ next.required = row.required /\ next.linked = row.linked
  BY <1>3, <1>5 DEF WithBaseStatus, NeedRows
<1>7. next \in NeedRows /\ NeedOK(next, ws.req) /\ next.linked = None
  BY <1>3, <1>4, <1>5, <1>6 DEF NeedOK, WithBaseStatus
<1>8. SaveNeed(n, next) /\ deciding = None /\ escalating = None /\ UNCHANGED escalating
  BY <1>1, <1>5 DEF CreateRequirement, Idle, Ready
<1>9. IInv' /\ NeedsOK(db)' /\ NeedsOK(ws)'
  BY <1>7, <1>8, NeedRowSaved
<1> QED BY <1>8, <1>9 DEF DemandIInv, EscalationOK

(* The requirement a service reads satisfies the invariant. *)
LEMMA NeedSeen ==
    ASSUME DemandIInv, NEW n \in Needs, ws.need[n] # None
    PROVE  /\ ws.need[n] \in NeedRows /\ NeedOK(ws.need[n], ws.req)
           /\ ws.need[n].linked # None => SoleLink(ws.need, n, ws.need[n].linked)
BY DEF DemandIInv, NeedsOK, NeedTable

(* update_requirement keeps the invariant. *)
LEMMA UpdateRequirementStep ==
    ASSUME DemandIInv, NEW n \in Needs, NEW position \in Positions \cup {None},
           NEW required \in Quantities, NEW issued \in Quantities \cup {0},
           UpdateRequirement(n, position, required, issued)
    PROVE  DemandIInv'
<1>1. PICK old : old = ws.need[n]
  OBVIOUS
<1>2. /\ old \in NeedRows /\ NeedOK(old, ws.req)
      /\ old.linked # None => SoleLink(ws.need, n, old.linked)
  BY <1>1, NeedSeen DEF UpdateRequirement, Changeable
<1> DEFINE linked == IF position = None THEN None ELSE old.linked
<1>3. PICK row : row = [old EXCEPT !.position = position, !.required = required,
                                   !.issued = issued, !.linked = linked]
  OBVIOUS
<1>4. issued \in Nat /\ issued <= required
  BY BoundsAssumption DEF UpdateRequirement
<1>5. linked \in Reqs \cup {None}
  BY <1>2 DEF NeedRows
<1> HIDE DEF linked
<1>6. /\ row \in NeedRows /\ row.issued = issued /\ row.required = required
      /\ row.linked = linked /\ row.position = position
  BY <1>2, <1>3, <1>4, <1>5 DEF NeedRows
<1>7. row.linked # None => row.position # None /\ Made(ws.req, row.linked)
  BY <1>2, <1>6 DEF linked, NeedOK
<1>8. /\ StatusTold([row EXCEPT !.status = BaseStatus(row)]) /\ WithBaseStatus(row) \in NeedRows
  BY <1>4, <1>6, <1>7, BaseTold
<1>9. PICK next : next = WithBaseStatus(row)
  OBVIOUS
<1>10. /\ next.issued = row.issued /\ next.required = row.required
       /\ next.linked = row.linked /\ next.position = row.position
  BY <1>6, <1>9 DEF WithBaseStatus, NeedRows
<1>11. next \in NeedRows /\ NeedOK(next, ws.req)
  BY <1>4, <1>6, <1>7, <1>8, <1>9, <1>10 DEF NeedOK, WithBaseStatus
<1>12. /\ SaveNeed(n, next)
       /\ next.linked # None => SoleLink(ws.need, n, next.linked)
  BY <1>1, <1>2, <1>3, <1>6, <1>9, <1>10 DEF UpdateRequirement, linked
<1>13. deciding = None /\ escalating = None /\ UNCHANGED escalating
  BY DEF UpdateRequirement, Idle, Ready
<1>14. IInv' /\ NeedsOK(db)' /\ NeedsOK(ws)'
  BY <1>11, <1>12, <1>13, NeedRowSaved
<1> QED BY <1>13, <1>14 DEF DemandIInv, EscalationOK

(* refresh_requirement_availability keeps the invariant. *)
LEMMA RefreshRequirementStep ==
    ASSUME DemandIInv, NEW n \in Needs, NEW available, NEW enabled \in BOOLEAN,
           RefreshRequirement(n, available, enabled)
    PROVE  DemandIInv'
<1>1. PICK row : row = ws.need[n]
  OBVIOUS
<1>2. /\ row \in NeedRows /\ NeedOK(row, ws.req)
      /\ row.linked # None => SoleLink(ws.need, n, row.linked)
  BY <1>1, NeedSeen DEF RefreshRequirement, Changeable
<1>3. /\ BaseStatus(row) \in ProcurementStatuses
      /\ StatusTold([row EXCEPT !.status = BaseStatus(row)])
  BY <1>2, BaseTold DEF NeedOK
<1>4. PICK b, s : b = BaseStatus(row) /\ s = RefreshedNeedStatus(row, available, enabled)
  OBVIOUS
<1>5. s = b \/ (b = "PLANNED" /\ s \in {"AVAILABLE_FROM_STOCK", "SHORTAGE_IDENTIFIED"})
  BY <1>4 DEF RefreshedNeedStatus
<1>6. s \in ProcurementStatuses
  BY <1>3, <1>4, <1>5 DEF ProcurementStatuses
<1>7. PICK next, base : next = [row EXCEPT !.status = s] /\ base = [row EXCEPT !.status = b]
  OBVIOUS
<1>8. /\ next \in NeedRows /\ next.status = s /\ next.position = row.position
      /\ next.issued = row.issued /\ next.required = row.required /\ next.linked = row.linked
  BY <1>2, <1>6, <1>7 DEF NeedRows
<1>9. /\ StatusTold(base) /\ base.status = b /\ base.position = row.position
      /\ base.issued = row.issued /\ base.required = row.required /\ base.linked = row.linked
  BY <1>2, <1>3, <1>4, <1>7 DEF NeedRows
<1>10. StatusTold(next)
  BY <1>5, <1>8, <1>9 DEF StatusTold
<1>11. NeedOK(next, ws.req) /\ (next.linked # None => SoleLink(ws.need, n, next.linked))
  BY <1>2, <1>8, <1>10 DEF NeedOK
<1>12. SaveNeed(n, next)
  BY <1>1, <1>4, <1>7 DEF RefreshRequirement
<1>13. deciding = None /\ escalating = None /\ UNCHANGED escalating
  BY DEF RefreshRequirement, Idle, Ready
<1>14. IInv' /\ NeedsOK(db)' /\ NeedsOK(ws)'
  BY <1>8, <1>11, <1>12, <1>13, NeedRowSaved
<1> QED BY <1>13, <1>14 DEF DemandIInv, EscalationOK

(* The end of the work order keeps the invariant. *)
LEMMA EndWorkOrderStep ==
    ASSUME DemandIInv, NEW n \in Needs, EndWorkOrder(n)
    PROVE  DemandIInv'
<1>1. PICK u : u = [ws EXCEPT !.mutable[n] = FALSE]
  OBVIOUS
<1>2. NeedsOK(ws)
  BY DEF DemandIInv
<1>3. DOMAIN u = DOMAIN ws /\ (\A f \in Fields : u[f] = ws[f]) /\ u.need = ws.need
  BY <1>1, <1>2 DEF Fields, NeedsOK
<1>4. u.req = ws.req
  BY <1>3 DEF Fields
<1>5. NeedsOK(u)
  BY <1>2, <1>3, <1>4 DEF NeedsOK
<1>6. CommitOrRollback(u) /\ UNCHANGED deciding /\ deciding = None
      /\ escalating = None /\ UNCHANGED escalating
  BY <1>1 DEF EndWorkOrder, Idle, Ready
<1>7. IInv' /\ NeedsOK(db)' /\ NeedsOK(ws)'
  BY <1>3, <1>5, <1>6, NeedSaved
<1> QED BY <1>6, <1>7 DEF DemandIInv, EscalationOK

-----------------------------------------------------------------------------
(* The four commits of an escalation *)

(* The requisition that escalate_requirement opens keeps the invariant. *)
LEMMA EscalateCreateStep ==
    ASSUME DemandIInv, NEW n \in Needs, NEW q \in Reqs, NEW available \in Nat,
           NEW submit \in BOOLEAN, EscalateCreate(n, q, available, submit)
    PROVE  DemandIInv'
<1>1. PICK row : row = ws.need[n]
  OBVIOUS
<1>2. /\ row # None /\ row.position # None /\ available < row.required
      /\ CreateRequisition(q, row.position[2], n)
      /\ escalating' = Reached([need |-> n, req |-> q, at |-> "created", submit |-> submit,
                                missing |-> row.required - available])
  BY <1>1 DEF EscalateCreate, Changeable
<1>3. row \in NeedRows
  BY <1>1, <1>2, NeedSeen
<1>4. row.required - available \in Nat
  <2>1. row.required \in Nat
    BY <1>3, BoundsAssumption DEF NeedRows
  <2> QED BY <1>2, <2>1
<1>5. IInv' /\ SessionStep
  <2>1. n \in References \cup {None}
    BY NeedAssumption
  <2>2. PICK room : room = row.position[2]
    OBVIOUS
  <2>3. CreateRequisition(q, room, n)
    BY <1>2, <2>2
  <2> QED BY <2>1, <2>3, CreateRequisitionStep DEF DemandIInv
<1>6. NeedsOK(db)' /\ NeedsOK(ws)'
  <2>1. NeedsOK(db') /\ NeedsOK(ws')
    BY <1>5, SessionCarries DEF DemandIInv
  <2> QED BY <2>1
<1>7. CASE clash
  <2>1. escalating' = None
    BY <1>2, <1>7 DEF Reached
  <2> QED BY <1>5, <1>6, <2>1 DEF DemandIInv, EscalationOK
<1>8. CASE ~clash
  <2> DEFINE new == [status |-> "DRAFT", lines |-> <<>>, reference |-> n]
  <2>1. PICK u : u = [ws EXCEPT !.req[q] = new]
    OBVIOUS
  <2>2. ws' = u /\ clash' = FALSE
    BY <1>2, <1>8, <2>1 DEF CreateRequisition, CommitOrRollback, Committed
  <2>3. ws.req \in ReqTable /\ {"req", "need"} \subseteq DOMAIN ws
    BY DEF DemandIInv, IInv, TabInv, Fields, NeedsOK
  <2>4. new \in ReqRows
    BY NeedAssumption DEF ReqRows, ReqStatuses
  <2>5. new # None
    BY <2>4, NoneAssumption
  <2> HIDE DEF new
  <2>6. u.req[q] = new /\ u.need = ws.need
    BY <2>1, <2>3 DEF ReqTable
  <2>7. PICK m \in Nat : m = row.required - available
    BY <1>4
  <2>8. PICK e : e = [need |-> n, req |-> q, at |-> "created", submit |-> submit, missing |-> m]
    OBVIOUS
  <2>9. escalating' = e
    BY <1>2, <1>8, <2>7, <2>8 DEF Reached
  <2>10. e \in Escalations /\ e.need = n /\ e.req = q /\ e.at = "created"
    BY <2>8 DEF Escalations
  <2>11. SoleLink(ws.need, n, q)
    <3> SUFFICES ASSUME NEW k \in Needs, ws.need[k] # None, ws.need[k].linked = q
                 PROVE  FALSE
      BY DEF SoleLink
    <3>1. q # None /\ ws.req[q] = None
      BY <1>2, NoneAssumption DEF CreateRequisition
    <3> QED BY <3>1, NeedSeen DEF NeedOK, Made
  <2>12. EscalationOK'
    BY <1>1, <1>2, <2>2, <2>4, <2>5, <2>6, <2>9, <2>10, <2>11 DEF EscalationOK
  <2> QED BY <1>5, <1>6, <2>12 DEF DemandIInv
<1> QED BY <1>7, <1>8

(* The requisition of the call gets lines, and the call goes on. *)
LEMMA EscalationGoesOn ==
    ASSUME DemandIInv, escalating # None, IInv', SessionStep,
           NEW u, NEW row, u.req[escalating.req] = row, u.need = ws.need,
           row # None, DOMAIN row.lines # {}, ws' = u, clash' = FALSE,
           NEW at \in {"lined", "linking"}, escalating' = [escalating EXCEPT !.at = at]
    PROVE  DemandIInv'
<1>1. /\ escalating \in Escalations
      /\ ws.need[escalating.need] # None /\ ws.need[escalating.need].position # None
      /\ SoleLink(ws.need, escalating.need, escalating.req)
  BY DEF DemandIInv, EscalationOK
<1>2. PICK e, f : e = escalating /\ f = escalating'
  OBVIOUS
<1>3. f = [e EXCEPT !.at = at] /\ e \in Escalations
  BY <1>1, <1>2
<1>4. f \in Escalations /\ f.need = e.need /\ f.req = e.req /\ f.at = at
  BY <1>3 DEF Escalations
<1>5. EscalationOK'
  BY <1>1, <1>2, <1>4 DEF EscalationOK
<1>6. NeedsOK(db') /\ NeedsOK(ws')
  BY SessionCarries DEF DemandIInv
<1> QED BY <1>5, <1>6 DEF DemandIInv

(* The line that escalate_requirement adds keeps the invariant. *)
LEMMA EscalateLineStep ==
    ASSUME DemandIInv, EscalateLine
    PROVE  DemandIInv'
<1>1. PICK q, i, m : /\ q = escalating.req /\ m = escalating.missing
                     /\ i = ws.need[escalating.need].position[1]
  OBVIOUS
<1>2. /\ escalating # None /\ AddRequisitionLine(q, i, m)
      /\ escalating' = Reached([escalating EXCEPT
                                   !.at = IF escalating.submit THEN "lined" ELSE "linking"])
  BY <1>1 DEF EscalateLine
<1>3. /\ ~clash /\ escalating \in Escalations /\ ws.need[escalating.need] # None
      /\ ws.need[escalating.need].position # None
  BY <1>2 DEF DemandIInv, EscalationOK
<1>4. q \in Reqs /\ m \in Nat /\ escalating.need \in Needs
  BY <1>1, <1>3 DEF Escalations
<1>5. i \in Items
  <2>1. ws.need[escalating.need] \in NeedRows
    BY <1>3, <1>4, NeedSeen
  <2>2. ws.need[escalating.need].position \in Positions
    BY <1>3, <2>1 DEF NeedRows
  <2> QED BY <1>1, <2>2 DEF Positions
<1>6. IInv' /\ SessionStep
  BY <1>2, <1>4, <1>5, AddRequisitionLineStep DEF DemandIInv
<1> DEFINE line == [item |-> i, requested |-> m, sourced |-> 0, status |-> "DRAFT"]
           row == [ws.req[q] EXCEPT !.lines = Append(ws.req[q].lines, line)]
<1>7. PICK u : u = [ws EXCEPT !.req[q].lines = Append(@, line)]
  OBVIOUS
<1>8. /\ ws' = u /\ clash' = FALSE /\ ws.req[q] # None
  BY <1>2, <1>3, <1>7 DEF AddRequisitionLine, DraftRequisition, CommitOrRollback, Committed
<1>9. u = [ws EXCEPT !.req = [ws.req EXCEPT ![q] = row]]
  BY <1>7
<1>10. ws.req \in ReqTable /\ {"req", "need"} \subseteq DOMAIN ws
  BY DEF DemandIInv, IInv, TabInv, Fields, NeedsOK
<1>11. ws.req[q] \in ReqRows /\ ws.req[q].lines \in Seq(ReqLines)
  BY <1>4, <1>8, ReqSeen DEF DemandIInv, IInv
<1>12. line \in ReqLines
  BY <1>4, <1>5 DEF ReqLines, ReqLineStatuses
<1> HIDE DEF line
<1>13. /\ Append(ws.req[q].lines, line) \in Seq(ReqLines)
       /\ DOMAIN Append(ws.req[q].lines, line) # {}
  <2>1. PICK lines \in Seq(ReqLines) : lines = ws.req[q].lines
    BY <1>11
  <2>2. Append(lines, line) \in Seq(ReqLines) /\ Len(Append(lines, line)) = Len(lines) + 1
    BY <1>12
  <2>3. Len(lines) \in Nat /\ DOMAIN Append(lines, line) = 1..Len(lines) + 1
    BY <2>2
  <2>4. 1 \in DOMAIN Append(lines, line)
    BY <2>3
  <2> QED BY <2>1, <2>2, <2>4
<1>14. row \in ReqRows /\ DOMAIN row.lines # {}
  BY <1>11, <1>13 DEF ReqRows
<1>15. row # None
  BY <1>14, NoneAssumption
<1> HIDE DEF row
<1>16. u.req[q] = row /\ u.need = ws.need
  BY <1>4, <1>9, <1>10 DEF ReqTable
<1>17. PICK at : at = IF escalating.submit THEN "lined" ELSE "linking"
  OBVIOUS
<1>18. at \in {"lined", "linking"} /\ escalating' = [escalating EXCEPT !.at = at]
  BY <1>2, <1>3, <1>17 DEF Reached
<1> QED BY <1>1, <1>2, <1>6, <1>8, <1>14, <1>15, <1>16, <1>18, EscalationGoesOn

(* The submission that escalate_requirement asks for keeps the invariant. *)
LEMMA EscalateSubmitStep ==
    ASSUME DemandIInv, EscalateSubmit
    PROVE  DemandIInv'
<1>1. PICK q : q = escalating.req
  OBVIOUS
<1>2. /\ escalating # None /\ SubmitRequisition(q) /\ escalating.at = "lined"
      /\ escalating' = Reached([escalating EXCEPT !.at = "linking"])
  BY <1>1 DEF EscalateSubmit
<1>3. /\ ~clash /\ escalating \in Escalations /\ DOMAIN ws.req[q].lines # {}
  BY <1>1, <1>2 DEF DemandIInv, EscalationOK
<1>4. q \in Reqs
  BY <1>1, <1>3 DEF Escalations
<1>5. IInv' /\ SessionStep
  BY <1>2, <1>4, SubmitRequisitionStep DEF DemandIInv
<1> DEFINE lines == WithLineStatus(ws.req[q].lines, "DRAFT")
           row == [ws.req[q] EXCEPT !.status = "SUBMITTED", !.lines = lines]
<1>6. PICK u : u = [ws EXCEPT !.req[q].status = "SUBMITTED",
                             !.req[q].lines = WithLineStatus(@, "DRAFT"),
                             !.approval[q] = "PENDING"]
  OBVIOUS
<1>7. ws' = u /\ clash' = FALSE /\ ws.req[q] # None
  BY <1>2, <1>3, <1>6 DEF SubmitRequisition, DraftRequisition, BareCommit, Committed
<1>8. ws.req \in ReqTable /\ {"req", "need", "approval"} \subseteq DOMAIN ws
  BY DEF DemandIInv, IInv, TabInv, Fields, NeedsOK
<1>9. ws.req[q] \in ReqRows /\ ws.req[q].lines \in Seq(ReqLines)
  BY <1>4, <1>7, ReqSeen DEF DemandIInv, IInv
<1>10. u.req[q] = row /\ u.need = ws.need
  BY <1>4, <1>6, <1>8, <1>9 DEF ReqTable, ReqRows
<1>11. lines \in Seq(ReqLines) /\ DOMAIN lines = DOMAIN ws.req[q].lines
  <2>1. "DRAFT" \in ReqLineStatuses
    BY DEF ReqLineStatuses
  <2> QED BY <1>9, <2>1, ReqLinesMarked DEF ReqLinesStay
<1> HIDE DEF lines
<1>12. row \in ReqRows /\ DOMAIN row.lines # {}
  BY <1>3, <1>9, <1>11 DEF ReqRows, ReqStatuses
<1>13. row # None
  BY <1>12, NoneAssumption
<1> HIDE DEF row
<1>14. escalating' = [escalating EXCEPT !.at = "linking"]
  BY <1>2, <1>3 DEF Reached
<1>15. PICK at : at = "linking"
  OBVIOUS
<1>16. at \in {"lined", "linking"} /\ escalating' = [escalating EXCEPT !.at = at]
  BY <1>14, <1>15
<1> QED BY <1>1, <1>2, <1>5, <1>7, <1>10, <1>12, <1>13, <1>16, EscalationGoesOn

(* The link that ends escalate_requirement keeps the invariant. *)
LEMMA EscalateLinkStep ==
    ASSUME DemandIInv, EscalateLink
    PROVE  DemandIInv'
<1>1. PICK n, q : n = escalating.need /\ q = escalating.req
  OBVIOUS
<1>2. PICK old : old = ws.need[n]
  OBVIOUS
<1>3. PICK row : row = [old EXCEPT !.linked = q, !.status = "REQUISITIONED"]
  OBVIOUS
<1>4. SaveNeed(n, row) /\ deciding = None /\ escalating' = None
  BY <1>1, <1>2, <1>3 DEF EscalateLink, Ready
<1>5. /\ escalating \in Escalations /\ old # None /\ old.position # None
      /\ Made(ws.req, q) /\ SoleLink(ws.need, n, q)
  BY <1>1, <1>2 DEF DemandIInv, EscalationOK, EscalateLink, Linkable, Made
<1>6. n \in Needs /\ q \in Reqs
  BY <1>1, <1>5 DEF Escalations
<1>7. old \in NeedRows /\ NeedOK(old, ws.req)
  BY <1>2, <1>5, <1>6, NeedSeen
<1>8. /\ row \in NeedRows /\ row.linked = q /\ row.status = "REQUISITIONED"
      /\ row.position = old.position /\ row.issued = old.issued /\ row.required = old.required
  BY <1>3, <1>6, <1>7 DEF NeedRows, ProcurementStatuses
<1>9. q # None
  BY <1>6, NoneAssumption
<1>10. NeedOK(row, ws.req)
  BY <1>5, <1>7, <1>8, <1>9 DEF NeedOK, StatusTold
<1>11. IInv' /\ NeedsOK(db)' /\ NeedsOK(ws)'
  BY <1>4, <1>5, <1>6, <1>8, <1>10, NeedRowSaved
<1> QED BY <1>4, <1>11 DEF DemandIInv, EscalationOK

-----------------------------------------------------------------------------
(* The empty database satisfies the invariant of the requirements. *)
LEMMA DemandInitOK ==
    ASSUME DemandInit
    PROVE  DemandIInv
<1>1. PICK m \in MasterStates : /\ SessionOpen(DemandTables(m)) /\ deciding = None
                                /\ escalating = None
  BY DEF DemandInit
<1>2. PICK t : t = DemandTables(m)
  OBVIOUS
<1>3. /\ {"req", "order", "approval", "stock", "master", "need"} \subseteq DOMAIN t /\ t.master = m
      /\ t.req = [q \in Reqs |-> None] /\ t.order = [o \in Orders |-> None]
      /\ t.approval = [e \in Entities |-> None] /\ t.stock = [p \in Positions |-> None]
      /\ t.need = [n \in Needs |-> None]
  BY <1>2 DEF DemandTables, EmptyTables
<1>4. TabInv(t)
  BY <1>3, EmptyTablesOK DEF Fields
<1>5. NeedsOK(t)
  BY <1>3 DEF NeedsOK, NeedTable
<1>6. IInv /\ db = t /\ ws = t
  BY <1>1, <1>2, <1>4, OpenedOK
<1> QED BY <1>1, <1>5, <1>6 DEF DemandIInv, EscalationOK

(* Every step keeps the invariant of the requirements. *)
LEMMA DemandStepOK ==
    ASSUME DemandIInv, [DemandNext]_demandVars
    PROVE  DemandIInv'
<1>1. ASSUME SessionStep, IInv', escalating' = None
      PROVE  DemandIInv'
  <2>1. NeedsOK(db') /\ NeedsOK(ws')
    BY <1>1, SessionCarries DEF DemandIInv
  <2> QED BY <1>1, <2>1 DEF DemandIInv, EscalationOK
<1>2. CASE escalating = None /\ Next /\ UNCHANGED escalating
  BY <1>1, <1>2, NextStep DEF DemandIInv
<1>3. CASE Restart /\ escalating' = None
  BY <1>1, <1>3, RestartStep DEF DemandIInv
<1>4. ASSUME NEW n \in Needs, EndWorkOrder(n)
      PROVE  DemandIInv'
  BY <1>4, EndWorkOrderStep
<1>5. ASSUME NEW n \in Needs, NEW p \in Positions \cup {None}, NEW required \in Quantities,
             NEW issued \in Quantities \cup {0},
             CreateRequirement(n, p, required, issued) \/ UpdateRequirement(n, p, required, issued)
      PROVE  DemandIInv'
  BY <1>5, CreateRequirementStep, UpdateRequirementStep
<1>6. ASSUME NEW n \in Needs, NEW available \in Quantities \cup {0}, NEW enabled \in BOOLEAN,
             RefreshRequirement(n, available, enabled)
      PROVE  DemandIInv'
  BY <1>6, RefreshRequirementStep
<1>7. ASSUME NEW n \in Needs, NEW available \in Quantities \cup {0}, NEW q \in Reqs,
             NEW submit \in BOOLEAN, EscalateCreate(n, q, available, submit)
      PROVE  DemandIInv'
  <2>1. available \in Nat
    BY BoundsAssumption
  <2> QED BY <1>7, <2>1, EscalateCreateStep
<1>8. CASE EscalateLine \/ EscalateSubmit \/ EscalateLink
  BY <1>8, EscalateLineStep, EscalateSubmitStep, EscalateLinkStep
<1>9. CASE EscalationFails
  BY <1>1, <1>9, StutterStep DEF EscalationFails, DemandIInv
<1>10. CASE UNCHANGED demandVars
  <2>1. UNCHANGED vars /\ escalating' = escalating
    BY <1>10 DEF demandVars
  <2>2. IInv'
    BY <2>1, StutterStep DEF DemandIInv
  <2>3. db' = db /\ ws' = ws /\ clash' = clash
    BY <2>1 DEF vars, sessionVars
  <2> QED BY <2>1, <2>2, <2>3 DEF DemandIInv, EscalationOK, NeedsOK
<1> QED BY <1>2, <1>3, <1>4, <1>5, <1>6, <1>7, <1>8, <1>9, <1>10 DEF DemandNext

(* The invariant makes every link of a requirement lead to lines that no other one has. *)
LEMMA TracedDemand ==
    ASSUME DemandIInv
    PROVE  DemandTraced
<1> SUFFICES ASSUME NEW n \in Needs, db.need[n] # None
             PROVE  LET row == db.need[n]
                    IN  /\ row \in NeedRows
                        /\ StatusTold(row)
                        /\ row.linked # None =>
                              /\ row.position # None
                              /\ db.req[row.linked] # None
                              /\ db.req[row.linked].lines # <<>>
                              /\ \A m \in Needs \ {n} :
                                    db.need[m] # None => db.need[m].linked # row.linked
  BY DEF DemandTraced
<1>1. /\ db.need[n] \in NeedRows /\ NeedOK(db.need[n], db.req)
      /\ db.need[n].linked # None => SoleLink(db.need, n, db.need[n].linked)
  BY DEF DemandIInv, NeedsOK, NeedTable
<1>2. DOMAIN <<>> = {}
  OBVIOUS
<1> QED BY <1>1, <1>2 DEF NeedOK, Made, SoleLink

(* Procurement under the material requirements: a call that escalates a shortage is a
   sequence of procurement operations, between which nothing else runs but a restart. *)
THEOREM DemandInvariant == DemandSpec => []DemandIInv
<1>1. DemandInit => DemandIInv
  BY DemandInitOK
<1>2. DemandIInv /\ [DemandNext]_demandVars => DemandIInv'
  BY DemandStepOK
<1> QED BY <1>1, <1>2, PTL DEF DemandSpec

(* However requirements are changed, refreshed and escalated, and wherever an escalation
   ends, statuses agree with quantities and links, and a linked requisition has lines and
   is linked to that one requirement (escalate_requirement_shortage); what demand it
   names may have been changed since by update_requisition. *)
THEOREM LinksLeadToDemand == DemandSpec => []DemandTraced
BY DemandInvariant, TracedDemand, PTL

(* Escalations do not bring decisions out of step with what was applied. *)
THEOREM DemandDecisionsApplied == DemandSpec => []DecisionApplied
<1>1. DemandIInv => DecisionApplied
  BY AppliedDecisions DEF DemandIInv
<1> QED BY <1>1, DemandInvariant, PTL

(* Nor do they oversource a requisition line. *)
THEOREM DemandNotOversourced == DemandSpec => []NotOversourced
<1>1. DemandIInv => NotOversourced
  BY NothingOversourced DEF DemandIInv
<1> QED BY <1>1, DemandInvariant, PTL
=============================================================================
