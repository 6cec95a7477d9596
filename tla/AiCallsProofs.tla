--------------------------- MODULE AiCallsProofs ---------------------------
(***************************************************************************)
(* Safety of provider calls, for any runs, operations, repairs, sizes and  *)
(* limits: what goes out is reserved and within the budget, one run of an  *)
(* operation calls, the gate keeps its bounds, and the audit record keeps  *)
(* what AiCallRecord promises.                                             *)
(***************************************************************************)
EXTENDS AiCalls, FiniteSetTheorems, TLAPS

-----------------------------------------------------------------------------
(***************************************************************************)
(* Reserved, a fold over a set of calls.  The library defines a fold by a  *)
(* recursive function; that such a function exists, and that its value     *)
(* does not depend on the order, is shown by looking at a smallest set for *)
(* which it would not be so.                                               *)
(***************************************************************************)

\* Among subsets of a finite set there is one without a smaller one.
LEMMA SmallestSet ==
  ASSUME NEW X, IsFiniteSet(X), NEW F, F \subseteq SUBSET X, F # {}
  PROVE  \E s \in F : \A t \in F : t \subseteq s => t = s
<1>1. \A t \in SUBSET X : IsFiniteSet(t)
  BY FS_Subset
<1>2. F \subseteq FiniteSubsetsOf(X)
  BY <1>1 DEF FiniteSubsetsOf
<1>3. \E s \in F : \A t \in F : <<t, s>> \notin StrictSubsetOrdering(X)
  BY <1>2, FS_StrictSubsetOrderingWellFounded, WFMin
<1>4. PICK s \in F : \A t \in F : <<t, s>> \notin StrictSubsetOrdering(X)
  BY <1>3
<1>5. ASSUME NEW t \in F, t \subseteq s PROVE t = s
  BY <1>4, <1>5 DEF StrictSubsetOrdering
<1>6. QED
  BY <1>4, <1>5

First(s) == CHOOSE x \in s : TRUE

\* The equation that FoldSet gives the function of its intermediate sums.
SumsFrom(g, C) ==
  [s \in SUBSET C |-> IF s = {} THEN 0 ELSE Size[First(s)[2]] + g[s \ {First(s)}]]
Sums(g, C) == g = SumsFrom(g, C)

LEMMA ReservedIsChosen ==
  ASSUME NEW C
  PROVE  Reserved(C) = (CHOOSE g : Sums(g, C))[C]
BY DEF Reserved, FoldSet, MapThenFoldSet, Sums, SumsFrom, First

LEMMA FirstIsMember ==
  ASSUME NEW s, s # {}
  PROVE  First(s) \in s
BY DEF First

\* What such a function gives one set.
LEMMA SumsValue ==
  ASSUME NEW C, NEW g, Sums(g, C), NEW s \in SUBSET C
  PROVE  g[s] = IF s = {} THEN 0 ELSE Size[First(s)[2]] + g[s \ {First(s)}]
BY DEF Sums, SumsFrom

\* Two such functions agree where both are defined.
LEMMA SumsAgree ==
  ASSUME NEW C, IsFiniteSet(C), NEW D, NEW g, NEW h, Sums(g, C), Sums(h, D)
  PROVE  \A s \in (SUBSET C) \cap SUBSET D : g[s] = h[s]
<1> DEFINE Bad == {s \in SUBSET C : s \subseteq D /\ g[s] # h[s]}
<1>1. SUFFICES ASSUME Bad # {} PROVE FALSE
  OBVIOUS
<1>2. PICK s \in Bad : \A t \in Bad : t \subseteq s => t = s
  <2>1. Bad \subseteq SUBSET C
    OBVIOUS
  <2> HIDE DEF Bad
  <2>2. QED
    BY <1>1, <2>1, SmallestSet
<1>3. s # {}
  BY <1>2, SumsValue
<1>4. First(s) \in s /\ s \ {First(s)} \subseteq s /\ s \ {First(s)} # s
  BY <1>3, FirstIsMember
<1>5. s \ {First(s)} \notin Bad
  BY <1>2, <1>4
<1>6. g[s \ {First(s)}] = h[s \ {First(s)}]
  BY <1>2, <1>4, <1>5
<1>7. QED
  BY <1>2, <1>3, <1>6, SumsValue

\* There is one for every finite set.
LEMMA SumsExist ==
  ASSUME NEW C, IsFiniteSet(C)
  PROVE  \E g : Sums(g, C)
<1> DEFINE Bad == {S \in SUBSET C : ~ \E g : Sums(g, S)}
<1>1. SUFFICES ASSUME Bad # {} PROVE FALSE
  OBVIOUS
<1>2. PICK S \in Bad : \A T \in Bad : T \subseteq S => T = S
  <2>1. Bad \subseteq SUBSET C
    OBVIOUS
  <2> HIDE DEF Bad
  <2>2. QED
    BY <1>1, <2>1, SmallestSet
<1> DEFINE H(T) == CHOOSE h : Sums(h, T)
           Value(s) == IF s = {} THEN 0
                       ELSE Size[First(s)[2]] + H(s \ {First(s)})[s \ {First(s)}]
           f == [s \in SUBSET S |-> Value(s)]
<1>3. ASSUME NEW T \in SUBSET S, T # S
      PROVE  Sums(H(T), T)
  BY <1>2, <1>3
<1>4. ASSUME NEW s \in SUBSET S, s # {}
      PROVE  f[s \ {First(s)}] = H(s \ {First(s)})[s \ {First(s)}]
  <2>1. PICK t : t = s \ {First(s)}
    OBVIOUS
  <2>2. t \in SUBSET S /\ t # S
    BY <1>4, <2>1, FirstIsMember
  <2>3. Sums(H(t), t)
    BY <1>3, <2>2
  <2>4. CASE t = {}
    <3> HIDE DEF H
    <3>1. H(t)[t] = 0
      BY <2>3, <2>4, SumsValue
    <3>2. QED
      BY <2>1, <2>2, <2>4, <3>1
  <2>5. CASE t # {}
    <3>1. PICK u : u = t \ {First(t)}
      OBVIOUS
    <3>2. u \in SUBSET S /\ u # S /\ u \in (SUBSET t) \cap SUBSET u
      BY <2>2, <3>1
    <3>3. Sums(H(u), u)
      BY <1>3, <3>2
    <3> HIDE DEF H
    <3>4. IsFiniteSet(t)
      BY <1>2, <2>2, FS_Subset
    <3>5. H(t)[u] = H(u)[u]
      BY <2>3, <3>2, <3>3, <3>4, SumsAgree
    <3>6. H(t)[t] = Size[First(t)[2]] + H(t)[u]
      BY <2>3, <2>5, <3>1, SumsValue
    <3>7. f[t] = Size[First(t)[2]] + H(u)[u]
      BY <2>2, <2>5, <3>1
    <3>8. QED
      BY <2>1, <3>5, <3>6, <3>7
  <2>6. QED
    BY <2>4, <2>5
<1> HIDE DEF H
<1>5. ASSUME NEW s \in SUBSET S
      PROVE  f[s] = IF s = {} THEN 0 ELSE Size[First(s)[2]] + f[s \ {First(s)}]
  <2>1. f[s] = Value(s)
    OBVIOUS
  <2> HIDE DEF f
  <2>2. QED
    BY <1>4, <2>1
<1>6. f = [s \in SUBSET S |-> f[s]]
  OBVIOUS
<1> HIDE DEF f
<1>7. f = SumsFrom(f, S)
  BY <1>5, <1>6 DEF SumsFrom
<1>8. QED
  BY <1>2, <1>7 DEF Sums

USE AiRuntimeControlAssumption, AiCallsAssumption

LEMMA ReservedIsSum ==
  ASSUME NEW C, IsFiniteSet(C)
  PROVE  \E g : Sums(g, C) /\ Reserved(C) = g[C]
BY SumsExist, ReservedIsChosen

LEMMA ReservedUnfolds ==
  ASSUME NEW C, IsFiniteSet(C)
  PROVE  Reserved(C) = IF C = {} THEN 0
                       ELSE Size[First(C)[2]] + Reserved(C \ {First(C)})
<1>1. PICK D : D = C \ {First(C)}
  OBVIOUS
<1>2. IsFiniteSet(D) /\ C \in SUBSET C /\ D \in (SUBSET C) \cap SUBSET D
  BY <1>1, FS_RemoveElement
<1>3. PICK g : Sums(g, C) /\ Reserved(C) = g[C]
  BY ReservedIsSum
<1>4. PICK h : Sums(h, D) /\ Reserved(D) = h[D]
  BY <1>2, ReservedIsSum
<1>5. g[D] = h[D]
  BY <1>2, <1>3, <1>4, SumsAgree
<1>6. g[C] = IF C = {} THEN 0 ELSE Size[First(C)[2]] + g[C \ {First(C)}]
  BY ONLY <1>2, <1>3 DEF Sums, SumsFrom
<1>7. QED
  BY <1>1, <1>3, <1>4, <1>5, <1>6

LEMMA ReservedType ==
  ASSUME NEW C \in SUBSET Calls, IsFiniteSet(C)
  PROVE  Reserved(C) \in Nat
<1> DEFINE Bad == {S \in SUBSET C : Reserved(S) \notin Nat}
<1>1. SUFFICES ASSUME Bad # {} PROVE FALSE
  OBVIOUS
<1>2. PICK S \in Bad : \A T \in Bad : T \subseteq S => T = S
  <2>1. Bad \subseteq SUBSET C
    OBVIOUS
  <2> HIDE DEF Bad
  <2>2. QED
    BY <1>1, <2>1, SmallestSet
<1>3. IsFiniteSet(S)
  BY FS_Subset
<1>4. CASE S = {}
  <2>1. Reserved(S) = 0
    BY <1>3, <1>4, ReservedUnfolds
  <2>2. QED
    BY <1>2, <2>1
<1>5. CASE S # {}
  <2>1. First(S) \in S /\ First(S) \in Calls
    BY <1>5, FirstIsMember
  <2>2. Reserved(S \ {First(S)}) \in Nat
    BY <1>2, <2>1
  <2>3. Size[First(S)[2]] \in Nat
    BY <2>1
  <2>4. QED
    BY <1>3, <1>5, <2>2, <2>3, ReservedUnfolds
<1>6. QED
  BY <1>4, <1>5

\* Any member may be taken first.
LEMMA ReservedAdds ==
  ASSUME NEW C \in SUBSET Calls, IsFiniteSet(C)
  PROVE  \A c \in C : Reserved(C) = Size[c[2]] + Reserved(C \ {c})
<1> DEFINE Bad == {S \in SUBSET C : \E c \in S : Reserved(S) # Size[c[2]] + Reserved(S \ {c})}
<1>1. SUFFICES ASSUME Bad # {} PROVE FALSE
  OBVIOUS
<1>2. PICK S \in Bad : \A T \in Bad : T \subseteq S => T = S
  <2>1. Bad \subseteq SUBSET C
    OBVIOUS
  <2> HIDE DEF Bad
  <2>2. QED
    BY <1>1, <2>1, SmallestSet
<1>3. PICK c \in S : Reserved(S) # Size[c[2]] + Reserved(S \ {c})
  OBVIOUS
<1>4. PICK d : d = First(S)
  OBVIOUS
<1>5. IsFiniteSet(S) /\ d \in S /\ c \in Calls /\ d \in Calls
  BY <1>3, <1>4, FirstIsMember, FS_Subset
<1>6. Reserved(S) = Size[d[2]] + Reserved(S \ {d})
  BY <1>4, <1>5, ReservedUnfolds
<1>7. c # d
  BY <1>3, <1>6
<1>8. S \ {d} \notin Bad /\ S \ {c} \notin Bad
  BY <1>2, <1>3, <1>5
<1>9. /\ Reserved(S \ {d}) = Size[c[2]] + Reserved((S \ {d}) \ {c})
      /\ Reserved(S \ {c}) = Size[d[2]] + Reserved((S \ {c}) \ {d})
  BY <1>3, <1>5, <1>7, <1>8
<1>10. (S \ {d}) \ {c} = (S \ {c}) \ {d}
  OBVIOUS
<1>11. Reserved((S \ {c}) \ {d}) \in Nat
  <2>1. (S \ {c}) \ {d} \in SUBSET S
    OBVIOUS
  <2>2. QED
    BY <1>5, <2>1, FS_Subset, ReservedType
<1>12. Size[c[2]] \in Nat /\ Size[d[2]] \in Nat
  BY <1>5
<1>13. Size[d[2]] + (Size[c[2]] + Reserved((S \ {c}) \ {d}))
         = Size[c[2]] + (Size[d[2]] + Reserved((S \ {c}) \ {d}))
  BY <1>11, <1>12
<1> HIDE DEF Bad
<1>14. QED
  BY <1>3, <1>6, <1>9, <1>10, <1>13

\* A part of the calls never reserves more than all of them.
LEMMA ReservedGrows ==
  ASSUME NEW C \in SUBSET Calls, IsFiniteSet(C), NEW D \in SUBSET C
  PROVE  Reserved(D) <= Reserved(C)
<1> DEFINE Bad == {S \in SUBSET C : D \subseteq S /\ ~ (Reserved(D) <= Reserved(S))}
<1>1. SUFFICES ASSUME Bad # {} PROVE FALSE
  OBVIOUS
<1>2. PICK S \in Bad : \A T \in Bad : T \subseteq S => T = S
  <2>1. Bad \subseteq SUBSET C
    OBVIOUS
  <2> HIDE DEF Bad
  <2>2. QED
    BY <1>1, <2>1, SmallestSet
<1>3. IsFiniteSet(S) /\ IsFiniteSet(D)
  BY FS_Subset
<1>4. Reserved(D) \in Nat /\ Reserved(S) \in Nat
  BY <1>3, ReservedType
<1>5. PICK c \in S : c \notin D
  <2>1. D \subseteq S /\ ~ (Reserved(D) <= Reserved(S))
    OBVIOUS
  <2>2. D # S
    BY <1>4, <2>1
  <2>3. QED
    BY <2>1, <2>2
<1>6. c \in Calls /\ Size[c[2]] \in Nat
  <2>1. c \in Runs \X (1..Repairs + 1)
    BY AiCallsAssumption
  <2>2. QED
    BY <2>1, AiCallsAssumption
<1>7. S \ {c} \notin Bad
  BY <1>2
<1>8. Reserved(D) <= Reserved(S \ {c})
  BY <1>5, <1>7
<1>9. Reserved(S) = Size[c[2]] + Reserved(S \ {c})
  BY <1>3, ReservedAdds
<1>10. Reserved(S \ {c}) \in Nat
  BY <1>3, FS_RemoveElement, ReservedType
<1>11. QED
  BY <1>4, <1>6, <1>8, <1>9, <1>10

-----------------------------------------------------------------------------
(***************************************************************************)
(* The inductive invariant.  A call in hand is reserved; a run takes its   *)
(* numbers in order and an operation gives each of them once, so that a    *)
(* run which comes after another one's first call is refused its own; all  *)
(* that an operation has reserved is within its budget, which the sent     *)
(* calls alone would not keep.                                             *)
(***************************************************************************)
Opened == {c \in Calls : started[c] # "none"}
InHand == {"cleared", "sent", "closing", "confirming", "answered"}
OpenedOf(o) == {c \in Opened : OpOf(c) = o}

GateInv == RuntimeTypeOK /\ AdmissionBounds /\ IsFiniteSet(leases)

InHandIsReserved == \A r \in Runs : run[r].at \in InHand => Call(r) \in Opened

NumbersInOrder ==
  \A r \in Runs : \A n \in 1..Repairs + 1 :
    /\ n < run[r].no => <<r, n>> \in Opened
    /\ <<r, n>> \in Opened => n <= run[r].no

NumbersApart ==
  \A c, d \in Opened : OpOf(c) = OpOf(d) /\ c[2] = d[2] => c = d

BudgetKept == \A o \in Operations : Reserved(OpenedOf(o)) <= MaxTotal

RecordFits ==
  \A c \in Calls :
    /\ started[c] # "published" => log[c] = "none"
    /\ completed[c] # "none" => c \in Opened

CallsInv ==
  /\ TypeOK /\ GateInv
  /\ InHandIsReserved /\ NumbersInOrder /\ NumbersApart /\ BudgetKept /\ RecordFits
  /\ sent \subseteq Opened /\ IsFiniteSet(Opened)

-----------------------------------------------------------------------------
(******************************* The gate *********************************)

\* What any step of a run or of time does to the gate.
Outcomes == {"success", "neutral", "transient_failure"}
GateStep ==
  \/ \E c \in Calls : Acquire(c) \/ LeaseExpires(c) \/ \E o \in Outcomes : Finish(c, o)
  \/ Deny \/ RuntimeClock \/ UNCHANGED rvars

LEMMA CallType ==
  ASSUME TypeOK, NEW r \in Runs
  PROVE  /\ run[r] \in RunState /\ Call(r) \in Calls /\ OpOf(Call(r)) = Operation(r)
         /\ run[r].no \in 1..Repairs + 1
<1>1. run[r] \in RunState /\ run[r].no \in 1..Repairs + 1
  BY DEF TypeOK, RunState
<1>2. Call(r) \in Calls
  BY <1>1, AiCallsAssumption DEF Call
<1>3. OpOf(Call(r)) = Operation(r)
  BY DEF OpOf, Call
<1>4. QED
  BY <1>1, <1>2, <1>3

LEMMA StepsPassGate ==
  ASSUME TypeOK, [Next]_vars
  PROVE  GateStep
<1>1. CASE UNCHANGED vars
  BY <1>1 DEF vars, rvars, GateStep
<1>2. ASSUME NEW r \in Runs, Invoke(r) PROVE GateStep
  <2>1. Call(r) \in Calls
    BY CallType
  <2>2. CASE EnterGate(r)
    BY <2>1, <2>2 DEF EnterGate, GateStep
  <2>3. CASE TurnedAway(r)
    BY <2>3 DEF TurnedAway, GateStep
  <2>4. CASE BackOut(r)
    BY <2>1, <2>4 DEF BackOut, GateStep, Outcomes
  <2>5. CASE Fails(r)
    BY <2>1, <2>5 DEF Fails, GateStep, Outcomes
  <2>6. CASE Answers(r)
    BY <2>1, <2>6 DEF Answers, GateStep, Outcomes
  <2>7. CASE StartRun(r) \/ Reserve(r) \/ ReserveRefused(r) \/ ReserveUnknown(r)
             \/ Send(r) \/ TooLateToSend(r) \/ Complete(r) \/ CompleteUnknown(r)
             \/ Adopt(r) \/ Decline(r) \/ Abandon(r) \/ Crash(r)
    BY <2>7 DEF StartRun, Reserve, ReserveRefused, ReserveUnknown, Send, TooLateToSend,
         Complete, CompleteUnknown, Adopt, Decline, Abandon, Crash, GateStep
  <2>8. QED
    BY <1>2, <2>2, <2>3, <2>4, <2>5, <2>6, <2>7 DEF Invoke
<1>3. ASSUME NEW r \in Runs, DeadlinePasses(r) PROVE GateStep
  BY <1>3 DEF DeadlinePasses, GateStep
<1>4. ASSUME NEW c \in Calls,
             ProjectStarted(c) \/ ProjectCompleted(c) \/ Reconcile(c) \/ LeaseRunsOut(c)
      PROVE  GateStep
  BY <1>4 DEF ProjectStarted, ProjectCompleted, Reconcile, LeaseRunsOut, GateStep
<1>5. CASE RuntimeClock
  BY <1>5 DEF GateStep
<1>6. QED
  BY <1>1, <1>2, <1>3, <1>4, <1>5 DEF Next

LEMMA GateKept ==
  ASSUME GateInv, GateStep
  PROVE  GateInv'
<1> USE DEF RuntimeTypeOK, AdmissionBounds
<1>1. ASSUME NEW c \in Calls, Acquire(c) PROVE GateInv'
  <2>1. IsFiniteSet(leases') /\ Cardinality(leases') <= Concurrency
    <3>1. IsFiniteSet(leases) /\ Cardinality(leases) < Concurrency /\ leases' = leases \cup {c}
      BY <1>1 DEF GateInv, Acquire
    <3>2. Cardinality(leases) \in Nat
      BY <3>1, FS_CardinalityType
    <3>3. /\ IsFiniteSet(leases \cup {c})
          /\ \/ Cardinality(leases \cup {c}) = Cardinality(leases)
             \/ Cardinality(leases \cup {c}) = Cardinality(leases) + 1
      BY ONLY <3>1, FS_AddElement
    <3>4. Cardinality(leases \cup {c}) \in Nat
      BY <3>3, FS_CardinalityType
    <3>5. QED
      BY <3>1, <3>2, <3>3, <3>4
  <2>2. QED
    BY <1>1, <2>1 DEF GateInv, Acquire, ProbeOf, BreakerAdmits
<1>2. ASSUME NEW c \in Calls, leases' = leases \ {c}
      PROVE  IsFiniteSet(leases') /\ Cardinality(leases') <= Concurrency
  <2>1. IsFiniteSet(leases') /\ Cardinality(leases') <= Cardinality(leases)
    BY <1>2, FS_Subset DEF GateInv
  <2>2. Cardinality(leases) \in Nat /\ Cardinality(leases') \in Nat
    BY <2>1, FS_CardinalityType DEF GateInv
  <2>3. QED
    BY <2>1, <2>2 DEF GateInv
<1>3. ASSUME NEW c \in Calls, LeaseExpires(c) PROVE GateInv'
  BY <1>2, <1>3 DEF GateInv, LeaseExpires
<1>4. ASSUME NEW c \in Calls, NEW o \in Outcomes, Finish(c, o) PROVE GateInv'
  <2>1. /\ leases' = leases \ {c}
        /\ probe' = IF probe = c THEN NoCall ELSE probe
    BY <1>4 DEF Finish
  <2>2. IsFiniteSet(leases') /\ Cardinality(leases') <= Concurrency
    BY <1>2, <2>1
  <2>3. breaker' \in {"closed", "open", "lapsed"} /\ failures' \in 0..FailureLimit
    <3>1. CASE o = "transient_failure"
      BY <1>4, <3>1 DEF Finish, Trip, GateInv
    <3>2. CASE o # "transient_failure"
      BY <1>4, <3>2 DEF Finish, Reset, GateInv
    <3>3. QED
      BY <3>1, <3>2
  <2>4. QED
    BY <2>1, <2>2, <2>3 DEF GateInv
<1>5. CASE Deny
  BY <1>5 DEF GateInv, Deny
<1>6. CASE RuntimeClock
  BY <1>6 DEF GateInv, RuntimeClock, OpenIntervalPasses, OpenKeyExpires, FailuresAge
<1>7. CASE UNCHANGED rvars
  BY <1>7 DEF GateInv, rvars
<1>8. QED
  BY <1>1, <1>3, <1>4, <1>5, <1>6, <1>7 DEF GateStep

\* Only Reset of a probe takes a breaker from open to closed at once.
LEMMA ClosingIsProbed ==
  ASSUME GateInv, GateStep, breaker = "open", breaker' = "closed"
  PROVE  probe # NoCall /\ probe' = NoCall
<1>1. ASSUME NEW c \in Calls, NEW o \in Outcomes, Finish(c, o)
      PROVE  probe # NoCall /\ probe' = NoCall
  BY <1>1 DEF Finish, Trip, Reset
<1>2. QED
  BY <1>1 DEF GateStep, Acquire, LeaseExpires, Deny, RuntimeClock, OpenIntervalPasses,
       OpenKeyExpires, FailuresAge, rvars

-----------------------------------------------------------------------------
(***************************** Types **************************************)

Places ==
  {"idle", "entering", "admitted", "asking", "cleared", "sent", "closing", "confirming",
   "answered", "refused", "ended"}

LEMMA GoesMoves ==
  ASSUME TypeOK, NEW r \in Runs, NEW place \in Places, Goes(r, place)
  PROVE  /\ run' \in [Runs -> RunState]
         /\ run'[r].no = run[r].no /\ run'[r].at = place
         /\ \A q \in Runs : q # r => run'[q] = run[q]
<1>1. PICK x : x = [run[r] EXCEPT !.at = place]
  OBVIOUS
<1>2. x \in RunState /\ x.no = run[r].no /\ x.at = place
  <2>1. run[r] \in RunState
    BY CallType
  <2>2. QED
    BY <1>1, <2>1 DEF RunState, Places
<1>3. run \in [Runs -> RunState] /\ run' = [run EXCEPT ![r] = x]
  BY <1>1 DEF TypeOK, Goes
<1>4. QED
  BY <1>2, <1>3

LEMMA ClosesMoves ==
  ASSUME TypeOK, NEW r \in Runs, NEW v \in {"failed", "invalid", "rejected"}, Closes(r, v)
  PROVE  /\ run' \in [Runs -> RunState]
         /\ run'[r].no = run[r].no /\ run'[r].at = "closing"
         /\ \A q \in Runs : q # r => run'[q] = run[q]
<1>1. PICK f : f = [run EXCEPT ![r].at = "closing"]
  OBVIOUS
<1>2. PICK x : x = [run[r] EXCEPT !.at = "closing"]
  OBVIOUS
<1>3. x \in RunState /\ x.no = run[r].no /\ x.at = "closing"
  <2>1. run[r] \in RunState
    BY CallType
  <2>2. QED
    BY <1>2, <2>1 DEF RunState
<1>4. run \in [Runs -> RunState] /\ f = [run EXCEPT ![r] = x]
  BY <1>1, <1>2 DEF TypeOK
<1>5. PICK y : y = [x EXCEPT !.verdict = v]
  OBVIOUS
<1>6. y \in RunState /\ y.no = x.no /\ y.at = x.at
  BY <1>3, <1>5 DEF RunState
<1>7. run' = [f EXCEPT ![r] = y]
  BY <1>1, <1>4, <1>5 DEF Closes
<1>8. QED
  BY <1>3, <1>4, <1>6, <1>7

LEMMA SettledMoves ==
  ASSUME TypeOK, NEW r \in Runs, Settled(r)
  PROVE  /\ run' \in [Runs -> RunState]
         /\ \/ run'[r].no = run[r].no /\ run'[r].at = "ended"
            \/ run'[r].no = run[r].no + 1 /\ run'[r].at = "entering"
         /\ \A q \in Runs : q # r => run'[q] = run[q]
<1>1. CASE run[r].verdict = "invalid" /\ run[r].no <= Repairs
  <2>1. run' = [run EXCEPT ![r] = [at |-> "entering", no |-> run[r].no + 1, verdict |-> "none"]]
    BY <1>1 DEF Settled
  <2>2. run[r].no + 1 \in 1..Repairs + 1
    BY <1>1, CallType
  <2>3. QED
    BY <2>1, <2>2 DEF TypeOK, RunState
<1>2. CASE ~ (run[r].verdict = "invalid" /\ run[r].no <= Repairs)
  BY <1>2, GoesMoves DEF Settled, Goes, Places
<1>3. QED
  BY <1>1, <1>2

LEMMA RunTyped ==
  ASSUME TypeOK, NEW r \in Runs, Invoke(r)
  PROVE  run' \in [Runs -> RunState] /\ \A q \in Runs : q # r => run'[q] = run[q]
<1>1. CASE StartRun(r) \/ EnterGate(r) \/ TurnedAway(r) \/ Reserve(r) \/ ReserveRefused(r)
  BY <1>1, GoesMoves DEF StartRun, EnterGate, TurnedAway, Reserve, ReserveRefused, Places
<1>2. CASE ReserveUnknown(r) \/ BackOut(r) \/ Send(r) \/ TooLateToSend(r)
  BY <1>2, GoesMoves DEF ReserveUnknown, BackOut, Send, TooLateToSend, Places
<1>3. CASE Fails(r) \/ Answers(r)
  BY <1>3, GoesMoves, ClosesMoves DEF Fails, Answers, Places
<1>4. CASE Complete(r) \/ CompleteUnknown(r)
  BY <1>4, GoesMoves, SettledMoves DEF Complete, CompleteUnknown, Places
<1>5. CASE Adopt(r) \/ Decline(r) \/ Abandon(r) \/ Crash(r)
  BY <1>5, GoesMoves DEF Adopt, Decline, Abandon, Crash, Places
<1>6. QED
  BY <1>1, <1>2, <1>3, <1>4, <1>5 DEF Invoke

LEMMA TypesKept ==
  ASSUME CallsInv, [Next]_vars
  PROVE  TypeOK'
<1> USE DEF TypeOK
<1>1. RuntimeTypeOK'
  BY StepsPassGate, GateKept DEF CallsInv, GateInv
<1>2. CASE UNCHANGED vars
  BY <1>1, <1>2 DEF vars, CallsInv
<1>3. ASSUME NEW r \in Runs, Invoke(r) PROVE TypeOK'
  <2>1. Call(r) \in Calls /\ TypeOK /\ run[r].verdict \in {"none", "failed", "invalid", "rejected"}
    BY CallType DEF CallsInv, RunState
  <2>2. run' \in [Runs -> RunState]
    BY <1>3, <2>1, RunTyped
  <2>3. CASE StartRun(r)
    BY <1>1, <2>1, <2>2, <2>3 DEF StartRun, Runs
  <2>4. CASE Reserve(r) \/ ReserveUnknown(r)
    <3>1. started' \in [Calls -> {"none", "pending", "published"}]
      BY <2>1, <2>4 DEF Reserve, ReserveUnknown
    <3>2. QED
      BY <1>1, <2>1, <2>2, <2>4, <3>1 DEF Reserve, ReserveUnknown
  <2>5. CASE Send(r)
    BY <1>1, <2>1, <2>2, <2>5 DEF Send
  <2>6. CASE Complete(r) \/ CompleteUnknown(r)
    <3>1. completed' \in [Calls -> Verdicts \cup {"none"}]
      BY <2>1, <2>6 DEF Complete, CompleteUnknown, StatusOf, Verdicts
    <3>2. QED
      BY <1>1, <2>1, <2>2, <2>6, <3>1 DEF Complete, CompleteUnknown
  <2>7. CASE Adopt(r) \/ Decline(r)
    BY <1>1, <2>1, <2>2, <2>7 DEF Adopt, Decline, Verdicts
  <2>8. CASE \/ EnterGate(r) \/ TurnedAway(r) \/ ReserveRefused(r) \/ BackOut(r)
             \/ TooLateToSend(r) \/ Fails(r) \/ Answers(r) \/ Abandon(r) \/ Crash(r)
    BY <1>1, <2>1, <2>2, <2>8
       DEF EnterGate, TurnedAway, ReserveRefused, BackOut, TooLateToSend, Fails, Answers, Abandon,
           Crash
  <2>9. QED
    BY <1>3, <2>3, <2>4, <2>5, <2>6, <2>7, <2>8 DEF Invoke
<1>4. ASSUME NEW r \in Runs, DeadlinePasses(r) PROVE TypeOK'
  BY <1>1, <1>4 DEF DeadlinePasses, CallsInv
<1>5. ASSUME NEW c \in Calls,
             ProjectStarted(c) \/ ProjectCompleted(c) \/ Reconcile(c) \/ LeaseRunsOut(c)
      PROVE  TypeOK'
  <2>1. CASE ProjectStarted(c)
    BY <1>1, <2>1 DEF ProjectStarted, CallsInv
  <2>2. CASE LeaseRunsOut(c)
    BY <1>1, <2>2 DEF LeaseRunsOut, avars, CallsInv
  <2>3. CASE ProjectCompleted(c) \/ Reconcile(c)
    <3>1. log' \in [Calls -> Verdicts \cup {"none", "pending"}]
      <4>1. PICK v \in Verdicts : log' = [log EXCEPT ![c] = v]
        <5>1. CASE ProjectCompleted(c)
          BY <5>1 DEF ProjectCompleted, TypeOK, CallsInv
        <5>2. CASE Reconcile(c)
          BY <5>2 DEF Reconcile, Verdicts
        <5>3. QED
          BY <2>3, <5>1, <5>2
      <4>2. QED
        BY <4>1 DEF TypeOK, CallsInv
    <3>2. completed' \in [Calls -> Verdicts \cup {"none"}]
      <4>1. completed' = completed \/ completed' = [completed EXCEPT ![c] = "outcome_unknown"]
        BY <2>3 DEF ProjectCompleted, Reconcile
      <4>2. QED
        BY <4>1 DEF CallsInv, Verdicts
    <3>3. QED
      BY <1>1, <2>3, <3>1, <3>2 DEF ProjectCompleted, Reconcile, CallsInv
  <2>4. QED
    BY <1>5, <2>1, <2>2, <2>3
<1>6. CASE RuntimeClock /\ UNCHANGED avars
  BY <1>1, <1>6 DEF avars, CallsInv
<1>7. QED
  BY <1>2, <1>3, <1>4, <1>5, <1>6 DEF Next

-----------------------------------------------------------------------------
(************************ What a step does to the runs ********************)

\* A step opens no call, or the call of a run that was free to reserve it.
Opens(r) ==
  /\ Call(r) \notin Opened /\ Reservable(r)
  /\ Opened' = Opened \cup {Call(r)}
  /\ run'[r].no = run[r].no

LEMMA OpenedStep ==
  ASSUME CallsInv, [Next]_vars
  PROVE  Opened' = Opened \/ \E r \in Runs : Opens(r)
<1>1. CASE UNCHANGED started
  BY <1>1 DEF Opened
<1>2. ASSUME NEW r \in Runs, Reserve(r) \/ ReserveUnknown(r), started' # started
      PROVE  Opens(r)
  <2>1. /\ Call(r) \in Calls /\ run \in [Runs -> RunState]
        /\ started \in [Calls -> {"none", "pending", "published"}]
    BY CallType DEF CallsInv, TypeOK
  <2>2. /\ started[Call(r)] = "none" /\ Reservable(r)
        /\ started' = [started EXCEPT ![Call(r)] = "pending"]
    BY <1>2 DEF Reserve, ReserveUnknown
  <2>3. run'[r].no = run[r].no
    BY <1>2, GoesMoves DEF Reserve, ReserveUnknown, Places, CallsInv
  <2>4. QED
    BY <2>1, <2>2, <2>3 DEF Opens, Opened
<1>3. ASSUME NEW c \in Calls, ProjectStarted(c) PROVE Opened' = Opened
  BY <1>3 DEF ProjectStarted, Opened, CallsInv, TypeOK
<1>4. QED
  BY <1>1, <1>2, <1>3
     DEF Next, vars, avars, Invoke, StartRun, EnterGate, TurnedAway, ReserveRefused, BackOut, Send,
         TooLateToSend, Fails, Answers, Complete, CompleteUnknown, Adopt, Decline, Abandon,
         Crash, DeadlinePasses, ProjectCompleted, Reconcile, LeaseRunsOut

\* A run stays, goes on with its number, in hand only with a call in hand or
\* reserved now, or ends a call in hand and begins with the next number.
RunStays(r)  == run'[r] = run[r]
RunGoesOn(r) ==
  /\ run'[r].no = run[r].no
  /\ run'[r].at \in InHand => run[r].at \in InHand \/ Call(r) \in Opened'
RunRepairs(r) ==
  run[r].at \in InHand /\ run'[r].no = run[r].no + 1 /\ run'[r].at = "entering"

LEMMA RunStep ==
  ASSUME CallsInv, [Next]_vars, NEW r \in Runs
  PROVE  RunStays(r) \/ RunGoesOn(r) \/ RunRepairs(r)
<1>1. run \in [Runs -> RunState] /\ Call(r) \in Calls
  BY CallType DEF CallsInv, TypeOK
<1>2. ASSUME UNCHANGED run \/ \E q \in Runs : q # r /\ Invoke(q)
      PROVE  RunStays(r)
  BY <1>2, RunTyped DEF RunStays, CallsInv
<1>3. CASE Reserve(r)
  <2>1. Call(r) \in Opened'
    BY <1>1, <1>3 DEF Reserve, Opened, CallsInv, TypeOK
  <2>2. QED
    BY <1>3, <2>1, GoesMoves DEF Reserve, RunGoesOn, Places, CallsInv
<1>4. CASE Complete(r)
  BY <1>4, GoesMoves, SettledMoves DEF Complete, RunGoesOn, RunRepairs, InHand, Places, CallsInv
<1>5. CASE CompleteUnknown(r) \/ Fails(r) \/ Answers(r) \/ Send(r)
  BY <1>5, GoesMoves, ClosesMoves
     DEF CompleteUnknown, Fails, Answers, Send, RunGoesOn, InHand, Places, CallsInv
<1>6. CASE \/ StartRun(r) \/ EnterGate(r) \/ TurnedAway(r) \/ ReserveRefused(r)
           \/ ReserveUnknown(r) \/ BackOut(r) \/ TooLateToSend(r) \/ Adopt(r) \/ Decline(r)
           \/ Abandon(r) \/ Crash(r)
  BY <1>6, GoesMoves
     DEF StartRun, EnterGate, TurnedAway, ReserveRefused, ReserveUnknown, BackOut, TooLateToSend,
         Adopt, Decline, Abandon, Crash, RunGoesOn, InHand, Places, CallsInv
<1>7. CASE \E q \in Runs : Invoke(q)
  <2>1. CASE Invoke(r)
    BY <1>3, <1>4, <1>5, <1>6, <2>1 DEF Invoke
  <2>2. QED
    BY <1>2, <1>7, <2>1
<1>8. QED
  BY <1>2, <1>7
     DEF Next, vars, avars, DeadlinePasses, ProjectStarted, ProjectCompleted, Reconcile, LeaseRunsOut

-----------------------------------------------------------------------------
(****************************** The numbers *******************************)

LEMMA OpenedGrows ==
  ASSUME CallsInv, [Next]_vars
  PROVE  Opened \subseteq Opened' /\ IsFiniteSet(Opened')
BY OpenedStep, FS_AddElement DEF Opens, CallsInv

LEMMA InHandKept ==
  ASSUME CallsInv, [Next]_vars
  PROVE  InHandIsReserved'
<1>1. SUFFICES ASSUME NEW r \in Runs, run'[r].at \in InHand
               PROVE  <<r, run'[r].no>> \in Opened'
  BY DEF InHandIsReserved, Call
<1>2. run[r].at \in InHand => Call(r) \in Opened
  BY DEF CallsInv, InHandIsReserved
<1>3. CASE RunStays(r) \/ RunGoesOn(r)
  BY <1>1, <1>2, <1>3, OpenedGrows DEF RunStays, RunGoesOn, Call
<1>4. CASE RunRepairs(r)
  BY <1>1, <1>4 DEF RunRepairs, InHand
<1>5. QED
  BY <1>3, <1>4, RunStep

LEMMA OrderKept ==
  ASSUME CallsInv, [Next]_vars
  PROVE  NumbersInOrder'
<1>1. SUFFICES ASSUME NEW r \in Runs, NEW n \in 1..Repairs + 1
               PROVE  /\ n < run'[r].no => <<r, n>> \in Opened'
                      /\ <<r, n>> \in Opened' => n <= run'[r].no
  BY DEF NumbersInOrder
<1>2. /\ run[r].no \in 1..Repairs + 1 /\ run'[r].no \in 1..Repairs + 1
      /\ n < run[r].no => <<r, n>> \in Opened
      /\ <<r, n>> \in Opened => n <= run[r].no
  BY CallType, TypesKept DEF CallsInv, NumbersInOrder, TypeOK, RunState
<1>3. run'[r].no = run[r].no \/ RunRepairs(r)
  BY RunStep DEF RunStays, RunGoesOn
<1>4. RunRepairs(r) => run'[r].no = run[r].no + 1 /\ <<r, run[r].no>> \in Opened
  BY DEF RunRepairs, CallsInv, InHandIsReserved, Call
<1>5. n < run'[r].no => <<r, n>> \in Opened'
  <2>1. n < run'[r].no => n < run[r].no \/ (RunRepairs(r) /\ n = run[r].no)
    BY <1>2, <1>3, <1>4
  <2>2. QED
    BY <1>2, <1>4, <2>1, OpenedGrows
<1>6. ASSUME <<r, n>> \in Opened' PROVE n <= run'[r].no
  <2>1. CASE <<r, n>> \in Opened
    BY <1>2, <1>3, <1>4, <2>1
  <2>2. CASE <<r, n>> \notin Opened
    <3>1. PICK q \in Runs : Opens(q)
      BY <1>6, <2>2, OpenedStep
    <3>2. <<r, n>> = Call(q)
      BY <1>6, <2>2, <3>1 DEF Opens
    <3>3. q = r /\ n = run[r].no
      BY <3>2 DEF Call
    <3>4. QED
      BY <1>2, <3>1, <3>3 DEF Opens
  <2>3. QED
    BY <2>1, <2>2
<1>7. QED
  BY <1>5, <1>6

LEMMA ApartKept ==
  ASSUME CallsInv, [Next]_vars
  PROVE  NumbersApart'
<1>1. CASE Opened' = Opened
  BY <1>1 DEF CallsInv, NumbersApart, OpOf
<1>2. ASSUME NEW r \in Runs, Opens(r) PROVE NumbersApart'
  <2>1. \A d \in Opened : OpOf(d) = OpOf(Call(r)) => d[2] # Call(r)[2]
    BY <1>2 DEF Opens, Reservable, NumberTaken, Siblings, Opened
  <2>2. QED
    BY <1>2, <2>1 DEF Opens, CallsInv, NumbersApart, OpOf
<1>3. QED
  BY <1>1, <1>2, OpenedStep

LEMMA BudgetStaysKept ==
  ASSUME CallsInv, [Next]_vars
  PROVE  BudgetKept'
<1>1. SUFFICES ASSUME NEW o \in Operations
               PROVE  Reserved({c \in Opened' : OpOf(c) = o}) <= MaxTotal
  BY DEF BudgetKept, OpenedOf, OpOf
<1>2. Reserved(OpenedOf(o)) <= MaxTotal
  BY DEF CallsInv, BudgetKept
<1>3. CASE {c \in Opened' : OpOf(c) = o} = OpenedOf(o)
  BY <1>2, <1>3
<1>4. CASE {c \in Opened' : OpOf(c) = o} # OpenedOf(o)
  <2>1. PICK r \in Runs : Opens(r)
    BY <1>4, OpenedStep DEF OpenedOf
  <2>2. OpOf(Call(r)) = o
    BY <1>4, <2>1 DEF OpenedOf, Opens
  <2>3. {c \in Opened' : OpOf(c) = o} = Siblings(Call(r)) \cup {Call(r)}
    BY <2>1, <2>2 DEF Opens, Siblings, Opened
  <2>4. PICK S : S = Siblings(Call(r)) \cup {Call(r)}
    OBVIOUS
  <2>5. S \in SUBSET Calls /\ IsFiniteSet(S)
    <3>1. S \subseteq Opened'
      BY <2>3, <2>4
    <3>2. Opened' \subseteq Calls
      BY DEF Opened
    <3>3. QED
      BY <3>1, <3>2, OpenedGrows, FS_Subset
  <2>6. ~ (Reserved(S) > MaxTotal)
    BY <2>1, <2>4 DEF Opens, Reservable, OverBudget
  <2>7. Reserved(S) \in Nat
    BY <2>5, ReservedType
  <2>8. Reserved(S) <= MaxTotal
    BY <2>6, <2>7
  <2>9. QED
    BY <2>3, <2>4, <2>8
<1>5. QED
  BY <1>3, <1>4

LEMMA SentKept ==
  ASSUME CallsInv, [Next]_vars
  PROVE  sent' \subseteq Opened'
<1>1. ASSUME NEW r \in Runs, Send(r) PROVE sent' \subseteq Opened'
  <2>1. Call(r) \in Opened
    BY <1>1 DEF Send, CallsInv, InHandIsReserved, InHand
  <2>2. QED
    BY <1>1, <2>1, OpenedGrows DEF Send, CallsInv
<1>2. CASE UNCHANGED sent
  BY <1>2, OpenedGrows DEF CallsInv
<1>3. QED
  BY <1>1, <1>2
     DEF Next, vars, avars, Invoke, StartRun, EnterGate, TurnedAway, Reserve, ReserveRefused,
         ReserveUnknown, BackOut, TooLateToSend, Fails, Answers, Complete, CompleteUnknown, Adopt,
         Decline, Abandon, Crash, DeadlinePasses, ProjectStarted, ProjectCompleted, Reconcile,
         LeaseRunsOut

-----------------------------------------------------------------------------
(****************************** The record ********************************)

\* What a step does to the record, seen through the actions of AiCallRecord.
LEMMA RecordStep ==
  ASSUME CallsInv, [Next]_vars
  PROVE  [Record!Next]_(Record!vars)
<1> DEFINE Kept == UNCHANGED <<started, completed, adopted, log>>
<1>1. CASE Kept
  BY <1>1 DEF Record!vars
<1>2. ASSUME NEW r \in Runs, Reserve(r) \/ ReserveUnknown(r)
      PROVE  Record!Next \/ UNCHANGED Record!vars
  <2>1. CASE UNCHANGED started
    BY <1>2, <2>1 DEF Reserve, ReserveUnknown, Record!vars
  <2>2. CASE started' # started
    <3>1. Call(r) \in Calls /\ started \in [Calls -> {"none", "pending", "published"}]
      BY CallType DEF CallsInv, TypeOK
    <3>2. /\ started[Call(r)] = "none"
          /\ started' = [started EXCEPT ![Call(r)] = "pending"]
      BY <1>2, <2>2 DEF Reserve, ReserveUnknown
    <3>3. \E c \in Calls : Record!Open(c)
      BY <1>2, <3>1, <3>2 DEF Reserve, ReserveUnknown, Record!Open
    <3>4. Record!Next
      BY <3>3 DEF Record!Next
    <3>5. QED
      BY <3>4
  <2>3. QED
    BY <2>1, <2>2
<1>3. ASSUME NEW r \in Runs, Complete(r) \/ CompleteUnknown(r)
      PROVE  Record!Next \/ UNCHANGED Record!vars
  <2> DEFINE v == StatusOf(run[r].verdict)
  <2>1. Call(r) \in Opened /\ Call(r) \in Calls
    BY <1>3, CallType DEF Complete, CompleteUnknown, CallsInv, InHandIsReserved, InHand
  <2>2. UNCHANGED <<started, adopted, log>>
    BY <1>3 DEF Complete, CompleteUnknown
  <2>3. CASE UNCHANGED completed
    BY <2>2, <2>3 DEF Record!vars
  <2>4. CASE completed' # completed
    <3>1. /\ Completable(Call(r), v) /\ completed' = [completed EXCEPT ![Call(r)] = v]
          /\ v \in {"none", "failed", "rejected"}
      BY <1>3, <2>4, CallType DEF Complete, CompleteUnknown, StatusOf, CallsInv, RunState
    <3>2. completed[Call(r)] = "none" /\ v # "none"
      BY <2>4, <3>1, <2>1 DEF Completable, CallsInv, TypeOK
    <3>3. Record!Settle(Call(r), v)
      BY <2>1, <2>2, <3>1, <3>2 DEF Record!Settle, Opened
    <3>4. QED
      BY <2>1, <3>1, <3>2, <3>3 DEF Record!Next, Verdicts
  <2>5. QED
    BY <2>3, <2>4
<1>4. ASSUME NEW r \in Runs, Adopt(r) \/ Decline(r)
      PROVE  Record!Next
  <2>1. Call(r) \in Opened /\ Call(r) \in Calls
    BY <1>4, CallType DEF Adopt, Decline, CallsInv, InHandIsReserved, InHand
  <2>2. \E v \in {"succeeded", "rejected"} : Record!Settle(Call(r), v)
    BY <1>4, <2>1 DEF Adopt, Decline, Record!Settle, Opened
  <2>3. QED
    BY <2>1, <2>2 DEF Record!Next, Verdicts
<1>5. ASSUME NEW c \in Calls, ProjectStarted(c) PROVE Record!Next
  <2>1. started[c] = "pending" /\ log[c] = "none"
    BY <1>5 DEF ProjectStarted, CallsInv, RecordFits
  <2>2. {d \in Calls : started'[d] # "none"} = {d \in Calls : started[d] # "none"}
    BY <1>5, <2>1 DEF ProjectStarted, CallsInv, TypeOK
  <2>3. Record!Show(c)
    BY <1>5, <2>1, <2>2 DEF ProjectStarted, Record!Show
  <2>4. QED
    BY <2>3 DEF Record!Next
<1>6. ASSUME NEW c \in Calls, ProjectCompleted(c) \/ Reconcile(c) PROVE Record!Next
  <2>1. Record!Show(c) \/ Record!WriteOff(c)
    BY <1>6 DEF ProjectCompleted, Reconcile, Record!Show, Record!WriteOff
  <2>2. QED
    BY <2>1 DEF Record!Next
<1>7. QED
  BY <1>1, <1>2, <1>3, <1>4, <1>5, <1>6
     DEF Next, vars, avars, Invoke, StartRun, EnterGate, TurnedAway, ReserveRefused, BackOut, Send,
         TooLateToSend, Fails, Answers, Abandon, Crash, DeadlinePasses, LeaseRunsOut

LEMMA RecordFitsKept ==
  ASSUME CallsInv, [Next]_vars
  PROVE  RecordFits'
<1>1. SUFFICES ASSUME NEW c \in Calls
               PROVE  /\ started'[c] # "published" => log'[c] = "none"
                      /\ completed'[c] # "none" => c \in Opened'
  BY DEF RecordFits
<1>2. /\ started[c] # "published" => log[c] = "none"
      /\ completed[c] # "none" => c \in Opened
  BY DEF CallsInv, RecordFits
<1>3. /\ started \in [Calls -> {"none", "pending", "published"}]
      /\ completed \in [Calls -> Verdicts \cup {"none"}]
      /\ log \in [Calls -> Verdicts \cup {"none", "pending"}]
      /\ c \in Opened <=> started[c] # "none"
  BY DEF CallsInv, TypeOK, Opened
<1>4. started'[c] # "published" => log'[c] = "none"
  <2>1. ASSUME NEW d \in Calls, ProjectStarted(d) \/ ProjectCompleted(d) \/ Reconcile(d)
        PROVE  started'[c] # "published" => log'[c] = "none"
    <3>1. log[d] = "pending" => started[d] = "published"
      BY DEF CallsInv, RecordFits
    <3>2. QED
      BY <1>2, <1>3, <2>1, <3>1 DEF ProjectStarted, ProjectCompleted, Reconcile
  <2>2. ASSUME NEW r \in Runs, Reserve(r) \/ ReserveUnknown(r)
        PROVE  started'[c] # "published" => log'[c] = "none"
    BY <1>2, <1>3, <2>2 DEF Reserve, ReserveUnknown
  <2>3. CASE UNCHANGED <<started, log>>
    BY <1>2, <2>3
  <2>4. QED
    BY <2>1, <2>2, <2>3
       DEF Next, vars, avars, Invoke, StartRun, EnterGate, TurnedAway, ReserveRefused, BackOut,
           Send, TooLateToSend, Fails, Answers, Complete, CompleteUnknown, Adopt, Decline, Abandon,
           Crash, DeadlinePasses, LeaseRunsOut
<1>5. ASSUME completed'[c] # "none" PROVE c \in Opened'
  <2>1. CASE completed[c] # "none"
    BY <1>2, <2>1, OpenedGrows
  <2>2. CASE completed[c] = "none"
    <3>1. ASSUME NEW r \in Runs,
                 Complete(r) \/ CompleteUnknown(r) \/ Adopt(r) \/ Decline(r)
          PROVE  c \in Opened
      <4>1. Call(r) \in Opened
        BY <3>1 DEF Complete, CompleteUnknown, Adopt, Decline, CallsInv, InHandIsReserved, InHand
      <4>2. c = Call(r)
        BY <1>3, <1>5, <2>2, <3>1 DEF Complete, CompleteUnknown, Adopt, Decline
      <4>3. QED
        BY <4>1, <4>2
    <3>2. ASSUME NEW d \in Calls, Reconcile(d) PROVE c \in Opened
      <4>1. d \in Opened
        BY <3>2 DEF Reconcile, CallsInv, RecordFits, Opened
      <4>2. QED
        BY <1>3, <1>5, <2>2, <3>2, <4>1 DEF Reconcile
    <3>3. CASE UNCHANGED completed
      BY <1>5, <2>2, <3>3
    <3>4. QED
      BY <3>1, <3>2, <3>3, OpenedGrows
         DEF Next, vars, avars, Invoke, StartRun, EnterGate, TurnedAway, Reserve, ReserveRefused,
             ReserveUnknown, BackOut, Send, TooLateToSend, Fails, Answers, Abandon, Crash,
             DeadlinePasses, ProjectStarted, ProjectCompleted, LeaseRunsOut
  <2>3. QED
    BY <2>1, <2>2
<1>6. QED
  BY <1>4, <1>5

\* Output is used under the verdict "succeeded" and no other, and the log shows
\* nothing but the verdict of the call.
OutputIsBacked ==
  \A c \in Calls :
    /\ c \in adopted <=> completed[c] = "succeeded"
    /\ log[c] \in {"none", "pending", completed[c]}

\* A verdict that is there stays.
VerdictStays(c) == completed[c] # "none" => completed'[c] = completed[c]

LEMMA RecordKeeps ==
  ASSUME TypeOK, OutputIsBacked, [Record!Next]_(Record!vars)
  PROVE  OutputIsBacked' /\ \A c \in Calls : VerdictStays(c)
<1>1. /\ completed \in [Calls -> Verdicts \cup {"none"}]
      /\ log \in [Calls -> Verdicts \cup {"none", "pending"}]
  BY DEF TypeOK
<1>2. ASSUME NEW c \in Calls, Record!Open(c) \/ Record!Show(c)
      PROVE  OutputIsBacked' /\ \A d \in Calls : VerdictStays(d)
  <2>1. completed' = completed /\ adopted' = adopted
    BY <1>2 DEF Record!Open, Record!Show
  <2>2. \/ log' = log \/ log' = [log EXCEPT ![c] = "pending"]
        \/ log' = [log EXCEPT ![c] = completed[c]]
    BY <1>2 DEF Record!Open, Record!Show
  <2>3. ASSUME NEW d \in Calls PROVE log'[d] \in {"none", "pending", completed[d]}
    <3>1. log'[d] \in {log[d], "pending", completed[d]}
      BY <1>1, <2>2
    <3>2. QED
      BY <3>1 DEF OutputIsBacked
  <2>4. QED
    BY <2>1, <2>3 DEF OutputIsBacked, VerdictStays
<1>3. ASSUME NEW c \in Calls, Record!WriteOff(c)
      PROVE  OutputIsBacked' /\ \A d \in Calls : VerdictStays(d)
  BY <1>1, <1>3 DEF Record!WriteOff, OutputIsBacked, VerdictStays
<1>4. ASSUME NEW c \in Calls, NEW v \in Verdicts \ {"outcome_unknown"}, Record!Settle(c, v)
      PROVE  OutputIsBacked' /\ \A d \in Calls : VerdictStays(d)
  <2>1. completed[c] = "none" /\ completed' = [completed EXCEPT ![c] = v] /\ log' = log
    BY <1>4 DEF Record!Settle
  <2>2. adopted' = IF v = "succeeded" THEN adopted \cup {c} ELSE adopted
    BY <1>4 DEF Record!Settle
  <2>3. QED
    BY <1>1, <2>1, <2>2 DEF OutputIsBacked, VerdictStays, Verdicts
<1>5. CASE UNCHANGED Record!vars
  BY <1>5 DEF Record!vars, OutputIsBacked, VerdictStays
<1>6. QED
  BY <1>2, <1>3, <1>4, <1>5 DEF Record!Next

-----------------------------------------------------------------------------
(****************************** Theorems **********************************)

LEMMA InitFits ==
  ASSUME Init
  PROVE  CallsInv /\ OutputIsBacked
<1> USE DEF Init, RuntimeInit
<1>1. TypeOK
  BY DEF TypeOK, RuntimeTypeOK, RunState, NotRun
<1>2. GateInv
  BY <1>1, FS_EmptySet DEF GateInv, TypeOK, AdmissionBounds
<1>3. Opened = {}
  BY DEF Opened
<1>4. BudgetKept
  <2>1. ASSUME NEW o \in Operations PROVE Reserved(OpenedOf(o)) = 0
    BY <1>3, FS_EmptySet, ReservedUnfolds DEF OpenedOf
  <2>2. QED
    BY <2>1 DEF BudgetKept
<1>5. InHandIsReserved /\ NumbersInOrder /\ NumbersApart
  BY <1>3 DEF InHandIsReserved, InHand, NotRun, NumbersInOrder, NumbersApart
<1>6. QED
  BY <1>1, <1>2, <1>3, <1>4, <1>5, FS_EmptySet DEF CallsInv, RecordFits, OutputIsBacked

LEMMA InvKept ==
  ASSUME CallsInv, [Next]_vars
  PROVE  CallsInv'
<1>1. GateInv'
  BY StepsPassGate, GateKept DEF CallsInv
<1>2. QED
  BY <1>1, TypesKept, InHandKept, OrderKept, ApartKept, BudgetStaysKept, RecordFitsKept, SentKept,
     OpenedGrows DEF CallsInv

\* The inductive invariant holds: numbers in order and given once, the budget of
\* all that is reserved, verdicts only for reserved calls.
THEOREM CallsCorrect == Spec => []CallsInv
<1>1. Init => CallsInv
  BY InitFits
<1>2. CallsInv /\ [Next]_vars => CallsInv'
  BY InvKept
<1>3. QED
  BY <1>1, <1>2, PTL DEF Spec

\* The durable rows and the gate keep their types (ai_call_logs, the outbox, the
\* keys in Redis).
THEOREM CallsTyped == Spec => []TypeOK
<1>1. CallsInv => TypeOK
  BY DEF CallsInv
<1>2. QED
  BY <1>1, CallsCorrect, PTL

\* What went out was reserved before, the operation stays within its budget over
\* all its runs, and the gate holds (reserve_attempt; redis_runtime_control).
THEOREM LimitsHold == Spec => []WithinLimits
<1>1. ASSUME CallsInv PROVE WithinLimits
  <2>1. AdmissionBounds /\ \A c \in sent : started[c] # "none"
    BY <1>1 DEF CallsInv, GateInv, Opened
  <2>2. ASSUME NEW o \in Operations
        PROVE  Reserved({c \in sent : OpOf(c) = o}) <= MaxTotal
    <3>1. PICK S : S = OpenedOf(o)
      OBVIOUS
    <3>2. PICK T : T = {c \in sent : OpOf(c) = o}
      OBVIOUS
    <3>3. S \in SUBSET Calls /\ T \in SUBSET S /\ T \in SUBSET Calls
      BY <1>1, <3>1, <3>2 DEF CallsInv, OpenedOf, Opened
    <3>4. IsFiniteSet(S)
      BY <1>1, <3>1, FS_Subset DEF CallsInv, OpenedOf
    <3>5. IsFiniteSet(T)
      BY <3>3, <3>4, FS_Subset
    <3>6. Reserved(S) \in Nat /\ Reserved(T) \in Nat /\ Reserved(T) <= Reserved(S)
      BY <3>3, <3>4, <3>5, ReservedType, ReservedGrows
    <3>7. Reserved(S) <= MaxTotal
      BY <1>1, <3>1 DEF CallsInv, BudgetKept
    <3>8. Reserved(T) <= MaxTotal
      BY <3>6, <3>7
    <3>9. QED
      BY <3>2, <3>8
  <2>3. QED
    BY <2>1, <2>2 DEF WithinLimits
<1>2. QED
  BY <1>1, CallsCorrect, PTL

\* The first number of an operation is given once, and no run sends a later
\* number without it (attempt numbers of reserve_attempt).
THEOREM OneRunCallsCorrect == Spec => []OneRunCalls
<1>1. ASSUME CallsInv PROVE OneRunCalls
  <2>1. ASSUME NEW c \in sent PROVE c \in Calls /\ <<c[1], 1>> \in Opened
    <3>1. c \in Opened /\ c \in Calls
      BY <1>1 DEF CallsInv, Opened
    <3>2. c[1] \in Runs /\ c[2] \in 1..Repairs + 1 /\ c = <<c[1], c[2]>>
      BY <3>1
    <3>3. run[c[1]].no \in 1..Repairs + 1 /\ 1 \in 1..Repairs + 1
      BY <1>1, <3>2, CallType DEF CallsInv
    <3>4. CASE c[2] = 1
      BY <3>1, <3>2, <3>4
    <3>5. CASE c[2] # 1
      <4>1. c[2] <= run[c[1]].no
        BY <1>1, <3>1, <3>2 DEF CallsInv, NumbersInOrder
      <4>2. 1 < run[c[1]].no
        BY <3>2, <3>3, <3>5, <4>1
      <4>3. QED
        BY <1>1, <3>1, <3>2, <3>3, <4>2 DEF CallsInv, NumbersInOrder
    <3>6. QED
      BY <3>4, <3>5
  <2>2. ASSUME NEW c \in sent, NEW d \in sent,
               c[1][1] = d[1][1], c[1][1] \notin Embeddings
        PROVE  c[1] = d[1]
    <3>1. <<c[1], 1>> \in Opened /\ <<d[1], 1>> \in Opened
      BY <2>1
    <3>2. OpOf(<<c[1], 1>>) = OpOf(<<d[1], 1>>)
      BY <2>2 DEF OpOf, Operation
    <3>3. <<c[1], 1>> = <<d[1], 1>>
      BY <1>1, <3>1, <3>2 DEF CallsInv, NumbersApart
    <3>4. QED
      BY <3>3
  <2>3. QED
    BY <2>2 DEF OneRunCalls
<1>2. QED
  BY <1>1, CallsCorrect, PTL

\* No late answer of an older call closes an open breaker (finish script).
THEOREM BreakerClosedByProbe == Spec => OnlyProbeCloses
<1>1. ASSUME CallsInv, [Next]_vars
      PROVE  [breaker = "open" /\ breaker' = "closed"
                => probe # NoCall /\ probe' = NoCall]_rvars
  BY <1>1, StepsPassGate, ClosingIsProbed DEF CallsInv
<1>2. QED
  BY <1>1, CallsCorrect, PTL DEF Spec, OnlyProbeCloses

\* Runs, crashes, lost replies, projection and reconciliation write the record of a
\* call only as AiCallRecord allows (trigger enforce_ai_call_logs_runtime_v2).
THEOREM RefinesCallRecord == Spec => ImplementsCallRecord
<1>1. Init => Record!Init
  BY DEF Init, Record!Init
<1>2. CallsInv /\ [Next]_vars => [Record!Next]_(Record!vars)
  BY RecordStep
<1>3. QED
  BY <1>1, <1>2, CallsCorrect, PTL DEF Spec, ImplementsCallRecord, Record!Spec

\* Business facts rest on output whose call has the verdict "succeeded", and the
\* log shows no other verdict than the event (adopt_in_transaction, project_next).
THEOREM AdoptedOutputIsBacked == Spec => []OutputIsBacked
<1>1. Init => OutputIsBacked
  BY InitFits
<1>2. CallsInv /\ OutputIsBacked /\ [Next]_vars => OutputIsBacked'
  BY RecordStep, RecordKeeps DEF CallsInv
<1>3. QED
  BY <1>1, <1>2, CallsCorrect, PTL DEF Spec

\* A verdict, once written, is never replaced, by a late completion, a repeated
\* one or a reconciliation (append_completion).
THEOREM VerdictsAreFinal == Spec => [][\A c \in Calls : VerdictStays(c)]_vars
<1>1. CallsInv /\ OutputIsBacked /\ [Next]_vars => \A c \in Calls : VerdictStays(c)
  BY RecordStep, RecordKeeps DEF CallsInv
<1>2. QED
  BY <1>1, CallsCorrect, AdoptedOutputIsBacked, PTL DEF Spec
=============================================================================
