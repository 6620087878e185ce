------------------------- MODULE ExposureGateProofs -------------------------
(* Proofs about ExposureGate, for every set of orders, every volume, every   *)
(* cap and every set of faults.                                              *)
EXTENDS ExposureGate, FiniteSetTheorems, TLAPS

(* The units of an order are finite in number, its volume. *)
LEMMA UnitsOfOne ==
    ASSUME NEW o \in Orders
    PROVE  /\ IsFiniteSet({o} \X (1..Volume[o]))
           /\ Cardinality({o} \X (1..Volume[o])) = Volume[o]
  <1> DEFINE n == Volume[o]
  <1>1. n \in Nat /\ n > 0
    BY VolumePositive
  <1> HIDE DEF n
  <1>2. IsFiniteSet(1..n) /\ Cardinality(1..n) = IF 1 > n THEN 0 ELSE n - 1 + 1
    BY <1>1, FS_Interval
  <1>3. IsFiniteSet({o}) /\ Cardinality({o}) = 1
    BY FS_Singleton
  <1>4. /\ IsFiniteSet({o} \X (1..n))
        /\ Cardinality({o} \X (1..n)) = Cardinality({o}) * Cardinality(1..n)
    BY <1>2, <1>3, FS_Product, Zenon
  <1>5. Cardinality(1..n) = n
    BY <1>1, <1>2
  <1>6. Cardinality({o} \X (1..n)) = n
    BY <1>1, <1>3, <1>4, <1>5
  <1> QED
    BY <1>4, <1>6 DEF n

(* Lots is defined on every set of orders. *)
LEMMA LotsType ==
    ASSUME NEW S \in SUBSET Orders
    PROVE  IsFiniteSet(Units(S)) /\ Lots(S) \in Nat
  <1> DEFINE Family == {{o} \X (1..Volume[o]) : o \in S}
  <1> DEFINE f == [o \in S |-> {o} \X (1..Volume[o])]
  <1>1. IsFiniteSet(S)
    BY OrdersFinite, FS_Subset
  <1>2. f \in Surjection(S, Family)
    BY DEF Surjection
  <1>3. IsFiniteSet(Family)
    BY <1>1, <1>2, FS_Surjection
  <1>4. \A T \in Family : IsFiniteSet(T)
    BY UnitsOfOne
  <1>5. IsFiniteSet(UNION Family)
    BY <1>3, <1>4, FS_UNION
  <1> QED
    BY <1>5, FS_CardinalityType DEF Units, Lots

(* Lots of disjoint sets add up. *)
LEMMA LotsUnion ==
    ASSUME NEW S \in SUBSET Orders, NEW T \in SUBSET Orders, S \cap T = {}
    PROVE  Lots(S \cup T) = Lots(S) + Lots(T)
  <1>1. IsFiniteSet(Units(S)) /\ IsFiniteSet(Units(T)) /\ Lots(S) \in Nat /\ Lots(T) \in Nat
    BY LotsType
  <1>2. Units(S \cup T) = Units(S) \cup Units(T)
    BY DEF Units
  <1>3. Units(S) \cap Units(T) = {}
    BY DEF Units
  <1>4. Cardinality(Units(S) \cap Units(T)) = 0
    BY <1>3, FS_EmptySet
  <1>5. Cardinality(Units(S) \cup Units(T)) =
          Cardinality(Units(S)) + Cardinality(Units(T)) - Cardinality(Units(S) \cap Units(T))
    BY <1>1, FS_Union, Zenon
  <1>6. Lots(S \cup T) = Lots(S) + Lots(T) - 0
    BY <1>2, <1>4, <1>5 DEF Lots
  <1> QED
    BY <1>1, <1>6

(* Lots of one order. *)
LEMMA LotsOne ==
    ASSUME NEW o \in Orders
    PROVE  Lots({o}) = Volume[o]
  <1>1. Units({o}) = {o} \X (1..Volume[o])
    BY DEF Units
  <1> QED
    BY <1>1, UnitsOfOne DEF Lots

(* Adding one order. *)
LEMMA LotsAdd ==
    ASSUME NEW S \in SUBSET Orders, NEW o \in Orders \ S
    PROVE  Lots(S \cup {o}) = Lots(S) + Volume[o]
  BY LotsUnion, LotsOne

(* Removing one order. *)
LEMMA LotsRemove ==
    ASSUME NEW S \in SUBSET Orders, NEW o \in S
    PROVE  Lots(S \ {o}) = Lots(S) - Volume[o]
  <1>1. Lots((S \ {o}) \cup {o}) = Lots(S \ {o}) + Volume[o]
    BY LotsAdd
  <1>2. (S \ {o}) \cup {o} = S
    OBVIOUS
  <1>3. Lots(S \ {o}) \in Nat /\ Lots(S) \in Nat /\ Volume[o] \in Nat
    BY LotsType, VolumePositive
  <1> QED
    BY <1>1, <1>2, <1>3

(* Lots grow with the set. *)
LEMMA LotsMonotone ==
    ASSUME NEW S \in SUBSET Orders, NEW T \in SUBSET S
    PROVE  Lots(T) <= Lots(S)
  <1>1. T \in SUBSET Orders /\ S \ T \in SUBSET Orders
    OBVIOUS
  <1>2. T \cup (S \ T) = S /\ T \cap (S \ T) = {}
    OBVIOUS
  <1>3. Lots(S) = Lots(T) + Lots(S \ T)
    BY <1>1, <1>2, LotsUnion
  <1> QED
    BY <1>1, <1>3, LotsType

(* No orders, no lots. *)
LEMMA LotsEmpty == Lots({}) = 0
  <1>1. Units({}) = {}
    BY DEF Units
  <1> QED
    BY <1>1, FS_EmptySet DEF Lots
-----------------------------------------------------------------------------
(* The realized position is a number of lots. *)
LEMMA RealizedType ==
    ASSUME TypeOK
    PROVE  Realized \in Nat /\ LotsSeen \subseteq Nat
  BY LotsType DEF TypeOK, Realized, LotsSeen

(* Type correctness is preserved by every step. *)
LEMMA TypeStep ==
    ASSUME TypeOK, [Next]_vars
    PROVE  TypeOK'
  <1> USE VolumePositive, MaxLotsNat DEF TypeOK, Awaits, Outcomes, MT5Status
  <1>1. ASSUME NEW o \in Orders, Validate(o) PROVE TypeOK'
    <2>1. PICK lots \in Nat : cap' = [cap EXCEPT ![o] = MaxLots - lots]
      BY RealizedType, <1>1 DEF Validate
    <2> QED
      BY <2>1, <1>1 DEF Validate, Goto
  <1>2. ASSUME NEW o \in Orders, RuleBlocks(o) PROVE TypeOK'
    BY <1>2 DEF RuleBlocks, Finish, Goto
  <1>3. ASSUME NEW o \in Orders, ValidateUngated(o) PROVE TypeOK'
    BY <1>3 DEF ValidateUngated, Goto
  <1>4. ASSUME NEW o \in Orders, Reserve(o) PROVE TypeOK'
    BY <1>4 DEF Reserve, Goto
  <1>5. ASSUME NEW o \in Orders, ReserveRejected(o) PROVE TypeOK'
    BY <1>5 DEF ReserveRejected, Finish, Goto
  <1>6. ASSUME NEW o \in Orders, ReserveRaises(o) PROVE TypeOK'
    BY <1>6 DEF ReserveRaises, Goto
  <1>7. ASSUME NEW o \in Orders, ReserveCancelled(o) PROVE TypeOK'
    BY <1>7 DEF ReserveCancelled, Finish, Goto
  <1>8. ASSUME NEW o \in Orders, Send(o) PROVE TypeOK'
    BY <1>8 DEF Send, Goto
  <1>9. ASSUME NEW o \in Orders, SendRaises(o) PROVE TypeOK'
    BY <1>9 DEF SendRaises, Unwind, Goto
  <1>10. ASSUME NEW o \in Orders, ResultArrives(o) PROVE TypeOK'
    BY <1>10 DEF ResultArrives, Answered, Goto
  <1>11. ASSUME NEW o \in Orders, LateResult(o) PROVE TypeOK'
    BY <1>11 DEF LateResult
  <1>12. ASSUME NEW o \in Orders, Timeout(o) PROVE TypeOK'
    BY <1>12 DEF Timeout, Abandon, InFlight, Unwind, Goto
  <1>13. ASSUME NEW o \in Orders, WaitCancelled(o) PROVE TypeOK'
    BY <1>13 DEF WaitCancelled, Abandon, InFlight, Unwind, Goto
  <1>14. ASSUME NEW o \in Orders, NotFilled(o) PROVE TypeOK'
    BY <1>14 DEF NotFilled, Goto
  <1>15. ASSUME NEW o \in Orders, BookFill(o) PROVE TypeOK'
    BY <1>15 DEF BookFill, Goto
  <1>16. ASSUME NEW o \in Orders, FirstFill(o) PROVE TypeOK'
    BY <1>16 DEF FirstFill, Goto
  <1>17. ASSUME NEW o \in Orders, CreateTracker(o) PROVE TypeOK'
    BY <1>17 DEF CreateTracker, Goto
  <1>18. ASSUME NEW o \in Orders, Persist(o) PROVE TypeOK'
    BY <1>18 DEF Persist, Goto
  <1>19. ASSUME NEW o \in Orders, BookingRaises(o) PROVE TypeOK'
    BY <1>19 DEF BookingRaises, Unwind, Goto
  <1>20. ASSUME NEW o \in Orders, Release(o) PROVE TypeOK'
    BY <1>20 DEF Release, AfterRelease, Goto
  <1>21. ASSUME NEW o \in Orders, ReleaseRaises(o) PROVE TypeOK'
    BY <1>21 DEF ReleaseRaises, AfterRelease, Goto
  <1>22. ASSUME NEW o \in Orders, NEW status \in Answered, MT5Answers(o, status) PROVE TypeOK'
    BY <1>22 DEF MT5Answers, Answered
  <1>23. CASE Expire
    BY <1>23 DEF Expire
  <1>24. CASE Crash
    BY <1>24 DEF Crash, InFlight, Held
  <1>25. CASE Idle
    BY <1>25 DEF Idle, vars
  <1>26. CASE UNCHANGED vars
    BY <1>26 DEF vars
  <1> QED
    BY <1>1, <1>2, <1>3, <1>4, <1>5, <1>6, <1>7, <1>8, <1>9, <1>10, <1>11, <1>12, <1>13, <1>14, <1>15, <1>16, <1>17, <1>18, <1>19, <1>20, <1>21, <1>22, <1>23, <1>24, <1>25, <1>26 DEF Next, Coroutine

(* So is the account of where orders are and what covers them. *)
LEMMA CoroutineStep ==
    ASSUME TypeOK, CoroutineInv, [Next]_vars
    PROVE  CoroutineInv'
  <1> USE MaxLotsNat DEF TypeOK, CoroutineInv
  <1>1. ASSUME NEW o \in Orders, Validate(o) PROVE CoroutineInv'
    <2>1. PICK lots \in Nat : cap' = [cap EXCEPT ![o] = MaxLots - lots]
      BY RealizedType, <1>1 DEF Validate
    <2> QED
      BY <2>1, <1>1 DEF Validate, Goto
  <1>2. ASSUME NEW o \in Orders, RuleBlocks(o) PROVE CoroutineInv'
    BY <1>2 DEF RuleBlocks, Finish, Goto
  <1>3. ASSUME NEW o \in Orders, ValidateUngated(o) PROVE CoroutineInv'
    BY <1>3 DEF ValidateUngated, Goto
  <1>4. ASSUME NEW o \in Orders, Reserve(o) PROVE CoroutineInv'
    BY <1>4 DEF Reserve, Goto
  <1>5. ASSUME NEW o \in Orders, ReserveRejected(o) PROVE CoroutineInv'
    BY <1>5 DEF ReserveRejected, Finish, Goto
  <1>6. ASSUME NEW o \in Orders, ReserveRaises(o) PROVE CoroutineInv'
    BY <1>6 DEF ReserveRaises, Goto
  <1>7. ASSUME NEW o \in Orders, ReserveCancelled(o) PROVE CoroutineInv'
    BY <1>7 DEF ReserveCancelled, Finish, Goto
  <1>8. ASSUME NEW o \in Orders, Send(o) PROVE CoroutineInv'
    BY <1>8 DEF Send, Goto
  <1>9. ASSUME NEW o \in Orders, SendRaises(o) PROVE CoroutineInv'
    BY <1>9 DEF SendRaises, Unwind, Goto
  <1>10. ASSUME NEW o \in Orders, ResultArrives(o) PROVE CoroutineInv'
    BY <1>10 DEF ResultArrives, Answered, Goto
  <1>11. ASSUME NEW o \in Orders, LateResult(o) PROVE CoroutineInv'
    BY <1>11 DEF LateResult
  <1>12. ASSUME NEW o \in Orders, Timeout(o) PROVE CoroutineInv'
    BY <1>12 DEF Timeout, Abandon, InFlight, Unwind, Goto
  <1>13. ASSUME NEW o \in Orders, WaitCancelled(o) PROVE CoroutineInv'
    BY <1>13 DEF WaitCancelled, Abandon, InFlight, Unwind, Goto
  <1>14. ASSUME NEW o \in Orders, NotFilled(o) PROVE CoroutineInv'
    BY <1>14 DEF NotFilled, Goto
  <1>15. ASSUME NEW o \in Orders, BookFill(o) PROVE CoroutineInv'
    BY <1>15 DEF BookFill, Goto
  <1>16. ASSUME NEW o \in Orders, FirstFill(o) PROVE CoroutineInv'
    BY <1>16 DEF FirstFill, Goto
  <1>17. ASSUME NEW o \in Orders, CreateTracker(o) PROVE CoroutineInv'
    BY <1>17 DEF CreateTracker, Goto
  <1>18. ASSUME NEW o \in Orders, Persist(o) PROVE CoroutineInv'
    BY <1>18 DEF Persist, Goto
  <1>19. ASSUME NEW o \in Orders, BookingRaises(o) PROVE CoroutineInv'
    BY <1>19 DEF BookingRaises, Unwind, Goto
  <1>20. ASSUME NEW o \in Orders, Release(o) PROVE CoroutineInv'
    BY <1>20 DEF Release, Goto
  <1>21. ASSUME NEW o \in Orders, ReleaseRaises(o) PROVE CoroutineInv'
    BY <1>21 DEF ReleaseRaises, Goto
  <1>22. ASSUME NEW o \in Orders, NEW status \in Answered, MT5Answers(o, status)
         PROVE CoroutineInv'
    BY <1>22 DEF MT5Answers, Answered
  <1>23. CASE Expire
    BY <1>23 DEF Expire
  <1>24. CASE Crash
    BY <1>24 DEF Crash, InFlight, Held
  <1>25. CASE Idle
    BY <1>25 DEF Idle, vars
  <1>26. CASE UNCHANGED vars
    BY <1>26 DEF vars
  <1> QED
    BY <1>1, <1>2, <1>3, <1>4, <1>5, <1>6, <1>7, <1>8, <1>9, <1>10, <1>11, <1>12, <1>13, <1>14, <1>15, <1>16, <1>17, <1>18, <1>19, <1>20, <1>21, <1>22, <1>23, <1>24, <1>25, <1>26 DEF Next, Coroutine

(* The exposure the gate accounted for does not grow when nothing is added   *)
(* to what is held, or open and guarded.                                     *)
LEMMA ExposureFrame ==
    ASSUME GateInv, TypeOK',
           (Held' \cup Opened') \ unguarded' \subseteq (Held \cup Opened) \ unguarded
    PROVE  GatedExposure'
  <1>1. (Held \cup Opened) \ unguarded \in SUBSET Orders
    BY DEF Held, Opened
  <1>2. (Held' \cup Opened') \ unguarded' \in SUBSET ((Held \cup Opened) \ unguarded)
    OBVIOUS
  <1>3. Lots((Held' \cup Opened') \ unguarded') <= Lots((Held \cup Opened) \ unguarded)
    BY <1>1, <1>2, LotsMonotone
  <1>4. /\ Lots((Held \cup Opened) \ unguarded) \in Nat
        /\ Lots((Held' \cup Opened') \ unguarded') \in Nat
    BY <1>1, <1>2, LotsType
  <1>5. Lots((Held' \cup Opened') \ unguarded') <= MaxLots
    BY <1>3, <1>4, MaxLotsNat DEF GateInv, GatedExposure
  <1> QED
    BY <1>5 DEF GatedExposure, Lots, Units

(* A step that leaves the counter, and what it counts, as they are and opens *)
(* nothing at MT5 that was neither reserved nor unguarded.                   *)
LEMMA Frame ==
    ASSUME GateInv, TypeOK',
           reserved' = reserved,
           Held' \cup leaked' = Held \cup leaked,
           (Held' \cup Opened') \ unguarded' \subseteq (Held \cup Opened) \ unguarded
    PROVE  CounterCapped' /\ CounterExact' /\ GatedExposure'
  <1>1. CounterCapped'
    BY DEF GateInv, CounterCapped
  <1>2. CounterExact'
    <2>1. reserved' = Lots(Held' \cup leaked')
      BY DEF GateInv, CounterExact
    <2> QED
      BY <2>1 DEF CounterExact, Lots, Units
  <1> QED
    BY <1>1, <1>2, ExposureFrame

(* An exact counter covers the reservations that are held. *)
LEMMA ExactCovers ==
    ASSUME TypeOK, CounterExact
    PROVE  HeldCovered
  <1>1. Held \cup leaked \in SUBSET Orders /\ Held \in SUBSET (Held \cup leaked)
    BY DEF Held, TypeOK
  <1> QED
    BY <1>1, LotsMonotone DEF CounterExact, HeldCovered

(* The script ran but its caller does not know: the lots are leaked.         *)
LEMMA LostReplyStep ==
    ASSUME GateInv, TypeOK', NEW o \in Orders,
           pc[o] = "reserving", Fits(o),
           reserved' = reserved + Volume[o], leaked' = leaked \cup {o}, held' = held,
           (Held' \cup Opened') \ unguarded' \subseteq (Held \cup Opened) \ unguarded
    PROVE  CounterCapped' /\ CounterExact' /\ GatedExposure'
  <1> USE MaxLotsNat, VolumePositive
  <1>1. /\ cap[o] \in Int /\ cap[o] <= MaxLots /\ reserved \in Nat /\ Volume[o] \in Nat
        /\ o \notin Held \cup leaked /\ Held \cup leaked \in SUBSET Orders
    BY DEF GateInv, CoroutineInv, TypeOK, Held
  <1>2. CounterCapped'
    BY <1>1 DEF Fits, CounterCapped
  <1>3. Held' \cup leaked' = (Held \cup leaked) \cup {o}
    BY DEF Held
  <1>4. Lots((Held \cup leaked) \cup {o}) = Lots(Held \cup leaked) + Volume[o]
    BY <1>1, LotsAdd
  <1>5. reserved' = Lots(Held' \cup leaked')
    BY <1>3, <1>4 DEF GateInv, CounterExact
  <1>6. CounterExact'
    BY <1>5 DEF CounterExact, Lots, Units
  <1> QED
    BY <1>2, <1>6, ExposureFrame

(* Granting a reservation.  The counter covers what is held, and unless the  *)
(* snapshot understated the open lots the cap covers what is not.            *)
LEMMA ReserveStep ==
    ASSUME GateInv, TypeOK', NEW o \in Orders, Reserve(o)
    PROVE  CounterCapped' /\ CounterExact' /\ GatedExposure'
  <1> USE MaxLotsNat, VolumePositive
  <1>1. /\ pc[o] = "reserving" /\ ~held[o] /\ mt5[o] = "idle"
        /\ cap[o] \in Int /\ cap[o] <= MaxLots
        /\ reserved \in Nat /\ Volume[o] \in Nat
    BY DEF Reserve, GateInv, CoroutineInv, TypeOK
  <1>2. reserved' = reserved + Volume[o] /\ reserved' <= cap[o]
    BY DEF Reserve, Fits
  <1>3. Held' = Held \cup {o} /\ o \in Orders \ Held /\ Held \in SUBSET Orders
    BY <1>1 DEF Reserve, Held, GateInv, TypeOK
  <1>4. Opened' = Opened /\ o \notin Opened /\ Opened \in SUBSET Orders
    BY <1>1 DEF Reserve, Opened
  <1>5. Lots(Held') = Lots(Held) + Volume[o]
    BY <1>3, LotsAdd
  <1>6. Lots(Held) \in Nat /\ Lots(Held) <= reserved
    BY <1>3, LotsType, ExactCovers DEF GateInv, HeldCovered
  <1>7. CounterCapped'
    BY <1>1, <1>2 DEF CounterCapped
  <1>8. CounterExact'
    <2>1. o \in Orders \ (Held \cup leaked) /\ Held \cup leaked \in SUBSET Orders
      BY <1>1, <1>3 DEF GateInv, CoroutineInv, TypeOK
    <2>2. Held' \cup leaked' = (Held \cup leaked) \cup {o}
      BY <1>3 DEF Reserve
    <2>3. Lots((Held \cup leaked) \cup {o}) = Lots(Held \cup leaked) + Volume[o]
      BY <2>1, LotsAdd
    <2>4. reserved' = Lots(Held' \cup leaked')
      BY <1>2, <2>2, <2>3 DEF GateInv, CounterExact
    <2> QED
      BY <2>4 DEF CounterExact, Lots, Units
  <1>9. GatedExposure'
    <2> DEFINE Counted == (Held' \cup Opened') \ unguarded'
    <2>1. CASE Understated(o)
      <3>1. Counted \in SUBSET ((Held \cup Opened) \ unguarded)
        BY <1>3, <1>4, <2>1 DEF Reserve
      <3>2. Counted \in SUBSET Orders /\ (Held \cup Opened) \ unguarded \in SUBSET Orders
        BY <1>3, <1>4
      <3>3. Lots(Counted) <= Lots((Held \cup Opened) \ unguarded)
        BY <3>1, <3>2, LotsMonotone
      <3>4. Lots(Counted) \in Nat /\ Lots((Held \cup Opened) \ unguarded) \in Nat
        BY <3>2, LotsType
      <3>5. Lots(Counted) <= MaxLots
        BY <3>3, <3>4 DEF GateInv, GatedExposure
      <3> QED
        BY <3>5 DEF GatedExposure, Lots, Units
    <2>2. CASE ~Understated(o)
      <3> DEFINE Rest == Opened \ Held
      <3>1. Rest \in SUBSET Orders /\ Held' \in SUBSET Orders /\ Rest \cap Held' = {}
        BY <1>3, <1>4
      <3>2. Lots(Rest \cup Held') = Lots(Rest) + Lots(Held')
        BY <3>1, LotsUnion
      <3>3. Lots(Rest) \in Nat /\ Lots(Held') \in Nat
        BY <3>1, LotsType
      <3>4. cap[o] <= MaxLots - Lots(Rest)
        BY <1>1, <2>2, <3>3 DEF Understated
      <3>5. Lots(Rest \cup Held') <= MaxLots
        BY <1>1, <1>2, <1>5, <1>6, <3>2, <3>3, <3>4
      <3>6. Counted \in SUBSET (Rest \cup Held') /\ Rest \cup Held' \in SUBSET Orders
        BY <1>3, <1>4, <3>1
      <3>7. Lots(Counted) <= Lots(Rest \cup Held')
        BY <3>6, LotsMonotone
      <3>8. Lots(Counted) \in Nat /\ Lots(Rest \cup Held') \in Nat
        BY <3>6, LotsType
      <3>9. Lots(Counted) <= MaxLots
        BY <3>5, <3>7, <3>8
      <3> QED
        BY <3>9 DEF GatedExposure, Lots, Units
    <2> QED
      BY <2>1, <2>2
  <1> QED
    BY <1>7, <1>8, <1>9

(* Giving a reservation back, whether or not the script ran on the server.   *)
LEMMA ReleaseStep ==
    ASSUME GateInv, TypeOK', NEW o \in Orders, Release(o) \/ ReleaseRaises(o)
    PROVE  CounterCapped' /\ CounterExact' /\ GatedExposure'
  <1> USE MaxLotsNat, VolumePositive
  <1>1. /\ reserved \in Nat /\ reserved' \in Nat /\ Volume[o] \in Nat
        /\ reserved <= MaxLots
    BY DEF GateInv, TypeOK, CounterCapped
  <1>2. Held' = Held \ {o} /\ Held \in SUBSET Orders
    BY DEF Release, ReleaseRaises, Held, GateInv, TypeOK
  <1>3. Opened' = Opened /\ unguarded' = unguarded /\ Opened \in SUBSET Orders
    BY DEF Release, ReleaseRaises, Opened
  <1>4. reserved' <= reserved
    BY <1>1 DEF Release, ReleaseRaises, AfterRelease
  <1>5. CounterCapped'
    BY <1>1, <1>4 DEF CounterCapped
  <1>6. Held \cup leaked \in SUBSET Orders /\ reserved = Lots(Held \cup leaked)
    BY <1>2 DEF GateInv, TypeOK, CounterExact
  <1>7. reserved' = Lots(Held' \cup leaked')
    <2>1. CASE reserved' = reserved
      <3>1. Held' \cup leaked' = Held \cup leaked
        <4>1. CASE held[o] /\ ReleaseRaises(o) /\ leaked' = leaked \cup {o}
          BY <1>2, <4>1 DEF Held
        <4>2. CASE ~held[o]
          BY <1>2, <4>2 DEF Held, Release, ReleaseRaises
        <4>3. CASE held[o] /\ reserved' = AfterRelease(o)
          <5>1. Volume[o] > 0
            BY VolumePositive
          <5>2. reserved = 0
            BY <1>1, <2>1, <4>3, <5>1 DEF AfterRelease
          <5>3. {o} \in SUBSET (Held \cup leaked)
            BY <4>3 DEF Held
          <5>4. Lots({o}) <= Lots(Held \cup leaked) /\ Lots({o}) = Volume[o]
            BY <1>6, <5>3, LotsMonotone, LotsOne
          <5> QED
            BY <1>1, <1>6, <5>1, <5>2, <5>4
        <4> QED
          BY <4>1, <4>2, <4>3 DEF Release, ReleaseRaises
      <3> QED
        BY <1>6, <2>1, <3>1
    <2>2. CASE reserved' # reserved
      <3>1. held[o] /\ reserved' = AfterRelease(o) /\ leaked' = leaked
        BY <2>2 DEF Release, ReleaseRaises
      <3>2. o \in Held /\ o \notin leaked
        BY <3>1 DEF Held, GateInv, CoroutineInv
      <3>3. Held' \cup leaked' = (Held \cup leaked) \ {o}
        BY <1>2, <3>1, <3>2
      <3>4. Lots((Held \cup leaked) \ {o}) = Lots(Held \cup leaked) - Volume[o]
        BY <1>6, <3>2, LotsRemove
      <3>5. {o} \in SUBSET (Held \cup leaked)
        BY <3>2
      <3>6. Volume[o] <= reserved
        BY <1>6, <3>5, LotsMonotone, LotsOne
      <3> QED
        BY <1>1, <1>6, <3>1, <3>3, <3>4, <3>6 DEF AfterRelease
    <2> QED
      BY <2>1, <2>2
  <1>8. CounterExact'
    BY <1>7 DEF CounterExact, Lots, Units
  <1>9. GatedExposure'
    <2>1. (Held' \cup Opened') \ unguarded' \in SUBSET ((Held \cup Opened) \ unguarded)
      BY <1>2, <1>3
    <2>2. (Held \cup Opened) \ unguarded \in SUBSET Orders
      BY <1>2, <1>3
    <2>3. Lots((Held' \cup Opened') \ unguarded') <= Lots((Held \cup Opened) \ unguarded)
      BY <2>1, <2>2, LotsMonotone
    <2>4. /\ Lots((Held \cup Opened) \ unguarded) \in Nat
          /\ Lots((Held' \cup Opened') \ unguarded') \in Nat
      BY <2>1, <2>2, LotsType
    <2>5. Lots((Held' \cup Opened') \ unguarded') <= MaxLots
      BY <2>3, <2>4 DEF GateInv, GatedExposure
    <2> QED
      BY <2>5 DEF GatedExposure, Lots, Units
  <1> QED
    BY <1>5, <1>8, <1>9

(* The key expires only when no reservation relies on it. *)
LEMMA ExpireStep ==
    ASSUME GateInv, TypeOK', Expire
    PROVE  CounterCapped' /\ CounterExact' /\ GatedExposure'
  <1>1. reserved' = 0 /\ Held' = {} /\ leaked' = {} /\ Opened' = Opened /\ unguarded' = unguarded
    BY DEF Expire, Held, Opened
  <1>2. CounterCapped'
    BY <1>1, MaxLotsNat DEF CounterCapped
  <1>3. reserved' = Lots(Held' \cup leaked')
    BY <1>1, LotsEmpty
  <1>4. CounterExact'
    BY <1>3 DEF CounterExact, Lots, Units
  <1>5. (Held' \cup Opened') \ unguarded' \subseteq (Held \cup Opened) \ unguarded
    BY <1>1
  <1>6. GatedExposure'
    BY <1>5, ExposureFrame
  <1> QED
    BY <1>2, <1>4, <1>6

(* The inductive step, one case per action. *)
LEMMA GateInvStep ==
    ASSUME GateInv, [Next]_vars
    PROVE  GateInv'
  <1> DEFINE Goal == CounterCapped' /\ CounterExact' /\ GatedExposure'
  <1>a. TypeOK' /\ CoroutineInv'
    BY TypeStep, CoroutineStep DEF GateInv
  <1>b. reserved \in Nat /\ reserved <= MaxLots /\ Volume \in [Orders -> Nat]
    BY VolumePositive DEF GateInv, TypeOK, CounterCapped
  <1>1. ASSUME NEW o \in Orders, Validate(o) PROVE Goal
    <2>1. /\ reserved' = reserved
          /\ Held' \cup leaked' = Held \cup leaked
          /\ (Held' \cup Opened') \ unguarded' \subseteq (Held \cup Opened) \ unguarded
      BY <1>b, <1>1, MaxLotsNat DEF Validate, Held, Opened, GateInv, CoroutineInv, TypeOK
    <2> QED
      BY <1>a, <2>1, Frame
  <1>2. ASSUME NEW o \in Orders, RuleBlocks(o) PROVE Goal
    <2>1. /\ reserved' = reserved
          /\ Held' \cup leaked' = Held \cup leaked
          /\ (Held' \cup Opened') \ unguarded' \subseteq (Held \cup Opened) \ unguarded
      BY <1>b, <1>2, MaxLotsNat DEF RuleBlocks, Held, Opened, GateInv, CoroutineInv, TypeOK
    <2> QED
      BY <1>a, <2>1, Frame
  <1>3. ASSUME NEW o \in Orders, ValidateUngated(o) PROVE Goal
    <2>1. /\ reserved' = reserved
          /\ Held' \cup leaked' = Held \cup leaked
          /\ (Held' \cup Opened') \ unguarded' \subseteq (Held \cup Opened) \ unguarded
      BY <1>b, <1>3, MaxLotsNat DEF ValidateUngated, Held, Opened, GateInv, CoroutineInv, TypeOK
    <2> QED
      BY <1>a, <2>1, Frame
  <1>4. ASSUME NEW o \in Orders, ReserveRejected(o) PROVE Goal
    <2>1. /\ reserved' = reserved
          /\ Held' \cup leaked' = Held \cup leaked
          /\ (Held' \cup Opened') \ unguarded' \subseteq (Held \cup Opened) \ unguarded
      BY <1>b, <1>4, MaxLotsNat DEF ReserveRejected, Held, Opened, GateInv, CoroutineInv, TypeOK
    <2> QED
      BY <1>a, <2>1, Frame
  <1>5. ASSUME NEW o \in Orders, ReserveRaises(o) PROVE Goal
    <2>1. /\ pc[o] = "reserving" /\ held' = held
          /\ Held' = Held
          /\ (Held' \cup Opened') \ unguarded' \subseteq (Held \cup Opened) \ unguarded
      BY <1>5 DEF ReserveRaises, Held, Opened
    <2>2. CASE UNCHANGED <<reserved, leaked>>
      BY <1>a, <2>1, <2>2, Frame
    <2>3. CASE Fits(o) /\ reserved' = reserved + Volume[o] /\ leaked' = leaked \cup {o}
      BY <1>a, <2>1, <2>3, LostReplyStep
    <2> QED
      BY <1>5, <2>2, <2>3 DEF ReserveRaises
  <1>6. ASSUME NEW o \in Orders, ReserveCancelled(o) PROVE Goal
    <2>1. /\ pc[o] = "reserving" /\ held' = held
          /\ Held' = Held
          /\ (Held' \cup Opened') \ unguarded' \subseteq (Held \cup Opened) \ unguarded
      BY <1>6 DEF ReserveCancelled, Finish, Held, Opened
    <2>2. CASE UNCHANGED <<reserved, leaked>>
      BY <1>a, <2>1, <2>2, Frame
    <2>3. CASE Fits(o) /\ reserved' = reserved + Volume[o] /\ leaked' = leaked \cup {o}
      BY <1>a, <2>1, <2>3, LostReplyStep
    <2> QED
      BY <1>6, <2>2, <2>3 DEF ReserveCancelled
  <1>7. ASSUME NEW o \in Orders, Send(o) PROVE Goal
    <2>1. /\ reserved' = reserved
          /\ Held' \cup leaked' = Held \cup leaked
          /\ (Held' \cup Opened') \ unguarded' \subseteq (Held \cup Opened) \ unguarded
      BY <1>b, <1>7, MaxLotsNat DEF Send, Held, Opened, GateInv, CoroutineInv, TypeOK
    <2> QED
      BY <1>a, <2>1, Frame
  <1>8. ASSUME NEW o \in Orders, SendRaises(o) PROVE Goal
    <2>1. /\ reserved' = reserved
          /\ Held' \cup leaked' = Held \cup leaked
          /\ (Held' \cup Opened') \ unguarded' \subseteq (Held \cup Opened) \ unguarded
      BY <1>b, <1>8, MaxLotsNat DEF SendRaises, Held, Opened, GateInv, CoroutineInv, TypeOK
    <2> QED
      BY <1>a, <2>1, Frame
  <1>9. ASSUME NEW o \in Orders, ResultArrives(o) PROVE Goal
    <2>1. /\ reserved' = reserved
          /\ Held' \cup leaked' = Held \cup leaked
          /\ (Held' \cup Opened') \ unguarded' \subseteq (Held \cup Opened) \ unguarded
      BY <1>b, <1>9, MaxLotsNat DEF ResultArrives, Held, Opened, GateInv, CoroutineInv, TypeOK
    <2> QED
      BY <1>a, <2>1, Frame
  <1>10. ASSUME NEW o \in Orders, LateResult(o) PROVE Goal
    <2>1. /\ reserved' = reserved
          /\ Held' \cup leaked' = Held \cup leaked
          /\ (Held' \cup Opened') \ unguarded' \subseteq (Held \cup Opened) \ unguarded
      BY <1>b, <1>10, MaxLotsNat DEF LateResult, Held, Opened, GateInv, CoroutineInv, TypeOK
    <2> QED
      BY <1>a, <2>1, Frame
  <1>11. ASSUME NEW o \in Orders, Timeout(o) PROVE Goal
    <2>1. /\ reserved' = reserved
          /\ Held' \cup leaked' = Held \cup leaked
          /\ (Held' \cup Opened') \ unguarded' \subseteq (Held \cup Opened) \ unguarded
      BY <1>b, <1>11, MaxLotsNat DEF Timeout, Abandon, InFlight, Held, Opened, GateInv, CoroutineInv, TypeOK
    <2> QED
      BY <1>a, <2>1, Frame
  <1>12. ASSUME NEW o \in Orders, WaitCancelled(o) PROVE Goal
    <2>1. /\ reserved' = reserved
          /\ Held' \cup leaked' = Held \cup leaked
          /\ (Held' \cup Opened') \ unguarded' \subseteq (Held \cup Opened) \ unguarded
      BY <1>b, <1>12, MaxLotsNat DEF WaitCancelled, Abandon, InFlight, Held, Opened, GateInv, CoroutineInv, TypeOK
    <2> QED
      BY <1>a, <2>1, Frame
  <1>13. ASSUME NEW o \in Orders, NotFilled(o) PROVE Goal
    <2>1. /\ reserved' = reserved
          /\ Held' \cup leaked' = Held \cup leaked
          /\ (Held' \cup Opened') \ unguarded' \subseteq (Held \cup Opened) \ unguarded
      BY <1>b, <1>13, MaxLotsNat DEF NotFilled, Held, Opened, GateInv, CoroutineInv, TypeOK
    <2> QED
      BY <1>a, <2>1, Frame
  <1>14. ASSUME NEW o \in Orders, BookFill(o) PROVE Goal
    <2>1. /\ reserved' = reserved
          /\ Held' \cup leaked' = Held \cup leaked
          /\ (Held' \cup Opened') \ unguarded' \subseteq (Held \cup Opened) \ unguarded
      BY <1>b, <1>14, MaxLotsNat DEF BookFill, Held, Opened, GateInv, CoroutineInv, TypeOK
    <2> QED
      BY <1>a, <2>1, Frame
  <1>15. ASSUME NEW o \in Orders, FirstFill(o) PROVE Goal
    <2>1. /\ reserved' = reserved
          /\ Held' \cup leaked' = Held \cup leaked
          /\ (Held' \cup Opened') \ unguarded' \subseteq (Held \cup Opened) \ unguarded
      BY <1>b, <1>15, MaxLotsNat DEF FirstFill, Held, Opened, GateInv, CoroutineInv, TypeOK
    <2> QED
      BY <1>a, <2>1, Frame
  <1>16. ASSUME NEW o \in Orders, CreateTracker(o) PROVE Goal
    <2>1. /\ reserved' = reserved
          /\ Held' \cup leaked' = Held \cup leaked
          /\ (Held' \cup Opened') \ unguarded' \subseteq (Held \cup Opened) \ unguarded
      BY <1>b, <1>16, MaxLotsNat DEF CreateTracker, Held, Opened, GateInv, CoroutineInv, TypeOK
    <2> QED
      BY <1>a, <2>1, Frame
  <1>17. ASSUME NEW o \in Orders, Persist(o) PROVE Goal
    <2>1. /\ reserved' = reserved
          /\ Held' \cup leaked' = Held \cup leaked
          /\ (Held' \cup Opened') \ unguarded' \subseteq (Held \cup Opened) \ unguarded
      BY <1>b, <1>17, MaxLotsNat DEF Persist, Held, Opened, GateInv, CoroutineInv, TypeOK
    <2> QED
      BY <1>a, <2>1, Frame
  <1>18. ASSUME NEW o \in Orders, BookingRaises(o) PROVE Goal
    <2>1. /\ reserved' = reserved
          /\ Held' \cup leaked' = Held \cup leaked
          /\ (Held' \cup Opened') \ unguarded' \subseteq (Held \cup Opened) \ unguarded
      BY <1>b, <1>18, MaxLotsNat DEF BookingRaises, Held, Opened, GateInv, CoroutineInv, TypeOK
    <2> QED
      BY <1>a, <2>1, Frame
  <1>19. ASSUME NEW o \in Orders, NEW status \in Answered, MT5Answers(o, status) PROVE Goal
    <2>1. /\ reserved' = reserved
          /\ Held' \cup leaked' = Held \cup leaked
          /\ (Held' \cup Opened') \ unguarded' \subseteq (Held \cup Opened) \ unguarded
      BY <1>b, <1>19 DEF MT5Answers, Held, Opened, GateInv, CoroutineInv, TypeOK
    <2> QED
      BY <1>a, <2>1, Frame
  <1>20. ASSUME Crash PROVE Goal
    <2>1. /\ reserved' = reserved
          /\ Held' \cup leaked' = Held \cup leaked
          /\ (Held' \cup Opened') \ unguarded' \subseteq (Held \cup Opened) \ unguarded
      BY <1>b, <1>20 DEF Crash, Held, Opened, GateInv, TypeOK
    <2> QED
      BY <1>a, <2>1, Frame
  <1>21. ASSUME Idle PROVE Goal
    <2>1. /\ reserved' = reserved
          /\ Held' \cup leaked' = Held \cup leaked
          /\ (Held' \cup Opened') \ unguarded' \subseteq (Held \cup Opened) \ unguarded
      BY <1>b, <1>21 DEF Idle, vars, Held, Opened, GateInv, TypeOK
    <2> QED
      BY <1>a, <2>1, Frame
  <1>22. ASSUME UNCHANGED vars PROVE Goal
    <2>1. /\ reserved' = reserved
          /\ Held' \cup leaked' = Held \cup leaked
          /\ (Held' \cup Opened') \ unguarded' \subseteq (Held \cup Opened) \ unguarded
      BY <1>b, <1>22 DEF vars, Held, Opened, GateInv, TypeOK
    <2> QED
      BY <1>a, <2>1, Frame
  <1>23. ASSUME NEW o \in Orders, Reserve(o) PROVE Goal
    BY <1>a, <1>23, ReserveStep
  <1>24. ASSUME NEW o \in Orders, Release(o) \/ ReleaseRaises(o) PROVE Goal
    BY <1>a, <1>24, ReleaseStep
  <1>25. ASSUME Expire PROVE Goal
    BY <1>a, <1>25, ExpireStep
  <1>26. Goal
    BY <1>1, <1>2, <1>3, <1>4, <1>5, <1>6, <1>7, <1>8, <1>9, <1>10, <1>11, <1>12, <1>13, <1>14, <1>15, <1>16, <1>17, <1>18, <1>19, <1>20, <1>21, <1>22, <1>23, <1>24, <1>25 DEF Next, Coroutine
  <1> QED
    BY <1>a, <1>26 DEF GateInv

(* The initial state satisfies the invariant. *)
LEMMA GateInvInit == Init => GateInv
  <1> SUFFICES ASSUME Init PROVE GateInv
    OBVIOUS
  <1>1. TypeOK
    BY TrackerFlag DEF Init, TypeOK, Awaits, Outcomes, MT5Status
  <1>2. CoroutineInv
    BY MaxLotsNat DEF Init, CoroutineInv
  <1>3. Held = {} /\ Opened = {}
    BY DEF Init, Held, Opened
  <1>4. CounterCapped /\ CounterExact /\ GatedExposure
    BY <1>3, LotsEmpty, MaxLotsNat DEF Init, CounterCapped, CounterExact, GatedExposure
  <1> QED
    BY <1>1, <1>2, <1>4 DEF GateInv

(* The gate keeps its inductive invariant in every behaviour.                *)
THEOREM GateInvariant == Spec => []GateInv
  <1>1. GateInv /\ [Next]_vars => GateInv'
    BY GateInvStep
  <1> QED
    BY GateInvInit, <1>1, PTL DEF Spec

(* Type correctness of the gate, for every instance.                         *)
THEOREM TypeCorrect == Spec => []TypeOK
  <1>1. GateInv => TypeOK
    BY DEF GateInv
  <1> QED
    BY GateInvariant, <1>1, PTL

(* atomic_reserve.lua never lets the counter above the account's cap.        *)
THEOREM CounterNeverAboveCap == Spec => []CounterCapped
  <1>1. GateInv => CounterCapped
    BY DEF GateInv
  <1> QED
    BY GateInvariant, <1>1, PTL

(* Lots in the Redis counter are never lost and never counted twice: they    *)
(* are the reservations in use and those that a fault left behind.           *)
THEOREM CounterAccounted == Spec => []CounterExact
  <1>1. GateInv => CounterExact
    BY DEF GateInv
  <1> QED
    BY GateInvariant, <1>1, PTL

(* No order loses the lots it reserved to another order's release, to a      *)
(* failed command, to expiry or to a crash.                                  *)
THEOREM ReservationsCovered == Spec => []HeldCovered
  <1>1. GateInv => HeldCovered
    BY ExactCovers DEF GateInv
  <1> QED
    BY GateInvariant, <1>1, PTL

(* Exposure open at MT5 or in flight that went through the gate stays under  *)
(* the cap, for any number of orders, any volumes and any faults.            *)
THEOREM ExposureBounded == Spec => []GatedExposure
  <1>1. GateInv => GatedExposure
    BY DEF GateInv
  <1> QED
    BY GateInvariant, <1>1, PTL
-----------------------------------------------------------------------------
(* What the strategy is told.  The outcome of a coroutine is set once it has  *)
(* an answer, and what MT5 did with an order it has answered stays.           *)
OutcomeTold ==
    \A o \in Orders :
        /\ outcome[o] = "filled" => mt5[o] = "filled"
        /\ outcome[o] = "blocked" => mt5[o] = "idle" /\ pc[o] = "done"
        /\ pc[o] \in {"new", "reserving", "sending", "waiting"} => outcome[o] = "none"

LEMMA OutcomeStep ==
    ASSUME TypeOK, CoroutineInv, OutcomeTold, [Next]_vars
    PROVE  OutcomeTold'
  <1> USE DEF TypeOK, OutcomeTold
  <1>1. ASSUME NEW o \in Orders,
               \/ Validate(o) \/ ValidateUngated(o) \/ Reserve(o) \/ ReserveRaises(o)
               \/ NotFilled(o) \/ BookFill(o) \/ FirstFill(o) \/ CreateTracker(o)
               \/ Persist(o) \/ Release(o) \/ LateResult(o)
        PROVE  OutcomeTold'
    <2>1. /\ outcome' = outcome /\ mt5' = mt5
          /\ \A p \in Orders \ {o} : pc'[p] = pc[p]
          /\ outcome[o] # "blocked" \/ pc'[o] = pc[o]
          /\ \/ pc'[o] \notin {"new", "reserving", "sending", "waiting"}
             \/ pc[o] \in {"new", "reserving", "sending", "waiting"}
             \/ pc'[o] = pc[o]
      BY <1>1 DEF Validate, ValidateUngated, Reserve, ReserveRaises, NotFilled, BookFill,
                  FirstFill, CreateTracker, Persist, Release, LateResult, Goto
    <2> QED
      BY <2>1
  <1>2. ASSUME NEW o \in Orders,
               RuleBlocks(o) \/ ReserveRejected(o) \/ ReserveCancelled(o)
        PROVE  OutcomeTold'
    <2>1. mt5[o] = "idle" /\ mt5' = mt5
      BY <1>2 DEF CoroutineInv, RuleBlocks, ReserveRejected, ReserveCancelled
    <2> QED
      BY <1>2, <2>1 DEF RuleBlocks, ReserveRejected, ReserveCancelled, Finish, Goto
  <1>3. ASSUME NEW o \in Orders,
               SendRaises(o) \/ Timeout(o) \/ WaitCancelled(o) \/ BookingRaises(o)
        PROVE  OutcomeTold'
    BY <1>3 DEF SendRaises, Timeout, WaitCancelled, BookingRaises, Unwind, Goto
  <1>4. ASSUME NEW o \in Orders, Send(o) PROVE OutcomeTold'
    BY <1>4 DEF Send, Goto
  <1>5. ASSUME NEW o \in Orders, ResultArrives(o) PROVE OutcomeTold'
    BY <1>5 DEF ResultArrives, Goto, Answered
  <1>6. ASSUME NEW o \in Orders, ReleaseRaises(o) PROVE OutcomeTold'
    BY <1>6 DEF ReleaseRaises, Goto
  <1>7. ASSUME NEW o \in Orders, NEW status \in Answered, MT5Answers(o, status)
        PROVE  OutcomeTold'
    BY <1>7 DEF MT5Answers
  <1>8. CASE Crash
    BY <1>8 DEF Crash
  <1>9. CASE Expire \/ Idle \/ UNCHANGED vars
    BY <1>9 DEF Expire, Idle, vars
  <1> QED
    BY <1>1, <1>2, <1>3, <1>4, <1>5, <1>6, <1>7, <1>8, <1>9 DEF Next, Coroutine

(* Whatever Redis, MT5 and the event loop do to an order: the strategy is     *)
(* told of a fill only when MT5 filled the order, and that the order was      *)
(* denied only when MT5 never saw it.                                         *)
THEOREM EventsAreTruthful == Spec => []EventsTruthful
  <1>1. Init => TypeOK /\ CoroutineInv /\ OutcomeTold
    <2>1. Init => TypeOK /\ CoroutineInv
      BY GateInvInit DEF GateInv
    <2>2. Init => OutcomeTold
      BY DEF Init, OutcomeTold
    <2> QED
      BY <2>1, <2>2
  <1>2. TypeOK /\ CoroutineInv /\ OutcomeTold /\ [Next]_vars
            => TypeOK' /\ CoroutineInv' /\ OutcomeTold'
    BY TypeStep, CoroutineStep, OutcomeStep
  <1>3. TypeOK /\ OutcomeTold => EventsTruthful
    <2> SUFFICES ASSUME TypeOK, OutcomeTold, NEW o \in Orders
                 PROVE  /\ Event(o) = "filled" => mt5[o] = "filled"
                        /\ Event(o) = "denied" => mt5[o] = "idle"
      BY DEF EventsTruthful
    <2>1. outcome[o] \in Outcomes
      BY DEF TypeOK
    <2>2. /\ Event(o) = "filled" => outcome[o] = "filled"
          /\ Event(o) = "denied" => outcome[o] = "blocked"
      BY <2>1 DEF Event, TerminalEvent, Outcomes
    <2> QED
      BY <2>2 DEF OutcomeTold
  <1> QED
    BY <1>1, <1>2, <1>3, PTL DEF Spec
=============================================================================
