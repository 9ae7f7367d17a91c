------------------------ MODULE ScheduleServiceProofs ------------------------
(***************************************************************************)
(* Theorems about ScheduleService for every value of its constants: any    *)
(* items and recurrences, any number of callers, editors and crashes.      *)
(***************************************************************************)
EXTENDS ScheduleService, FiniteSetTheorems, WellFoundedInduction, TLAPS

-----------------------------------------------------------------------------
(***************************************************************************)
(* Occurrences.  The latest of the occurrences missed, and the first of    *)
(* those to come, are what Max and Min choose from finite sets of          *)
(* numbers; strict inclusion of the finite sets of what is above (below)   *)
(* an element is well-founded, so that there is something to choose.       *)
(***************************************************************************)
LEMMA GreatestExists ==
  ASSUME NEW S, S \subseteq Nat, S # {}, IsFiniteSet(S)
  PROVE  \E m \in S : \A s \in S : m >= s
<1>. DEFINE above(u) == {v \in S : v >= u}
            family == {above(u) : u \in S}
<1>1. IsWellFoundedOn(StrictSubsetOrdering(S), SUBSET S)
  BY FS_StrictSubsetOrderingWellFounded, FS_FiniteSubsetsOfFinite
<1>2. family \subseteq SUBSET S /\ family # {}
  OBVIOUS
<1>3. PICK T \in family : \A U \in family : ~ (<<U, T>> \in StrictSubsetOrdering(S))
  <2>. HIDE DEF family
  <2>. QED
    BY <1>1, <1>2, WFMin
<1>4. PICK m \in S : T = above(m)
  BY <1>3
<1>5. ASSUME NEW s \in S, ~(m >= s)
      PROVE  FALSE
  <2>0. m \in Nat /\ s \in Nat /\ \A v \in S : v \in Nat
    OBVIOUS
  <2>1. above(s) \subseteq T /\ m \in T /\ m \notin above(s)
    <3>1. \A v \in S : v >= s => v >= m
      BY <1>5, <2>0
    <3>2. m >= m
      BY <2>0
    <3>. QED
      BY <1>4, <1>5, <3>1, <3>2
  <2>2. above(s) \in family /\ above(s) \in SUBSET S /\ T \in SUBSET S
    BY <1>4
  <2>. HIDE DEF above, family
  <2>3. <<above(s), T>> \in StrictSubsetOrdering(S)
    BY <2>1, <2>2 DEF StrictSubsetOrdering
  <2>. QED
    BY <1>3, <2>2, <2>3
<1>. QED
  BY <1>5

\* A finite nonempty set of numbers has a least element.
LEMMA LeastExists ==
  ASSUME NEW S, S \subseteq Nat, S # {}, IsFiniteSet(S)
  PROVE  \E m \in S : \A s \in S : m =< s
<1>. DEFINE below(u) == {v \in S : v =< u}
            family == {below(u) : u \in S}
<1>1. IsWellFoundedOn(StrictSubsetOrdering(S), SUBSET S)
  BY FS_StrictSubsetOrderingWellFounded, FS_FiniteSubsetsOfFinite
<1>2. family \subseteq SUBSET S /\ family # {}
  OBVIOUS
<1>3. PICK T \in family : \A U \in family : ~ (<<U, T>> \in StrictSubsetOrdering(S))
  <2>. HIDE DEF family
  <2>. QED
    BY <1>1, <1>2, WFMin
<1>4. PICK m \in S : T = below(m)
  BY <1>3
<1>5. ASSUME NEW s \in S, ~(m =< s)
      PROVE  FALSE
  <2>0. m \in Nat /\ s \in Nat /\ \A v \in S : v \in Nat
    OBVIOUS
  <2>1. below(s) \subseteq T /\ m \in T /\ m \notin below(s)
    <3>1. \A v \in S : v =< s => v =< m
      BY <1>5, <2>0
    <3>2. m =< m
      BY <2>0
    <3>. QED
      BY <1>4, <1>5, <3>1, <3>2
  <2>2. below(s) \in family /\ below(s) \in SUBSET S /\ T \in SUBSET S
    BY <1>4
  <2>. HIDE DEF below, family
  <2>3. <<below(s), T>> \in StrictSubsetOrdering(S)
    BY <2>1, <2>2 DEF StrictSubsetOrdering
  <2>. QED
    BY <1>3, <2>2, <2>3
<1>. QED
  BY <1>5

\* Max is the greatest element of a bounded nonempty set.
LEMMA MaxIsGreatest ==
  ASSUME NEW n \in Nat, NEW S, S \subseteq 0..n, S # {}
  PROVE  Max(S) \in S /\ \A s \in S : Max(S) >= s
<1>1. IsFiniteSet(0..n)
  BY FS_Interval
<1>2. IsFiniteSet(S)
  BY <1>1, FS_Subset
<1>3. S \subseteq Nat
  OBVIOUS
<1>. QED
  BY <1>2, <1>3, GreatestExists DEF Max

\* Min is the least element of a bounded nonempty set.
LEMMA MinIsLeast ==
  ASSUME NEW n \in Nat, NEW S, S \subseteq 0..n, S # {}
  PROVE  Min(S) \in S /\ \A s \in S : Min(S) =< s
<1>1. IsFiniteSet(0..n)
  BY FS_Interval
<1>2. IsFiniteSet(S)
  BY <1>1, FS_Subset
<1>3. S \subseteq Nat
  OBVIOUS
<1>. QED
  BY <1>2, <1>3, LeastExists DEF Min

\* One period more.
LEMMA Steps ==
  ASSUME NEW n \in Nat, NEW p \in Nat
  PROVE  n * p \in Nat /\ (n + 1) * p = n * p + p
  OBVIOUS

\* The occurrence a late pass fires is not before the one it was due for, and
\* not in the future.
LEMMA LatestDueIsDue ==
  ASSUME NEW i \in Items, NEW row \in Row, NEW t \in Nat, row.next \in Nat
  PROVE  /\ LatestDue(i, row, t) \in Nat /\ LatestDue(i, row, t) >= row.next
         /\ row.next <= t => LatestDue(i, row, t) <= t
<1>. DEFINE later == { n \in 1..CatchUpGuard :
                         row.next + n * Period[i] <= t /\ ~Ended(i, row.next + n * Period[i]) }
<1>1. Period[i] \in Nat /\ CatchUpGuard \in Nat
  BY ConstantsAssumption DEF ConstantsAssumption
<1>2. LatestDue(i, row, t) = IF Period[i] = 0 \/ later = {} THEN row.next
                                                       ELSE row.next + Max(later) * Period[i]
  BY DEF LatestDue
<1>3. CASE Period[i] = 0 \/ later = {}
  BY <1>2, <1>3
<1>4. CASE ~(Period[i] = 0 \/ later = {})
  <2>1. later \subseteq 0..CatchUpGuard
    BY <1>1
  <2>2. Max(later) \in later
    <3>. HIDE DEF later
    <3>. QED
      BY <1>1, <1>4, <2>1, MaxIsGreatest
  <2>0. \A n \in later : n \in Nat /\ row.next + n * Period[i] <= t
    OBVIOUS
  <2>3. Max(later) \in Nat /\ row.next + Max(later) * Period[i] <= t
    <3>. HIDE DEF later
    <3>. QED
      BY <2>0, <2>2
  <2>. HIDE DEF later
  <2>4. Max(later) * Period[i] \in Nat
    BY <1>1, <2>3, Steps
  <2>. QED
    BY <1>2, <1>4, <2>3, <2>4
<1>. QED
  BY <1>3, <1>4

\* The next run is after the one that was.
LEMMA NextRunIsLater ==
  ASSUME NEW i \in Items, NEW row \in Row, NEW for \in Nat, NEW t \in Nat
  PROVE  /\ NextRun(i, row, for, t) \in Time
         /\ NextRun(i, row, for, t) # None =>
              /\ NextRun(i, row, for, t) \in Nat /\ NextRun(i, row, for, t) > for
              /\ ~Exhausted(i, row.count)
<1>. DEFINE first == for + Period[i]
            future == { n \in 0..CatchUpGuard : first + n * Period[i] > t }
            m == IF future = {} THEN CatchUpGuard ELSE Min(future)
            c == first + m * Period[i]
<1>1. Period[i] \in Nat /\ CatchUpGuard \in Nat /\ None \notin Nat
  BY ConstantsAssumption DEF ConstantsAssumption
<1>2. NextRun(i, row, for, t) = IF Exhausted(i, row.count) \/ Period[i] = 0 \/ Ended(i, c)
                                THEN None ELSE c
  BY DEF NextRun
<1>3. m \in Nat
  <2>1. future \subseteq 0..CatchUpGuard
    OBVIOUS
  <2>. HIDE DEF future, first
  <2>2. future # {} => Min(future) \in future
    BY <1>1, <2>1, MinIsLeast
  <2>3. 0..CatchUpGuard \subseteq Nat
    BY <1>1
  <2>. QED
    BY <1>1, <2>1, <2>2, <2>3
<1>. HIDE DEF m
<1>4. m * Period[i] \in Nat
  BY <1>1, <1>3, Steps
<1>5. c \in Nat /\ (Period[i] # 0 => c > for)
  BY <1>1, <1>4
<1>. HIDE DEF c
<1>. QED
  BY <1>1, <1>2, <1>5 DEF Time

-----------------------------------------------------------------------------
(***************************************************************************)
(* Types, with what a driver has in hand at each place.                    *)
(***************************************************************************)
Holding == {"check", "record", "save", "advance", "defer", "notify", "submit", "settle"}
Known   == {"save", "advance", "defer", "notify", "submit", "settle", "recovered"}
ByPass  == {"recover", "recovered", "due", "advance", "defer", "notify"}

EnvTypes ==
  /\ now \in 0..MaxTime /\ finished \subseteq Linked
  /\ crashes \in Nat /\ edits \in Nat /\ manuals \in Nat /\ written \subseteq Items
EditTypes ==
  /\ change \in [Editors -> (Items \X Edits) \cup {None}]
  /\ read \in [Editors -> Row \cup {None}]
  /\ \A e \in Editors : change[e] # None => read[e] \in Row
StoreTypes ==
  /\ rows \in [Items -> Row] /\ runs \in Seq(Run)
  /\ submits \in Seq(Nat) /\ Len(submits) = Len(runs)
  /\ \A k \in DOMAIN runs : runs[k].status = "claimed" => runs[k].attempts < MaxRecovery
PassTypes ==
  /\ due \in [Items -> Row \cup {None}]
  /\ claims \in SUBSET ((DOMAIN runs) \X Run)
  /\ \A c \in claims : c[2].status = "claimed" /\ c[2].attempts < MaxRecovery
  /\ \A i \in Items : due[i] # None => due[i].next \in Nat
DriverFunctions ==
  /\ pc \in [Drivers -> Labels] /\ item \in [Drivers -> Items \cup {None}]
  /\ copy \in [Drivers -> Row \cup {None}] /\ rec \in [Drivers -> Run \cup {None}]
  /\ idx \in [Drivers -> 0..Len(runs)] /\ at \in [Drivers -> Nat]

\* A run in hand has never been recovered, and a caller's is marked as manual.
InHand(d) ==
  /\ pc[d] \in Holding => /\ item[d] \in Items /\ copy[d] \in Row /\ rec[d] \in Run
                          /\ rec[d].attempts = 0 /\ (rec[d].manual <=> d # Scheduler)
  /\ pc[d] = "recovered" => /\ rec[d] \in Run
                            /\ rec[d].status = "claimed" => rec[d].attempts < MaxRecovery
  /\ pc[d] \in Known => idx[d] \in DOMAIN runs
  /\ pc[d] \in ByPass => d = Scheduler
HandsFull == \A d \in Drivers : InHand(d)

ScheduleTypes ==
  EnvTypes /\ EditTypes /\ StoreTypes /\ PassTypes /\ DriverFunctions /\ HandsFull

\* What the assumptions say of the constants.
LEMMA ConstantTypes ==
  /\ Scheduler \in Drivers /\ \A c \in Callers : c \in Drivers /\ c # Scheduler
  /\ None \notin Nat /\ None \notin Items /\ None \in Time /\ Nat \subseteq Time
  /\ DeferBy \in Nat /\ ProbeAfter \in Nat /\ MaxRecovery \in Nat /\ MaxRecovery > 0
  /\ MaxTime \in Nat /\ RecoverAfter \in Nat
  /\ StartAt \in [Items -> Nat]
  BY ConstantsAssumption DEF ConstantsAssumption, Drivers, Time

\* A row with other fields is a row.
LEMMA RowWith ==
  ASSUME NEW row \in Row, NEW s \in Status, NEW n \in Time, NEW k \in Nat
  PROVE  /\ [row EXCEPT !.status = s, !.next = n] \in Row
         /\ [row EXCEPT !.status = s] \in Row
         /\ [row EXCEPT !.next = n] \in Row
         /\ [row EXCEPT !.count = k] \in Row
  BY DEF Row

\* A run with another status is a run.
LEMMA RunWith ==
  ASSUME NEW r \in Run, NEW s \in RunStatus, NEW n \in 0..MaxRecovery
  PROVE  /\ [r EXCEPT !.status = s] \in Run
         /\ [r EXCEPT !.attempts = n, !.status = s] \in Run
  BY DEF Run

\* An advanced row is a row.
LEMMA AdvancedType ==
  ASSUME NEW i \in Items, NEW row \in Row, NEW for \in Nat, NEW t \in Nat
  PROVE  Advanced(i, row, for, t) \in Row
<1>. DEFINE counted == [row EXCEPT !.count = @ + 1]
            next == NextRun(i, counted, for, t)
<1>1. counted \in Row
  BY DEF Row
<1>2. next \in Time
  BY <1>1, NextRunIsLater
<1>3. Advanced(i, row, for, t)
        = [counted EXCEPT !.next = next, !.status = IF next = None THEN "completed" ELSE @]
  BY DEF Advanced
<1>. HIDE DEF counted, next
<1>. QED
  BY <1>1, <1>2, <1>3 DEF Row, Status

\* The service starts within its types.
LEMMA ScheduleInitially == Init => ScheduleTypes
<1>. SUFFICES ASSUME Init PROVE ScheduleTypes
  OBVIOUS
<1>1. EnvTypes /\ EditTypes
  BY ConstantTypes DEF Init, EnvTypes, EditTypes
<1>2. StoreTypes
  <2>1. rows \in [Items -> Row]
    BY ConstantTypes DEF Init, Row, Status
  <2>. QED
    BY <2>1 DEF Init, StoreTypes
<1>3. PassTypes
  BY DEF Init, PassTypes
<1>4. DriverFunctions /\ HandsFull
  BY <1>2 DEF Init, DriverFunctions, HandsFull, InHand, Labels, Holding, Known, ByPass
<1>. QED
  BY <1>1, <1>2, <1>3, <1>4 DEF ScheduleTypes

\* What a step does to one driver leaves the others as they are, as long as no
\* run is lost.
LEMMA OneDriver ==
  ASSUME DriverFunctions, HandsFull, DriverFunctions', NEW d \in Drivers,
         DOMAIN runs \subseteq DOMAIN runs',
         \A e \in Drivers \ {d} : /\ pc'[e] = pc[e] /\ item'[e] = item[e] /\ copy'[e] = copy[e]
                                  /\ rec'[e] = rec[e] /\ idx'[e] = idx[e],
         InHand(d)'
  PROVE  HandsFull'
  BY DEF HandsFull, InHand

\* The driver is done with its run.
LEMMA ReturnKeeps ==
  ASSUME DriverFunctions, HandsFull, NEW d \in Drivers, Return(d),
         runs \in Seq(Run), runs' \in Seq(Run), Len(runs') >= Len(runs)
  PROVE  DriverFunctions' /\ HandsFull'
<1>1. DriverFunctions'
  <2>1. 0 \in 0..Len(runs') /\ idx \in [Drivers -> 0..Len(runs')]
    BY DEF DriverFunctions
  <2>2. idx' = [idx EXCEPT ![d] = 0]
    BY DEF Return
  <2>3. idx' \in [Drivers -> 0..Len(runs')]
    BY <2>1, <2>2
  <2>4. item' \in [Drivers -> Items \cup {None}] /\ copy' \in [Drivers -> Row \cup {None}]
    BY DEF DriverFunctions, Return
  <2>5. rec' \in [Drivers -> Run \cup {None}] /\ at' \in [Drivers -> Nat]
    BY DEF DriverFunctions, Return
  <2>6. pc' \in [Drivers -> Labels]
    BY DEF DriverFunctions, Return, Goto, Labels
  <2>. QED
    BY <2>3, <2>4, <2>5, <2>6 DEF DriverFunctions
<1>2. InHand(d)'
  BY DEF DriverFunctions, Return, Goto, InHand, Holding, Known, ByPass
<1>3. DOMAIN runs \subseteq DOMAIN runs'
  OBVIOUS
<1>. QED
  BY <1>1, <1>2, <1>3, OneDriver, ZenonT(60) DEF DriverFunctions, Return, Goto

-----------------------------------------------------------------------------
(* The environment and the editors: drivers go on as they were. *)

\* Drivers that stand still keep what they have in hand.
LEMMA DriversStand ==
  ASSUME DriverFunctions, HandsFull, UNCHANGED driverVars, runs' = runs
  PROVE  DriverFunctions' /\ HandsFull'
  BY DEF DriverFunctions, HandsFull, InHand, driverVars

\* Time, crashes and editors keep the types.
LEMMA EnvironmentTypes ==
  ASSUME ScheduleTypes, Environment
  PROVE  ScheduleTypes'
<1>0. EnvTypes /\ EditTypes /\ StoreTypes /\ PassTypes /\ DriverFunctions /\ HandsFull
  BY DEF ScheduleTypes
<1>1. CASE Tick
  <2>1. EnvTypes'
    BY <1>0, <1>1, ConstantTypes DEF Tick, EnvTypes
  <2>2. EditTypes' /\ StoreTypes' /\ PassTypes'
    BY <1>0, <1>1 DEF Tick, EditTypes, StoreTypes, PassTypes, editVars, storeVars, passVars
  <2>. QED
    BY <1>0, <1>1, <2>1, <2>2, DriversStand DEF Tick, ScheduleTypes, storeVars
<1>2. ASSUME NEW i \in Items, Finish(i)
      PROVE  ScheduleTypes'
  <2>1. EnvTypes'
    BY <1>0, <1>2 DEF Finish, EnvTypes
  <2>2. EditTypes' /\ StoreTypes' /\ PassTypes'
    BY <1>0, <1>2 DEF Finish, EditTypes, StoreTypes, PassTypes, editVars, storeVars,
       passVars
  <2>. QED
    BY <1>0, <1>2, <2>1, <2>2, DriversStand DEF Finish, ScheduleTypes, storeVars
<1>3. ASSUME NEW e \in Editors, NEW i \in Items, NEW kind \in Edits, EditRead(e, i, kind)
      PROVE  ScheduleTypes'
  <2>1. EnvTypes' /\ StoreTypes' /\ PassTypes'
    BY <1>0, <1>3 DEF EditRead, EnvTypes, StoreTypes, PassTypes, storeVars, passVars
  <2>2. Loaded(i) \in Row
    BY <1>0, ConstantTypes, RowWith, ZenonT(60) DEF Loaded, StoreTypes, Row
  <2>3. EditTypes'
    BY <1>0, <1>3, <2>2 DEF EditRead, EditTypes
  <2>. QED
    BY <1>0, <1>3, <2>1, <2>3, DriversStand DEF EditRead, ScheduleTypes, storeVars
<1>4. ASSUME NEW e \in Editors, EditSave(e)
      PROVE  ScheduleTypes'
  <2>1. /\ change[e] \in Items \X Edits /\ read[e] \in Row
    BY <1>0, <1>4 DEF EditSave, EditTypes
  <2>2. Changed(read[e], change[e][2]) \in Row
    BY <2>1, ConstantTypes, RowWith DEF Changed, Status
  <2>3. rows' = [rows EXCEPT ![change[e][1]] = Changed(read[e], change[e][2])]
    BY <1>4 DEF EditSave
  <2>4. rows' \in [Items -> Row]
    BY <1>0, <2>1, <2>2, <2>3 DEF StoreTypes
  <2>5. EnvTypes' /\ StoreTypes' /\ PassTypes'
    BY <1>0, <1>4, <2>1, <2>4 DEF EditSave, EnvTypes, StoreTypes, PassTypes, passVars
  <2>6. EditTypes'
    BY <1>0, <1>4 DEF EditSave, EditTypes
  <2>. QED
    BY <1>0, <1>4, <2>5, <2>6, DriversStand DEF EditSave, ScheduleTypes
<1>5. CASE Crash
  <2>1. EnvTypes' /\ EditTypes' /\ StoreTypes' /\ PassTypes'
    BY <1>0, <1>5 DEF Crash, EnvTypes, EditTypes, StoreTypes, PassTypes, storeVars
  <2>2. DriverFunctions'
    BY <1>0, <1>5 DEF Crash, DriverFunctions, storeVars, StoreTypes, Labels
  <2>3. HandsFull'
    BY <1>5 DEF Crash, HandsFull, InHand, Holding, Known, ByPass
  <2>. QED
    BY <2>1, <2>2, <2>3 DEF ScheduleTypes
<1>6. ASSUME NEW c \in Callers, NEW i \in Items, TriggerManual(c, i)
      PROVE  ScheduleTypes'
  <2>1. EnvTypes' /\ EditTypes' /\ StoreTypes' /\ PassTypes'
    BY <1>0, <1>6 DEF TriggerManual, EnvTypes, EditTypes, StoreTypes, PassTypes, storeVars,
       passVars, editVars
  <2>2. Loaded(i) \in Row
    BY <1>0, ConstantTypes, RowWith, ZenonT(60) DEF Loaded, StoreTypes, Row
  <2>3. now \in Nat
    BY <1>0, ConstantTypes DEF EnvTypes
  <2>4. /\ NewRun(i, now, now, TRUE) \in Run /\ NewRun(i, now, now, TRUE).attempts = 0
        /\ NewRun(i, now, now, TRUE).manual
    BY <2>3, ConstantTypes DEF NewRun, Run, RunStatus
  <2>5. /\ c \in Drivers /\ c # Scheduler
        /\ item' = [item EXCEPT ![c] = i] /\ copy' = [copy EXCEPT ![c] = Loaded(i)]
        /\ rec' = [rec EXCEPT ![c] = NewRun(i, now, now, TRUE)]
        /\ at' = [at EXCEPT ![c] = now] /\ pc' = [pc EXCEPT ![c] = "check"]
        /\ UNCHANGED <<idx, runs>>
    BY <1>6, ConstantTypes DEF TriggerManual, Goto, storeVars
  <2>6. DriverFunctions'
    BY <1>0, <2>2, <2>3, <2>4, <2>5 DEF DriverFunctions, Labels
  <2>7. InHand(c)'
    BY <1>0, <2>2, <2>4, <2>5 DEF DriverFunctions, InHand, Holding, Known, ByPass
  <2>8. HandsFull'
    BY <1>0, <2>5, <2>6, <2>7, OneDriver DEF DriverFunctions
  <2>. QED
    BY <2>1, <2>6, <2>8 DEF ScheduleTypes
<1>. QED
  BY <1>1, <1>2, <1>3, <1>4, <1>5, <1>6 DEF Environment

-----------------------------------------------------------------------------
(* The pass. *)

\* The steps of a pass keep the types.
LEMMA PassTypesStep ==
  ASSUME ScheduleTypes, PassStep
  PROVE  ScheduleTypes'
<1>0. EnvTypes /\ EditTypes /\ StoreTypes /\ PassTypes /\ DriverFunctions /\ HandsFull
  BY DEF ScheduleTypes
<1>1. CASE PassBegin
  <2>1. EnvTypes' /\ EditTypes' /\ StoreTypes'
    BY <1>0, <1>1 DEF PassBegin, EnvTypes, EditTypes, StoreTypes, envVars, editVars,
       storeVars
  <2>2. PassTypes'
    <3>1. \A k \in DOMAIN runs : runs[k] \in Run
      BY <1>0 DEF StoreTypes
    <3>2. /\ OldClaims \in SUBSET ((DOMAIN runs) \X Run)
          /\ \A c \in OldClaims : c[2].status = "claimed" /\ c[2].attempts < MaxRecovery
      BY <1>0, <3>1 DEF OldClaims, StoreTypes
    <3>. QED
      BY <1>0, <1>1, <3>2 DEF PassBegin, PassTypes, storeVars
  <2>3. DriverFunctions'
    BY <1>0, <1>1, ConstantTypes DEF PassBegin, DriverFunctions, Goto, Labels, storeVars,
       EnvTypes
  <2>4. InHand(Scheduler)'
    BY <1>0, <1>1, ConstantTypes DEF PassBegin, DriverFunctions, Goto, InHand, Holding,
       Known,
       ByPass
  <2>5. HandsFull'
    BY <1>0, <1>1, <2>3, <2>4, OneDriver, ConstantTypes
       DEF PassBegin, Goto, DriverFunctions, storeVars
  <2>. QED
    BY <2>1, <2>2, <2>3, <2>5 DEF ScheduleTypes
<1>2. ASSUME NEW c \in claims, RecoverSubmit(c)
      PROVE  ScheduleTypes'
  <2>1. /\ c[1] \in DOMAIN runs /\ c[2] \in Run
        /\ c[2].status = "claimed" /\ c[2].attempts < MaxRecovery
    BY <1>0 DEF PassTypes
  <2>2. EnvTypes' /\ EditTypes' /\ PassTypes'
    BY <1>0, <1>2 DEF RecoverSubmit, EnvTypes, EditTypes, PassTypes, envVars, editVars
  <2>3. StoreTypes'
    <3>1. c[1] \in 1..Len(submits)
      BY <1>0, <2>1 DEF StoreTypes
    <3>2. submits' \in Seq(Nat) /\ Len(submits') = Len(submits)
      <4>1. submits' = submits \/ submits' = [submits EXCEPT ![c[1]] = @ + 1]
        BY <1>2 DEF RecoverSubmit, Submitted
      <4>2. submits \in Seq(Nat)
        BY <1>0 DEF StoreTypes
      <4>. QED
        BY <3>1, <4>1, <4>2
    <3>. QED
      BY <1>0, <1>2, <3>2 DEF RecoverSubmit, StoreTypes
  <2>4. PICK r \in Run : /\ rec' = [rec EXCEPT ![Scheduler] = r]
                         /\ r.status = "claimed" => r.attempts < MaxRecovery
    <3>1. c[2].attempts + 1 \in 0..MaxRecovery /\ c[2].attempts \in Nat
      BY <2>1, ConstantTypes DEF Run
    <3>. DEFINE taken == [c[2] EXCEPT !.attempts = @ + 1, !.status = "submitted"]
    <3>2. taken \in Run /\ taken.status = "submitted"
      BY <2>1, <3>1 DEF Run, RunStatus
    <3>3. /\ Refused(c[2]) \in Run
          /\ Refused(c[2]).status = "claimed" => Refused(c[2]).attempts < MaxRecovery
      <4>. DEFINE s == IF c[2].attempts + 1 >= MaxRecovery THEN "failed" ELSE c[2].status
      <4>1. /\ Refused(c[2]) = [c[2] EXCEPT !.attempts = c[2].attempts + 1, !.status = s]
            /\ s = "claimed" => c[2].attempts + 1 < MaxRecovery
        BY <2>1, <3>1, ConstantTypes DEF Refused
      <4>2. s \in RunStatus
        BY <2>1 DEF RunStatus
      <4>. HIDE DEF s
      <4>3. [c[2] EXCEPT !.attempts = c[2].attempts + 1, !.status = s] \in Run
        BY <2>1, <3>1, <4>2, RunWith
      <4>4. /\ [c[2] EXCEPT !.attempts = c[2].attempts + 1, !.status = s].status = s
            /\ [c[2] EXCEPT !.attempts = c[2].attempts + 1, !.status = s].attempts
                  = c[2].attempts + 1
        BY <2>1 DEF Run
      <4>. QED
        BY <4>1, <4>3, <4>4
    <3>4. rec' = [rec EXCEPT ![Scheduler] = taken] \/ rec' = [rec EXCEPT ![Scheduler] = Refused(c[2])]
      BY <1>2 DEF RecoverSubmit
    <3>. HIDE DEF taken
    <3>. QED
      BY <3>2, <3>3, <3>4
  <2>5. /\ idx' = [idx EXCEPT ![Scheduler] = c[1]] /\ pc' = [pc EXCEPT ![Scheduler] = "recovered"]
        /\ UNCHANGED <<runs, item, copy, at>>
    BY <1>2 DEF RecoverSubmit, Goto
  <2>6. DriverFunctions'
    <3>1. c[1] \in 0..Len(runs)
      BY <1>0, <2>1 DEF StoreTypes
    <3>. QED
      BY <1>0, <2>4, <2>5, <3>1, ConstantTypes DEF DriverFunctions, Labels
  <2>7. InHand(Scheduler)'
    BY <1>0, <2>1, <2>4, <2>5, ConstantTypes
       DEF DriverFunctions, InHand, Holding, Known, ByPass
  <2>8. HandsFull'
    BY <1>0, <2>4, <2>5, <2>6, <2>7, OneDriver, ConstantTypes DEF DriverFunctions
  <2>. QED
    BY <2>2, <2>3, <2>6, <2>8 DEF ScheduleTypes
<1>3. CASE RecoverRecord
  <2>1. EnvTypes' /\ EditTypes'
    BY <1>0, <1>3 DEF RecoverRecord, EnvTypes, EditTypes, envVars, editVars
  <2>. DEFINE k == idx[Scheduler]
              r == rec[Scheduler]
  <2>2. k \in DOMAIN runs /\ r \in Run /\ (r.status = "claimed" => r.attempts < MaxRecovery)
    BY <1>0, <1>3, ConstantTypes DEF RecoverRecord, HandsFull, InHand, Known
  <2>3. runs' = [runs EXCEPT ![k] = r]
    BY <1>3 DEF RecoverRecord
  <2>. HIDE DEF k, r
  <2>4. /\ runs' \in Seq(Run) /\ Len(runs') = Len(runs) /\ DOMAIN runs' = DOMAIN runs
        /\ \A j \in DOMAIN runs' : runs'[j] = IF j = k THEN r ELSE runs[j]
    BY <1>0, <2>2, <2>3 DEF StoreTypes
  <2>5. StoreTypes' /\ PassTypes'
    BY <1>0, <1>3, <2>2, <2>4 DEF RecoverRecord, StoreTypes, PassTypes, passVars
  <2>6. /\ rec' = [rec EXCEPT ![Scheduler] = None] /\ idx' = [idx EXCEPT ![Scheduler] = 0]
        /\ pc' = [pc EXCEPT ![Scheduler] = "recover"] /\ UNCHANGED <<item, copy, at>>
    BY <1>3 DEF RecoverRecord, Goto
  <2>7. DriverFunctions'
    BY <1>0, <2>4, <2>6, ConstantTypes DEF DriverFunctions, Labels
  <2>8. InHand(Scheduler)'
    BY <1>0, <2>6, ConstantTypes DEF DriverFunctions, InHand, Holding, Known, ByPass
  <2>9. HandsFull'
    BY <1>0, <2>4, <2>6, <2>7, <2>8, OneDriver, ConstantTypes DEF DriverFunctions
  <2>. QED
    BY <2>1, <2>5, <2>7, <2>9 DEF ScheduleTypes
<1>4. CASE ListDue \/ PassEnd
  <2>0. EnvTypes' /\ EditTypes' /\ StoreTypes'
    BY <1>0, <1>4 DEF ListDue, PassEnd, EnvTypes, EditTypes, StoreTypes, envVars, editVars,
       storeVars
  <2>1. PassTypes'
    <3>1. CASE ListDue
      <4>1. \A i \in Items : rows[i] \in Row
        BY <1>0 DEF StoreTypes
      <4>2. \A i \in Items : due'[i] # None => due'[i] \in Row /\ due'[i].next \in Nat
        <5>1. \A i \in Items : rows[i].next # None => rows[i].next \in Nat
          BY <4>1 DEF Row, Time
        <5>. QED
          BY <3>1, <4>1, <5>1 DEF ListDue, Due
      <4>3. due' = [i \in Items |-> due'[i]]
        BY <3>1 DEF ListDue
      <4>. HIDE DEF Row
      <4>4. due' \in [Items -> Row \cup {None}]
        BY <4>2, <4>3
      <4>. QED
        BY <1>0, <3>1, <4>2, <4>4 DEF ListDue, PassTypes, storeVars
    <3>2. CASE PassEnd
      BY <1>0, <3>2 DEF PassEnd, PassTypes, storeVars, passVars
    <3>. QED
      BY <1>4, <3>1, <3>2
  <2>2. DriverFunctions'
    <3>1. PICK label \in {"due", "idle"} : pc' = [pc EXCEPT ![Scheduler] = label]
      BY <1>4 DEF ListDue, PassEnd, Goto
    <3>2. at' = at \/ at' = [at EXCEPT ![Scheduler] = 0]
      BY <1>4 DEF ListDue, PassEnd
    <3>3. UNCHANGED <<runs, item, copy, rec, idx>>
      BY <1>4 DEF ListDue, PassEnd, storeVars
    <3>4. pc' \in [Drivers -> Labels]
      BY <1>0, <3>1 DEF DriverFunctions, Labels
    <3>5. at' \in [Drivers -> Nat]
      BY <1>0, <3>2 DEF DriverFunctions
    <3>. QED
      BY <1>0, <3>3, <3>4, <3>5 DEF DriverFunctions
  <2>3. InHand(Scheduler)'
    BY <1>0, <1>4, ConstantTypes DEF ListDue, PassEnd, DriverFunctions, Goto, InHand,
       Holding,
       Known, ByPass
  <2>4. HandsFull'
    BY <1>0, <1>4, <2>2, <2>3, OneDriver, ConstantTypes
       DEF ListDue, PassEnd, Goto, DriverFunctions, storeVars
  <2>. QED
    BY <2>0, <2>1, <2>2, <2>4 DEF ScheduleTypes
<1>5. ASSUME NEW i \in Items, TriggerDue(i)
      PROVE  ScheduleTypes'
  <2>1. EnvTypes' /\ EditTypes' /\ StoreTypes' /\ PassTypes'
    BY <1>0, <1>5 DEF TriggerDue, EnvTypes, EditTypes, StoreTypes, PassTypes, envVars,
       editVars, storeVars
  <2>. DEFINE for == LatestDue(i, due[i], at[Scheduler])
              r == NewRun(i, for, at[Scheduler], FALSE)
  <2>2. due[i] \in Row /\ due[i].next \in Nat /\ at[Scheduler] \in Nat
    BY <1>0, <1>5, ConstantTypes DEF TriggerDue, PassTypes, DriverFunctions
  <2>3. /\ item' = [item EXCEPT ![Scheduler] = i] /\ copy' = [copy EXCEPT ![Scheduler] = due[i]]
        /\ rec' = [rec EXCEPT ![Scheduler] = r] /\ pc' = [pc EXCEPT ![Scheduler] = "check"]
        /\ UNCHANGED <<runs, idx, at>>
    BY <1>5 DEF TriggerDue, Goto, storeVars
  <2>4. r \in Run /\ r.attempts = 0 /\ ~r.manual
    <3>1. for \in Nat
      BY <2>2, LatestDueIsDue
    <3>. QED
      BY <2>2, <3>1, ConstantTypes DEF NewRun, Run, RunStatus
  <2>. HIDE DEF for, r
  <2>5. DriverFunctions'
    BY <1>0, <2>2, <2>3, <2>4, ConstantTypes DEF DriverFunctions, Labels
  <2>6. InHand(Scheduler)'
    BY <1>0, <2>2, <2>3, <2>4, ConstantTypes DEF DriverFunctions, InHand, Holding,
       Known, ByPass
  <2>7. HandsFull'
    BY <1>0, <2>3, <2>5, <2>6, OneDriver, ConstantTypes DEF DriverFunctions
  <2>. QED
    BY <2>1, <2>5, <2>7 DEF ScheduleTypes
<1>. QED
  BY <1>1, <1>2, <1>3, <1>4, <1>5 DEF PassStep

-----------------------------------------------------------------------------
(* A trigger. *)

\* Checking an item keeps the types.
LEMMA CheckTypes ==
  ASSUME ScheduleTypes, NEW d \in Drivers, Check(d)
  PROVE  ScheduleTypes'
<1>0. EnvTypes /\ EditTypes /\ StoreTypes /\ PassTypes /\ DriverFunctions /\ HandsFull
  BY DEF ScheduleTypes
<1>1. /\ pc[d] = "check" /\ item[d] \in Items /\ copy[d] \in Row /\ rec[d] \in Run
      /\ rec[d].attempts = 0 /\ (rec[d].manual <=> d # Scheduler) /\ at[d] \in Nat
  BY <1>0 DEF Check, HandsFull, InHand, Holding, DriverFunctions
<1>2. PICK s \in {"skipped", "claimed", "recorded", "failed"}, cp \in Row :
        /\ rec' = [rec EXCEPT ![d].status = s]
        /\ copy' = [copy EXCEPT ![d] = cp]
        /\ \/ UNCHANGED <<rows, written>>
           \/ rows' = [rows EXCEPT ![item[d]] = cp] /\ written' = WrittenBy(d, item[d])
  <2>1. copy = [copy EXCEPT ![d] = copy[d]]
    BY <1>0 DEF DriverFunctions
  <2>2. [copy[d] EXCEPT !.status = "completed", !.next = None] \in Row
    BY <1>1, RowWith, ConstantTypes DEF Status
  <2>3. [copy[d] EXCEPT !.status = "active", !.next = at[d] + ProbeAfter] \in Row
    <3>1. at[d] + ProbeAfter \in Time
      BY <1>1, ConstantTypes
    <3>. QED
      BY <1>1, <3>1, RowWith DEF Status
  <2>. QED
    BY <1>0, <1>1, <2>1, <2>2, <2>3 DEF Check, SetRun, SetCopy, SaveItem, DriverFunctions
<1>3. /\ pc' = [pc EXCEPT ![d] = "record"]
      /\ UNCHANGED <<now, finished, crashes, edits, manuals, runs, submits, passVars,
                     item, idx, at, editVars>>
  BY DEF Check, Goto
<1>4. EnvTypes' /\ EditTypes' /\ PassTypes'
  BY <1>0, <1>1, <1>2, <1>3 DEF EnvTypes, EditTypes, PassTypes, passVars, editVars,
     WrittenBy
<1>5. StoreTypes'
  BY <1>0, <1>1, <1>2, <1>3 DEF StoreTypes
<1>6. /\ rec' = [rec EXCEPT ![d] = [rec[d] EXCEPT !.status = s]]
      /\ [rec[d] EXCEPT !.status = s] \in Run
      /\ [rec[d] EXCEPT !.status = s].attempts = 0
      /\ [rec[d] EXCEPT !.status = s].manual = rec[d].manual
  BY <1>1, <1>2 DEF Run, RunStatus
<1>7. DriverFunctions'
  BY <1>0, <1>2, <1>3, <1>6 DEF DriverFunctions, Labels
<1>8. InHand(d)'
  BY <1>0, <1>1, <1>2, <1>3, <1>6 DEF DriverFunctions, InHand, Holding, Known, ByPass
<1>9. HandsFull'
  BY <1>0, <1>2, <1>3, <1>6, <1>7, <1>8, OneDriver DEF DriverFunctions
<1>. QED
  BY <1>4, <1>5, <1>7, <1>9 DEF ScheduleTypes

\* Recording a run keeps the types.
LEMMA RecordTypes ==
  ASSUME ScheduleTypes, NEW d \in Drivers, Record(d)
  PROVE  ScheduleTypes'
<1>0. EnvTypes /\ EditTypes /\ StoreTypes /\ PassTypes /\ DriverFunctions /\ HandsFull
  BY DEF ScheduleTypes
<1>1. /\ pc[d] = "record" /\ item[d] \in Items /\ copy[d] \in Row /\ rec[d] \in Run
      /\ rec[d].attempts = 0 /\ (rec[d].manual <=> d # Scheduler)
  BY <1>0 DEF Record, HandsFull, InHand, Holding
<1>2. runs' = Append(runs, rec[d]) /\ submits' = Append(submits, 0) /\ UNCHANGED rows
  BY DEF Record
<1>3. /\ runs' \in Seq(Run) /\ submits' \in Seq(Nat)
      /\ Len(runs') = Len(runs) + 1 /\ Len(submits') = Len(submits) + 1
      /\ DOMAIN runs \subseteq DOMAIN runs' /\ Len(runs) + 1 \in DOMAIN runs'
      /\ \A k \in DOMAIN runs' : runs'[k] = IF k = Len(runs) + 1 THEN rec[d] ELSE runs[k]
      /\ \A k \in DOMAIN runs' : k # Len(runs) + 1 => k \in DOMAIN runs
  BY <1>0, <1>1, <1>2 DEF StoreTypes
<1>4. EnvTypes' /\ EditTypes'
  BY <1>0 DEF Record, EnvTypes, EditTypes, envVars, editVars
<1>5. StoreTypes'
  BY <1>0, <1>1, <1>2, <1>3, ConstantTypes DEF StoreTypes
<1>6. PassTypes'
  BY <1>0, <1>3 DEF Record, PassTypes, passVars
<1>7. CASE AfterRecord(d) = "end"
  BY <1>0, <1>3, <1>4, <1>5, <1>6, <1>7, ReturnKeeps DEF Record, StoreTypes, ScheduleTypes
<1>8. CASE AfterRecord(d) # "end"
  <2>1. /\ pc' = [pc EXCEPT ![d] = AfterRecord(d)]
        /\ idx' = [idx EXCEPT ![d] = Len(runs) + 1]
        /\ UNCHANGED <<item, copy, rec, at>>
    BY <1>8 DEF Record, Goto
  <2>2. /\ AfterRecord(d) \in {"save", "submit", "advance", "defer"}
        /\ AfterRecord(d) \in {"advance", "defer"} => d = Scheduler
    <3>1. CASE rec[d].status = "skipped"
      BY <1>8, <3>1 DEF AfterRecord
    <3>2. CASE rec[d].status = "claimed" /\ rec[d].manual
      BY <1>8, <3>2 DEF AfterRecord
    <3>3. CASE rec[d].status = "claimed" /\ ~rec[d].manual
      BY <1>1, <1>8, <3>3 DEF AfterRecord
    <3>4. CASE rec[d].status \notin {"skipped", "claimed"} /\ rec[d].manual
      BY <1>8, <3>4 DEF AfterRecord
    <3>5. CASE rec[d].status \notin {"skipped", "claimed"} /\ ~rec[d].manual
      BY <1>1, <1>8, <3>5 DEF AfterRecord
    <3>. QED
      BY <3>1, <3>2, <3>3, <3>4, <3>5
  <2>3. DriverFunctions'
    <3>1. pc' \in [Drivers -> Labels]
      BY <1>0, <2>1, <2>2 DEF DriverFunctions, Labels
    <3>2. idx' \in [Drivers -> 0..Len(runs')]
      BY <1>0, <1>3, <2>1 DEF DriverFunctions, StoreTypes
    <3>. QED
      BY <1>0, <2>1, <3>1, <3>2 DEF DriverFunctions
  <2>4. InHand(d)'
    BY <1>0, <1>1, <1>3, <2>1, <2>2 DEF DriverFunctions, InHand, Holding, Known, ByPass
  <2>5. HandsFull'
    BY <1>0, <1>3, <2>1, <2>3, <2>4, OneDriver DEF DriverFunctions
  <2>. QED
    BY <1>4, <1>5, <1>6, <2>3, <2>5 DEF ScheduleTypes
<1>. QED
  BY <1>7, <1>8

\* The item is saved, or moved on.
LEMMA SaveTypes ==
  ASSUME ScheduleTypes, NEW d \in Drivers,
         SaveCompleted(d) \/ Advance(d) \/ Defer(d) \/ Notify(d)
  PROVE  ScheduleTypes'
<1>0. EnvTypes /\ EditTypes /\ StoreTypes /\ PassTypes /\ DriverFunctions /\ HandsFull
  BY DEF ScheduleTypes
<1>1. /\ pc[d] \in {"save", "advance", "defer", "notify"}
      /\ item[d] \in Items /\ copy[d] \in Row /\ rec[d] \in Run
      /\ rec[d].attempts = 0 /\ (rec[d].manual <=> d # Scheduler)
      /\ at[d] \in Nat /\ idx[d] \in DOMAIN runs
      /\ pc[d] # "save" => d = Scheduler
  BY <1>0 DEF SaveCompleted, Advance, Defer, Notify, HandsFull, InHand, Holding, Known,
     ByPass,
     DriverFunctions
<1>2. UNCHANGED <<now, finished, crashes, edits, manuals, runs, submits, passVars, editVars>>
  BY DEF SaveCompleted, Advance, Defer, Notify, SaveItem, envVars
<1>3. /\ at[d] + DeferBy \in Time
      /\ [copy[d] EXCEPT !.status = "active", !.next = at[d] + DeferBy] \in Row
  <2>1. at[d] + DeferBy \in Time
    BY <1>1, ConstantTypes
  <2>. QED
    BY <1>1, <2>1, RowWith DEF Status
<1>4. PICK row \in Row : rows' = rows \/ rows' = [rows EXCEPT ![item[d]] = row]
  <2>1. CASE Advance(d)
    <3>1. rec[d].for \in Nat
      BY <1>1 DEF Run
    <3>2. Advanced(item[d], copy[d], rec[d].for, at[d]) \in Row
      BY <1>1, <3>1, AdvancedType
    <3>. QED
      BY <2>1, <3>2 DEF Advance
  <2>2. CASE Defer(d)
    <3>1. copy'[d] = [copy[d] EXCEPT !.status = "active", !.next = at[d] + DeferBy]
      BY <1>0, <2>2 DEF Defer, SetCopy, DriverFunctions
    <3>. QED
      BY <1>3, <2>2, <3>1 DEF Defer
  <2>. QED
    BY <1>1, <2>1, <2>2 DEF SaveCompleted, SaveItem, Notify
<1>5. written' = written \/ written' = WrittenBy(d, item[d])
  BY DEF SaveCompleted, SaveItem, Advance, Defer, Notify, envVars
<1>6. EnvTypes' /\ EditTypes' /\ PassTypes'
  BY <1>0, <1>1, <1>2, <1>5 DEF EnvTypes, EditTypes, PassTypes, WrittenBy, passVars,
     editVars
<1>7. StoreTypes'
  BY <1>0, <1>1, <1>2, <1>4 DEF StoreTypes
<1>8. DriverFunctions' /\ HandsFull'
  <2>1. CASE Return(d)
    BY <1>0, <1>2, <2>1, ReturnKeeps DEF StoreTypes
  <2>2. CASE pc' = [pc EXCEPT ![d] = "submit"] /\ UNCHANGED <<item, copy, rec, idx, at>>
    <3>1. DriverFunctions'
      BY <1>0, <1>2, <2>2 DEF DriverFunctions, Labels
    <3>2. InHand(d)'
      BY <1>0, <1>1, <1>2, <2>2 DEF DriverFunctions, InHand, Holding, Known, ByPass
    <3>. QED
      BY <1>0, <1>2, <2>2, <3>1, <3>2, OneDriver DEF DriverFunctions
  <2>3. CASE Defer(d)
    <3>1. /\ pc' = [pc EXCEPT ![d] = "notify"] /\ UNCHANGED <<item, rec, idx, at>>
          /\ copy' = [copy EXCEPT ![d] =
                        [copy[d] EXCEPT !.status = "active", !.next = at[d] + DeferBy]]
      BY <2>3 DEF Defer, Goto, SetCopy
    <3>2. DriverFunctions'
      BY <1>0, <1>2, <1>3, <3>1 DEF DriverFunctions, Labels
    <3>3. InHand(d)'
      <4>1. pc[d] = "defer" /\ d = Scheduler
        BY <1>1, <2>3 DEF Defer
      <4>. QED
        BY <1>0, <1>1, <1>2, <1>3, <3>1, <4>1 DEF DriverFunctions, InHand, Holding,
           Known, ByPass
    <3>. QED
      BY <1>0, <1>2, <3>1, <3>2, <3>3, OneDriver DEF DriverFunctions
  <2>. QED
    BY <2>1, <2>2, <2>3 DEF SaveCompleted, Advance, Notify, Goto
<1>. QED
  BY <1>6, <1>7, <1>8 DEF ScheduleTypes

\* Submitting and settling a run keep the types.
LEMMA SubmitTypes ==
  ASSUME ScheduleTypes, NEW d \in Drivers, Submit(d) \/ Settle(d)
  PROVE  ScheduleTypes'
<1>0. EnvTypes /\ EditTypes /\ StoreTypes /\ PassTypes /\ DriverFunctions /\ HandsFull
  BY DEF ScheduleTypes
<1>1. /\ pc[d] \in {"submit", "settle"}
      /\ item[d] \in Items /\ copy[d] \in Row /\ rec[d] \in Run
      /\ rec[d].attempts = 0 /\ (rec[d].manual <=> d # Scheduler)
      /\ at[d] \in Nat /\ idx[d] \in DOMAIN runs
  BY <1>0 DEF Submit, Settle, HandsFull, InHand, Holding, Known, DriverFunctions
<1>2. EnvTypes' /\ EditTypes' /\ UNCHANGED <<rows, due, claims>>
  BY <1>0 DEF Submit, Settle, EnvTypes, EditTypes, envVars, editVars, passVars
<1>3. CASE Submit(d)
  <2>1. UNCHANGED runs
    BY <1>3 DEF Submit
  <2>2. submits' \in Seq(Nat) /\ Len(submits') = Len(submits)
    <3>1. submits' = submits \/ submits' = [submits EXCEPT ![idx[d]] = @ + 1]
      BY <1>3 DEF Submit, Submitted
    <3>2. submits \in Seq(Nat) /\ idx[d] \in 1..Len(submits)
      BY <1>0, <1>1 DEF StoreTypes
    <3>. QED
      BY <3>1, <3>2, SMTT(30)
  <2>3. StoreTypes' /\ PassTypes'
    BY <1>0, <1>2, <2>1, <2>2 DEF StoreTypes, PassTypes
  <2>4. DriverFunctions' /\ HandsFull'
    <3>1. CASE Return(d)
      BY <1>0, <2>1, <3>1, ReturnKeeps DEF StoreTypes
    <3>2. CASE pc' = [pc EXCEPT ![d] = "settle"] /\ UNCHANGED <<item, copy, rec, idx, at>>
      <4>1. DriverFunctions'
        BY <1>0, <2>1, <3>2 DEF DriverFunctions, Labels
      <4>2. InHand(d)'
        BY <1>0, <1>1, <2>1, <3>2 DEF DriverFunctions, InHand, Holding, Known, ByPass
      <4>. QED
        BY <1>0, <2>1, <3>2, <4>1, <4>2, OneDriver DEF DriverFunctions
    <3>. QED
      BY <1>3, <3>1, <3>2 DEF Submit, Goto
  <2>. QED
    BY <1>2, <2>3, <2>4 DEF ScheduleTypes
<1>4. CASE Settle(d)
  <2>. DEFINE k == idx[d]
              r == [rec[d] EXCEPT !.status = "submitted"]
  <2>1. runs' = [runs EXCEPT ![k] = r] /\ Return(d) /\ UNCHANGED submits
    BY <1>4 DEF Settle
  <2>2. r \in Run /\ r.status = "submitted" /\ k \in DOMAIN runs
    BY <1>1 DEF Run, RunStatus
  <2>. HIDE DEF r, k
  <2>3. /\ runs' \in Seq(Run) /\ Len(runs') = Len(runs) /\ DOMAIN runs' = DOMAIN runs
        /\ \A j \in DOMAIN runs' : runs'[j] = IF j = k THEN r ELSE runs[j]
    BY <1>0, <2>1, <2>2 DEF StoreTypes
  <2>4. StoreTypes' /\ PassTypes'
    BY <1>0, <1>2, <2>1, <2>2, <2>3 DEF StoreTypes, PassTypes
  <2>5. DriverFunctions' /\ HandsFull'
    <3>1. runs \in Seq(Run) /\ runs' \in Seq(Run) /\ Len(runs') >= Len(runs)
      BY <1>0, <2>3 DEF StoreTypes
    <3>. QED
      BY <1>0, <2>1, <3>1, ReturnKeeps
  <2>. QED
    BY <1>2, <2>4, <2>5 DEF ScheduleTypes
<1>. QED
  BY <1>3, <1>4

\* Every step keeps the types.
LEMMA ScheduleTypesStep == ScheduleTypes /\ [Next]_vars => ScheduleTypes'
<1>1. ASSUME ScheduleTypes, UNCHANGED vars
      PROVE  ScheduleTypes'
  <2>1. EnvTypes' /\ EditTypes' /\ StoreTypes' /\ PassTypes'
    BY <1>1 DEF ScheduleTypes, vars, EnvTypes, EditTypes, StoreTypes, PassTypes, envVars,
       editVars, storeVars, passVars
  <2>. QED
    BY <1>1, <2>1, DriversStand DEF ScheduleTypes, vars, storeVars
<1>. QED
  BY <1>1, EnvironmentTypes, PassTypesStep, CheckTypes, RecordTypes, SaveTypes, SubmitTypes
     DEF Next, TriggerStep

\* Every variable of the store and of the coroutines keeps its type; a run is
\* never recovered more often than it may be.
THEOREM ScheduleTypesCorrect == Spec => []TypeOK
<1>1. ScheduleTypes => TypeOK
  BY DEF ScheduleTypes, TypeOK, EnvTypes, EditTypes, StoreTypes, PassTypes, DriverFunctions
<1>. QED
  BY <1>1, ScheduleInitially, ScheduleTypesStep, PTL DEF Spec

-----------------------------------------------------------------------------
(***************************************************************************)
(* Submitted once.  The scheduler is the only one that submits a scheduled *)
(* run, and the only one that records what became of it: a run it finds    *)
(* claimed has not been submitted since the last crash.                    *)
(***************************************************************************)

\* Two versions of one run.
Same(r, q) ==
  r.item = q.item /\ r.for = q.for /\ r.started = q.started /\ r.manual = q.manual

HeldRun(d) == pc[d] \in Known => Same(rec[d], runs[idx[d]])
HeldRuns == \A d \in Drivers : HeldRun(d)

ScheduledRun ==
  /\ pc[Scheduler] \in {"advance", "submit", "settle"} =>
       rec[Scheduler].status = runs[idx[Scheduler]].status
  /\ pc[Scheduler] \in {"submit", "settle"} => rec[Scheduler].status = "claimed"
  /\ pc[Scheduler] = "recovered" /\ ~runs[idx[Scheduler]].manual =>
       runs[idx[Scheduler]].status = "claimed"

\* A scheduled run among the old claims is as it was when the pass began.
ClaimsKnown ==
  /\ claims # {} => pc[Scheduler] \in {"recover", "recovered"}
  /\ \A c \in claims : /\ Same(c[2], runs[c[1]])
                       /\ ~runs[c[1]].manual => runs[c[1]].status = "claimed"
  /\ \A c, e \in claims : c[1] = e[1] => c = e
  /\ pc[Scheduler] = "recovered" => \A c \in claims : c[1] # idx[Scheduler]

\* Submitted, whether or not that is recorded yet.
Taken(k) ==
  \/ runs[k].status # "claimed"
  \/ idx[Scheduler] = k /\ pc[Scheduler] = "settle"
  \/ idx[Scheduler] = k /\ pc[Scheduler] = "recovered" /\ rec[Scheduler].status # "claimed"
SubmitCount ==
  \A k \in DOMAIN runs : ~runs[k].manual => /\ submits[k] <= crashes + 1
                                            /\ ~Taken(k) => submits[k] <= crashes

RunInv == HeldRuns /\ ScheduledRun /\ ClaimsKnown /\ SubmitCount

\* There is no run in the beginning.
LEMMA RunsInitially == Init => RunInv
  BY DEF Init, RunInv, HeldRuns, HeldRun, ScheduledRun, ClaimsKnown, SubmitCount, Known,
     Drivers

\* Steps that touch neither runs nor the scheduler.
LEMMA RunsStand ==
  ASSUME RunInv, UNCHANGED <<runs, submits, crashes, claims>>,
         NEW d \in Drivers, d # Scheduler, HeldRun(d)',
         \A e \in Drivers \ {d} : pc'[e] = pc[e] /\ rec'[e] = rec[e] /\ idx'[e] = idx[e]
  PROVE  RunInv'
  BY ConstantTypes
     DEF RunInv, HeldRuns, HeldRun, ScheduledRun, ClaimsKnown, SubmitCount, Taken

\* The environment does not submit runs.
LEMMA RunsEnvironment ==
  ASSUME ScheduleTypes, RunInv, Environment
  PROVE  RunInv'
<1>1. CASE UNCHANGED <<runs, submits, crashes, claims, pc, rec, idx>>
  BY <1>1 DEF RunInv, HeldRuns, HeldRun, ScheduledRun, ClaimsKnown, SubmitCount, Taken
<1>2. CASE Crash
  <2>1. HeldRuns' /\ ScheduledRun' /\ ClaimsKnown'
    BY <1>2, ConstantTypes DEF Crash, HeldRuns, HeldRun, ScheduledRun, ClaimsKnown, Known
  <2>2. \A k \in DOMAIN runs : submits[k] \in Nat
    BY DEF ScheduleTypes, StoreTypes
  <2>3. SubmitCount'
    BY <1>2, <2>2 DEF Crash, storeVars, RunInv, SubmitCount, ScheduleTypes, EnvTypes
  <2>. QED
    BY <2>1, <2>3 DEF RunInv
<1>3. ASSUME NEW c \in Callers, NEW i \in Items, TriggerManual(c, i)
      PROVE  RunInv'
  <2>1. /\ UNCHANGED <<runs, submits, crashes, claims>>
        /\ pc' = [pc EXCEPT ![c] = "check"]
        /\ rec' = [rec EXCEPT ![c] = NewRun(i, now, now, TRUE)] /\ idx' = idx
    BY <1>3 DEF TriggerManual, Goto, storeVars, passVars
  <2>2. HeldRun(c)'
    BY <2>1, ConstantTypes DEF HeldRun, Known, ScheduleTypes, DriverFunctions
  <2>. QED
    BY <2>1, <2>2, ConstantTypes, RunsStand DEF ScheduleTypes, DriverFunctions
<1>. QED
  BY <1>1, <1>2, <1>3 DEF Environment, Tick, Finish, EditRead, EditSave, storeVars,
     passVars,
     driverVars

\* What a step of the scheduler keeps of the callers' runs.
LEMMA CallersHold ==
  ASSUME HeldRuns, NEW d \in Drivers, HeldRun(d)',
         \A e \in Drivers \ {d} : pc'[e] = pc[e] /\ rec'[e] = rec[e] /\ idx'[e] = idx[e],
         \A e \in Drivers \ {d} : pc[e] \in Known => Same(runs[idx[e]], runs'[idx[e]])
  PROVE  HeldRuns'
  BY DEF HeldRuns, HeldRun, Same

\* Steps of the scheduler that submit nothing and record nothing.
LEMMA PassMoves ==
  ASSUME ScheduleTypes, RunInv, PassBegin \/ ListDue \/ PassEnd \/ \E i \in Items : TriggerDue(i)
  PROVE  RunInv'
<1>1. /\ UNCHANGED <<runs, submits, crashes, idx>>
      /\ \/ claims = {} /\ claims' = {}
         \/ pc[Scheduler] = "idle" /\ claims' = OldClaims /\ pc'[Scheduler] = "recover"
      /\ pc'[Scheduler] \in {"recover", "due", "idle", "check"}
      /\ pc[Scheduler] \in {"idle", "recover", "due"}
      /\ \A e \in Drivers \ {Scheduler} : pc'[e] = pc[e] /\ rec'[e] = rec[e] /\ idx'[e] = idx[e]
  <2>1. pc \in [Drivers -> Labels] /\ rec \in [Drivers -> Run \cup {None}] /\ Scheduler \in Drivers
    BY ConstantTypes DEF ScheduleTypes, DriverFunctions
  <2>2. CASE PassBegin
    BY <2>1, <2>2 DEF PassBegin, Goto, storeVars, envVars
  <2>3. CASE ListDue \/ PassEnd
    BY <2>1, <2>3 DEF ListDue, PassEnd, Goto, storeVars, envVars, passVars, RunInv,
       ClaimsKnown
  <2>4. CASE \E i \in Items : TriggerDue(i)
    BY <2>1, <2>4 DEF TriggerDue, Goto, storeVars, envVars, RunInv, ClaimsKnown
  <2>. QED
    BY <2>2, <2>3, <2>4
<1>2. HeldRuns'
  <2>1. HeldRun(Scheduler)'
    BY <1>1 DEF HeldRun, Known
  <2>. QED
    BY <1>1, <2>1, CallersHold, ConstantTypes DEF RunInv, Same
<1>3. ScheduledRun' /\ SubmitCount'
  BY <1>1 DEF RunInv, ScheduledRun, SubmitCount, Taken
<1>4. ClaimsKnown'
  <2>1. /\ \A c \in OldClaims : c[2] = runs[c[1]] /\ runs[c[1]].status = "claimed"
        /\ \A c, e \in OldClaims : c[1] = e[1] => c = e
    BY DEF OldClaims
  <2>. QED
    BY <1>1, <2>1 DEF ClaimsKnown, Same
<1>. QED
  BY <1>2, <1>3, <1>4 DEF RunInv

\* A recovery that submits a claim's work keeps the account of submissions.
LEMMA RecoverSubmitRuns ==
  ASSUME ScheduleTypes, RunInv, NEW c \in claims, RecoverSubmit(c)
  PROVE  RunInv'
<1>. DEFINE k == c[1]
            r == rec'[Scheduler]
<1>0. /\ Scheduler \in Drivers /\ c[2] \in Run /\ k \in DOMAIN runs
      /\ c[2].status = "claimed" /\ Same(c[2], runs[k])
      /\ submits \in Seq(Nat) /\ k \in DOMAIN submits /\ crashes \in Nat
      /\ DOMAIN submits = DOMAIN runs
  BY ConstantTypes DEF ScheduleTypes, PassTypes, StoreTypes, EnvTypes, RunInv, ClaimsKnown
<1>1. /\ pc[Scheduler] = "recover" /\ pc'[Scheduler] = "recovered" /\ idx'[Scheduler] = k
      /\ claims' = claims \ {c}
      /\ UNCHANGED <<runs, crashes>>
      /\ \A e \in Drivers \ {Scheduler} : pc'[e] = pc[e] /\ rec'[e] = rec[e] /\ idx'[e] = idx[e]
  BY <1>0 DEF RecoverSubmit, Goto, ScheduleTypes, DriverFunctions, envVars
<1>2. /\ Same(r, c[2])
      /\ \/ submits' = [submits EXCEPT ![k] = @ + 1] /\ r.status = "submitted"
         \/ submits' = submits
  <2>1. CASE /\ Submitted(k)
             /\ rec' = [rec EXCEPT ![Scheduler] =
                          [c[2] EXCEPT !.attempts = @ + 1, !.status = "submitted"]]
    <3>1. r = [c[2] EXCEPT !.attempts = @ + 1, !.status = "submitted"]
      BY <1>0, <2>1 DEF ScheduleTypes, DriverFunctions
    <3>2. Same(r, c[2]) /\ r.status = "submitted"
      BY <1>0, <3>1 DEF Same, Run
    <3>. QED
      BY <2>1, <3>2 DEF Submitted
  <2>2. CASE rec' = [rec EXCEPT ![Scheduler] = Refused(c[2])] /\ UNCHANGED submits
    <3>1. r = Refused(c[2])
      BY <1>0, <2>2 DEF ScheduleTypes, DriverFunctions
    <3>2. Same(Refused(c[2]), c[2])
      BY <1>0 DEF Same, Run, Refused
    <3>. QED
      BY <2>2, <3>1, <3>2
  <2>. QED
    BY <2>1, <2>2 DEF RecoverSubmit
<1>. HIDE DEF k, r
<1>3. HeldRuns'
  <2>1. HeldRun(Scheduler)'
    BY <1>0, <1>1, <1>2 DEF HeldRun, Same, r
  <2>. QED
    BY <1>0, <1>1, <2>1, CallersHold DEF RunInv, Same
<1>4. ScheduledRun' /\ ClaimsKnown'
  BY <1>0, <1>1 DEF RunInv, ScheduledRun, ClaimsKnown, k
<1>5. ASSUME NEW j \in DOMAIN runs, ~runs[j].manual
      PROVE  submits'[j] <= crashes + 1 /\ (~Taken(j)' => submits'[j] <= crashes)
  <2>1. submits[j] \in Nat /\ submits[j] <= crashes + 1 /\ (~Taken(j) => submits[j] <= crashes)
    BY <1>0, <1>5 DEF RunInv, SubmitCount
  <2>2. CASE j = k
    <3>1. ~Taken(j)
      BY <1>0, <1>1, <1>5, <2>2 DEF RunInv, ClaimsKnown, Taken, k
    <3>2. CASE submits' = [submits EXCEPT ![k] = @ + 1] /\ r.status = "submitted"
      <4>1. Taken(j)'
        BY <1>1, <2>2, <3>2 DEF Taken, r
      <4>. QED
        BY <1>0, <2>1, <2>2, <3>1, <3>2, <4>1
    <3>. QED
      BY <1>2, <2>1, <3>1, <3>2
  <2>3. CASE j # k
    <3>1. submits'[j] = submits[j]
      BY <1>0, <1>2, <2>3
    <3>2. Taken(j) = Taken(j)'
      BY <1>1, <2>3 DEF Taken
    <3>. QED
      BY <1>1, <2>1, <3>1, <3>2
  <2>. QED
    BY <2>2, <2>3
<1>6. SubmitCount'
  BY <1>1, <1>5 DEF SubmitCount
<1>. QED
  BY <1>3, <1>4, <1>6 DEF RunInv

\* A recovery records what it submitted.
LEMMA RecoverRecordRuns ==
  ASSUME ScheduleTypes, RunInv, RecoverRecord
  PROVE  RunInv'
<1>. DEFINE k == idx[Scheduler]
            r == rec[Scheduler]
<1>0. /\ Scheduler \in Drivers /\ pc[Scheduler] = "recovered"
      /\ k \in DOMAIN runs /\ Same(r, runs[k])
      /\ \A c \in claims : c[1] # k
  BY ConstantTypes DEF RecoverRecord, ScheduleTypes, HandsFull, InHand, Known, RunInv,
     HeldRuns,
     HeldRun, ClaimsKnown
<1>1. /\ pc'[Scheduler] = "recover"
      /\ runs' = [runs EXCEPT ![k] = r]
      /\ UNCHANGED <<submits, crashes, claims>>
      /\ \A e \in Drivers \ {Scheduler} : pc'[e] = pc[e] /\ rec'[e] = rec[e] /\ idx'[e] = idx[e]
  BY <1>0 DEF RecoverRecord, Goto, ScheduleTypes, DriverFunctions, envVars, passVars
<1>. HIDE DEF k, r
<1>2. /\ DOMAIN runs' = DOMAIN runs
      /\ \A j \in DOMAIN runs : /\ runs'[j] = IF j = k THEN r ELSE runs[j]
                                /\ Same(runs[j], runs'[j])
  BY <1>0, <1>1 DEF ScheduleTypes, StoreTypes, Same
<1>3. HeldRuns'
  <2>1. HeldRun(Scheduler)'
    BY <1>1 DEF HeldRun, Known
  <2>2. \A e \in Drivers : pc[e] \in Known => idx[e] \in DOMAIN runs
    BY DEF ScheduleTypes, HandsFull, InHand
  <2>. QED
    BY <1>0, <1>1, <1>2, <2>1, <2>2, CallersHold DEF RunInv
<1>4. ScheduledRun' /\ ClaimsKnown'
  <2>1. \A c \in claims : c[1] \in DOMAIN runs
    BY DEF ScheduleTypes, PassTypes
  <2>. QED
    BY <1>0, <1>1, <1>2, <2>1 DEF RunInv, ScheduledRun, ClaimsKnown
<1>5. SubmitCount'
  <2>1. ASSUME NEW j \in DOMAIN runs, ~runs[j].manual
        PROVE  submits[j] <= crashes + 1 /\ (~Taken(j)' => submits[j] <= crashes)
    <3>1. submits[j] <= crashes + 1 /\ (~Taken(j) => submits[j] <= crashes)
      BY <2>1 DEF RunInv, SubmitCount
    <3>2. ~Taken(j)' => ~Taken(j)
      BY <1>0, <1>1, <1>2, <2>1 DEF Taken, RunInv, ScheduledRun, k, r
    <3>. QED
      BY <3>1, <3>2
  <2>. QED
    BY <1>1, <1>2, <2>1 DEF SubmitCount, Same
<1>. QED
  BY <1>3, <1>4, <1>5 DEF RunInv

\* A trigger, up to the submission.
LEMMA CheckRuns ==
  ASSUME ScheduleTypes, RunInv, NEW d \in Drivers, Check(d)
  PROVE  RunInv'
<1>1. /\ UNCHANGED <<runs, submits, crashes, claims, idx>>
      /\ pc[d] = "check" /\ pc'[d] = "record"
      /\ \A e \in Drivers \ {d} : pc'[e] = pc[e] /\ rec'[e] = rec[e] /\ idx'[e] = idx[e]
  <2>1. pc \in [Drivers -> Labels] /\ rec \in [Drivers -> Run \cup {None}]
    BY DEF ScheduleTypes, DriverFunctions
  <2>. QED
    BY <2>1 DEF Check, SetRun, Goto, passVars
<1>2. HeldRuns'
  <2>1. HeldRun(d)'
    BY <1>1 DEF HeldRun, Known
  <2>. QED
    BY <1>1, <2>1, CallersHold DEF RunInv, Same
<1>3. ScheduledRun' /\ ClaimsKnown' /\ SubmitCount'
  BY <1>1, ConstantTypes DEF RunInv, ScheduledRun, ClaimsKnown, SubmitCount, Taken
<1>. QED
  BY <1>2, <1>3 DEF RunInv

\* What the end of a trigger does to the drivers.
LEMMA ReturnEffect ==
  ASSUME DriverFunctions, NEW d \in Drivers, Return(d)
  PROVE  /\ pc'[d] = IF d = Scheduler THEN "due" ELSE "idle"
         /\ \A e \in Drivers \ {d} : /\ pc'[e] = pc[e] /\ item'[e] = item[e]
                                     /\ copy'[e] = copy[e] /\ rec'[e] = rec[e]
                                     /\ idx'[e] = idx[e] /\ at'[e] = at[e]
         /\ d = Scheduler => at' = at
  BY DEF DriverFunctions, Return, Goto

\* A new run has not been submitted.
LEMMA RecordRuns ==
  ASSUME ScheduleTypes, RunInv, NEW d \in Drivers, Record(d)
  PROVE  RunInv'
<1>. DEFINE n == Len(runs) + 1
<1>0. /\ DriverFunctions /\ StoreTypes /\ Scheduler \in Drivers
      /\ pc[d] = "record" /\ rec[d] \in Run /\ (rec[d].manual <=> d # Scheduler)
      /\ runs \in Seq(Run) /\ submits \in Seq(Nat) /\ Len(submits) = Len(runs) /\ crashes \in Nat
  BY ConstantTypes DEF Record, ScheduleTypes, HandsFull, InHand, Holding, StoreTypes,
     EnvTypes
<1>1. runs' = Append(runs, rec[d]) /\ submits' = Append(submits, 0) /\ UNCHANGED <<crashes, claims>>
  BY DEF Record, envVars, passVars
<1>2. /\ DOMAIN runs' = DOMAIN runs \cup {n} /\ n \notin DOMAIN runs
      /\ runs'[n] = rec[d] /\ submits'[n] = 0
      /\ \A k \in DOMAIN runs : runs'[k] = runs[k] /\ submits'[k] = submits[k]
  BY <1>0, <1>1
<1>. HIDE DEF n
<1>3. /\ \A e \in Drivers \ {d} : pc'[e] = pc[e] /\ rec'[e] = rec[e] /\ idx'[e] = idx[e]
      /\ \/ pc'[d] = IF d = Scheduler THEN "due" ELSE "idle"
         \/ /\ idx'[d] = n /\ rec'[d] = rec[d]
            /\ pc'[d] \in {"save", "submit", "advance", "defer"}
            /\ pc'[d] = "submit" => d # Scheduler
  <2>1. CASE AfterRecord(d) = "end"
    BY <1>0, <2>1, ReturnEffect DEF Record
  <2>2. CASE AfterRecord(d) # "end"
    <3>1. /\ pc' = [pc EXCEPT ![d] = AfterRecord(d)] /\ idx' = [idx EXCEPT ![d] = n]
          /\ rec' = rec
      BY <2>2 DEF Record, Goto, n
    <3>2. /\ AfterRecord(d) \in {"save", "submit", "advance", "defer"}
          /\ AfterRecord(d) = "submit" => d # Scheduler
      <4>1. CASE rec[d].status \in {"skipped", "failed"}
        BY <2>2, <4>1 DEF AfterRecord
      <4>2. CASE rec[d].status = "claimed" /\ rec[d].manual
        BY <1>0, <2>2, <4>2 DEF AfterRecord
      <4>3. CASE rec[d].status = "claimed" /\ ~rec[d].manual
        BY <1>0, <2>2, <4>3 DEF AfterRecord
      <4>4. CASE rec[d].status \notin {"skipped", "failed", "claimed"}
        BY <2>2, <4>4 DEF AfterRecord
      <4>. QED
        BY <4>1, <4>2, <4>3, <4>4
    <3>. QED
      BY <1>0, <3>1, <3>2 DEF DriverFunctions
  <2>. QED
    BY <2>1, <2>2
<1>4. HeldRuns'
  <2>1. HeldRun(d)'
    BY <1>2, <1>3 DEF HeldRun, Known, Same
  <2>2. \A e \in Drivers : pc[e] \in Known => idx[e] \in DOMAIN runs
    BY DEF ScheduleTypes, HandsFull, InHand
  <2>. QED
    BY <1>2, <1>3, <2>1, <2>2, CallersHold DEF RunInv, Same
<1>5. ScheduledRun'
  <2>1. pc[Scheduler] \in Known => idx[Scheduler] \in DOMAIN runs
    BY <1>0 DEF ScheduleTypes, HandsFull, InHand
  <2>. QED
    BY <1>0, <1>2, <1>3, <2>1 DEF RunInv, ScheduledRun, Known
<1>6. ClaimsKnown'
  <2>1. \A c \in claims : c[1] \in DOMAIN runs
    BY DEF ScheduleTypes, PassTypes
  <2>2. d = Scheduler => claims = {}
    BY <1>0 DEF RunInv, ClaimsKnown
  <2>3. CASE d = Scheduler
    BY <1>1, <1>3, <2>2, <2>3 DEF ClaimsKnown
  <2>4. CASE d # Scheduler
    BY <1>0, <1>1, <1>2, <1>3, <2>1, <2>4 DEF RunInv, ClaimsKnown
  <2>. QED
    BY <2>3, <2>4
<1>7. SubmitCount'
  <2>1. ASSUME NEW k \in DOMAIN runs, ~runs[k].manual
        PROVE  submits[k] <= crashes + 1 /\ (~Taken(k)' => submits[k] <= crashes)
    <3>1. submits[k] <= crashes + 1 /\ (~Taken(k) => submits[k] <= crashes)
      BY <2>1 DEF RunInv, SubmitCount
    <3>2. ~Taken(k)' => ~Taken(k)
      BY <1>0, <1>2, <1>3 DEF Taken
    <3>. QED
      BY <3>1, <3>2
  <2>. QED
    BY <1>0, <1>1, <1>2, <2>1 DEF SubmitCount
<1>. QED
  BY <1>4, <1>5, <1>6, <1>7 DEF RunInv

\* Saving the item's row leaves runs alone.
LEMMA SaveRuns ==
  ASSUME ScheduleTypes, RunInv, NEW d \in Drivers,
         SaveCompleted(d) \/ Advance(d) \/ Defer(d) \/ Notify(d)
  PROVE  RunInv'
<1>0. /\ DriverFunctions /\ Scheduler \in Drivers /\ pc[d] \in Known
      /\ pc[d] \in {"save", "advance", "defer", "notify"}
  BY ConstantTypes DEF ScheduleTypes, SaveCompleted, Advance, Defer, Notify, Known
<1>1. /\ UNCHANGED <<runs, submits, crashes, claims>>
      /\ \A e \in Drivers \ {d} : pc'[e] = pc[e] /\ rec'[e] = rec[e] /\ idx'[e] = idx[e]
      /\ \/ pc'[d] = IF d = Scheduler THEN "due" ELSE "idle"
         \/ pc'[d] = "notify" /\ rec' = rec /\ idx' = idx
         \/ pc'[d] = "submit" /\ rec' = rec /\ idx' = idx /\ rec[d].status = "claimed"
            /\ pc[d] = "advance"
  <2>1. CASE Return(d)
    BY <1>0, <2>1, ReturnEffect
       DEF SaveCompleted, Advance, Defer, Notify, envVars, passVars
  <2>2. CASE ~Return(d)
    BY <1>0, <2>2 DEF SaveCompleted, Advance, Defer, Notify, envVars, passVars, Goto,
       DriverFunctions
  <2>. QED
    BY <2>1, <2>2
<1>2. HeldRuns'
  <2>1. HeldRun(d)'
    BY <1>0, <1>1 DEF HeldRun, Known, RunInv, HeldRuns
  <2>. QED
    BY <1>1, <2>1, CallersHold DEF RunInv, Same
<1>3. ScheduledRun' /\ ClaimsKnown' /\ SubmitCount'
  BY <1>0, <1>1 DEF RunInv, ScheduledRun, ClaimsKnown, SubmitCount, Taken
<1>. QED
  BY <1>2, <1>3 DEF RunInv

\* The driver that holds a run submits it once.
LEMMA SubmitRuns ==
  ASSUME ScheduleTypes, RunInv, NEW d \in Drivers, Submit(d)
  PROVE  RunInv'
<1>. DEFINE k == idx[d]
<1>0. /\ DriverFunctions /\ Scheduler \in Drivers /\ pc[d] = "submit"
      /\ submits \in Seq(Nat) /\ Len(submits) = Len(runs) /\ DOMAIN submits = DOMAIN runs
      /\ crashes \in Nat /\ k \in DOMAIN runs
      /\ Same(rec[d], runs[k]) /\ (rec[d].manual <=> d # Scheduler)
      /\ d = Scheduler => runs[k].status = "claimed"
  BY ConstantTypes DEF Submit, ScheduleTypes, StoreTypes, EnvTypes, HandsFull, InHand,
     Holding,
     Known, RunInv, HeldRuns, HeldRun, ScheduledRun
<1>1. /\ UNCHANGED <<runs, crashes, claims>>
      /\ \A e \in Drivers \ {d} : pc'[e] = pc[e] /\ rec'[e] = rec[e] /\ idx'[e] = idx[e]
      /\ \/ /\ submits' = [submits EXCEPT ![k] = @ + 1]
            /\ pc'[d] = "settle" /\ rec' = rec /\ idx' = idx
         \/ /\ submits' = submits /\ pc'[d] = IF d = Scheduler THEN "due" ELSE "idle"
  <2>1. CASE Return(d) /\ UNCHANGED submits
    BY <1>0, <2>1, ReturnEffect DEF Submit, envVars, passVars
  <2>2. CASE Submitted(k) /\ Goto(d, "settle") /\ UNCHANGED <<item, copy, rec, idx, at>>
    BY <1>0, <2>2 DEF Submit, Submitted, Goto, envVars, passVars, DriverFunctions
  <2>. QED
    BY <2>1, <2>2 DEF Submit
<1>. HIDE DEF k
<1>2. HeldRuns'
  <2>1. HeldRun(d)'
    BY <1>0, <1>1 DEF HeldRun, Known, RunInv, HeldRuns
  <2>. QED
    BY <1>1, <2>1, CallersHold DEF RunInv, Same
<1>3. ScheduledRun' /\ ClaimsKnown'
  BY <1>0, <1>1 DEF RunInv, ScheduledRun, ClaimsKnown
<1>4. ASSUME NEW j \in DOMAIN runs, ~runs[j].manual
      PROVE  submits'[j] <= crashes + 1 /\ (~Taken(j)' => submits'[j] <= crashes)
  <2>1. submits[j] \in Nat /\ submits[j] <= crashes + 1 /\ (~Taken(j) => submits[j] <= crashes)
    BY <1>0, <1>4 DEF RunInv, SubmitCount
  <2>2. CASE j # k \/ submits' = submits
    <3>1. submits'[j] = submits[j]
      BY <1>0, <1>1, <2>2
    <3>2. ~Taken(j)' => ~Taken(j)
      BY <1>0, <1>1 DEF Taken
    <3>. QED
      BY <2>1, <3>1, <3>2
  <2>3. CASE j = k /\ submits' = [submits EXCEPT ![k] = @ + 1] /\ pc'[d] = "settle" /\ idx' = idx
    <3>1. d = Scheduler
      BY <1>0, <1>4, <2>3 DEF Same
    <3>2. ~Taken(j) /\ Taken(j)'
      BY <1>0, <2>3, <3>1 DEF Taken, k
    <3>. QED
      BY <1>0, <2>1, <2>3, <3>2
  <2>. QED
    BY <1>1, <2>2, <2>3
<1>5. SubmitCount'
  BY <1>1, <1>4 DEF SubmitCount
<1>. QED
  BY <1>2, <1>3, <1>5 DEF RunInv

\* A settled run is nobody's.
LEMMA SettleRuns ==
  ASSUME ScheduleTypes, RunInv, NEW d \in Drivers, Settle(d)
  PROVE  RunInv'
<1>. DEFINE k == idx[d]
            r == [rec[d] EXCEPT !.status = "submitted"]
<1>0. /\ DriverFunctions /\ Scheduler \in Drivers /\ pc[d] = "settle"
      /\ k \in DOMAIN runs /\ Same(r, runs[k]) /\ r.status = "submitted"
      /\ runs[k].manual <=> d # Scheduler
  <2>1. /\ DriverFunctions /\ Scheduler \in Drivers /\ pc[d] = "settle"
        /\ k \in DOMAIN runs /\ Same(rec[d], runs[k]) /\ (rec[d].manual <=> d # Scheduler)
        /\ rec[d] \in Run
    BY ConstantTypes DEF Settle, ScheduleTypes, HandsFull, InHand, Holding, Known, RunInv,
       HeldRuns, HeldRun
  <2>2. Same(r, rec[d]) /\ r.status = "submitted"
    BY <2>1 DEF Run, Same
  <2>. HIDE DEF r
  <2>. QED
    BY <2>1, <2>2 DEF Same
<1>1. /\ runs' = [runs EXCEPT ![k] = r]
      /\ UNCHANGED <<submits, crashes, claims>>
      /\ pc'[d] = IF d = Scheduler THEN "due" ELSE "idle"
      /\ \A e \in Drivers \ {d} : pc'[e] = pc[e] /\ rec'[e] = rec[e] /\ idx'[e] = idx[e]
  BY <1>0, ReturnEffect DEF Settle, envVars, passVars
<1>. HIDE DEF k, r
<1>2. /\ DOMAIN runs' = DOMAIN runs
      /\ \A j \in DOMAIN runs : /\ runs'[j] = IF j = k THEN r ELSE runs[j]
                                /\ Same(runs[j], runs'[j])
  BY <1>0, <1>1 DEF ScheduleTypes, StoreTypes, Same
<1>3. HeldRuns'
  <2>1. HeldRun(d)'
    BY <1>1 DEF HeldRun, Known
  <2>2. \A e \in Drivers : pc[e] \in Known => idx[e] \in DOMAIN runs
    BY DEF ScheduleTypes, HandsFull, InHand
  <2>. QED
    BY <1>0, <1>1, <1>2, <2>1, <2>2, CallersHold DEF RunInv
<1>4. ScheduledRun'
  <2>1. CASE d = Scheduler
    BY <1>1, <2>1 DEF ScheduledRun
  <2>2. CASE d # Scheduler
    <3>1. /\ pc'[Scheduler] = pc[Scheduler] /\ rec'[Scheduler] = rec[Scheduler]
          /\ idx'[Scheduler] = idx[Scheduler] /\ runs[k].manual
      BY <1>0, <1>1, <2>2
    <3>2. pc[Scheduler] \in Known => idx[Scheduler] \in DOMAIN runs
      BY <1>0 DEF ScheduleTypes, HandsFull, InHand
    <3>3. pc[Scheduler] \in {"advance", "submit", "settle"} => ~runs[idx[Scheduler]].manual
      BY <1>0 DEF RunInv, HeldRuns, HeldRun, Known, Same, ScheduleTypes, HandsFull, InHand,
         Holding
    <3>. QED
      BY <1>2, <3>1, <3>2, <3>3 DEF RunInv, ScheduledRun, Known, Same
  <2>. QED
    BY <2>1, <2>2
<1>5. ClaimsKnown'
  <2>1. \A c \in claims : c[1] \in DOMAIN runs
    BY DEF ScheduleTypes, PassTypes
  <2>2. d = Scheduler => claims = {}
    BY <1>0 DEF RunInv, ClaimsKnown
  <2>3. CASE d = Scheduler
    BY <1>1, <2>2, <2>3 DEF ClaimsKnown
  <2>4. CASE d # Scheduler
    <3>1. \A c \in claims : Same(c[2], runs'[c[1]])
      BY <1>2, <2>1 DEF RunInv, ClaimsKnown, Same
    <3>2. \A c \in claims : ~runs'[c[1]].manual => runs'[c[1]].status = "claimed"
      BY <1>0, <1>2, <2>1, <2>4 DEF RunInv, ClaimsKnown, Same
    <3>. QED
      BY <1>0, <1>1, <2>4, <3>1, <3>2 DEF RunInv, ClaimsKnown
  <2>. QED
    BY <2>3, <2>4
<1>6. SubmitCount'
  <2>1. ASSUME NEW j \in DOMAIN runs, ~runs[j].manual
        PROVE  submits[j] <= crashes + 1 /\ (~Taken(j)' => submits[j] <= crashes)
    <3>1. submits[j] <= crashes + 1 /\ (~Taken(j) => submits[j] <= crashes)
      BY <2>1 DEF RunInv, SubmitCount
    <3>2. ~Taken(j)' => ~Taken(j)
      BY <1>0, <1>1, <1>2, <2>1 DEF Taken, k
    <3>. QED
      BY <3>1, <3>2
  <2>. QED
    BY <1>1, <1>2, <2>1 DEF SubmitCount, Same
<1>. QED
  BY <1>3, <1>4, <1>5, <1>6 DEF RunInv

\* Every step keeps the account of submissions.
LEMMA RunStep == ScheduleTypes /\ RunInv /\ [Next]_vars => RunInv'
<1>1. ASSUME RunInv, UNCHANGED vars
      PROVE  RunInv'
  BY <1>1 DEF vars, envVars, storeVars, passVars, driverVars, RunInv, HeldRuns, HeldRun,
     ScheduledRun, ClaimsKnown, SubmitCount, Taken
<1>2. ASSUME ScheduleTypes, RunInv, PassStep
      PROVE  RunInv'
  BY <1>2, PassMoves, RecoverSubmitRuns, RecoverRecordRuns DEF PassStep
<1>3. ASSUME ScheduleTypes, RunInv, NEW d \in Drivers, TriggerStep(d)
      PROVE  RunInv'
  BY <1>3, CheckRuns, RecordRuns, SaveRuns, SubmitRuns, SettleRuns DEF TriggerStep
<1>. QED
  BY <1>1, <1>2, <1>3, RunsEnvironment DEF Next

\* The two invariants together are inductive.
LEMMA RunsHold == Spec => [](ScheduleTypes /\ RunInv)
  BY ScheduleInitially, ScheduleTypesStep, RunsInitially, RunStep, PTL DEF Spec

\* The work of a scheduled run is submitted again only if a crash came between
\* the submission and its record, whatever callers trigger and editors change
\* meanwhile, and however recoveries and passes follow each other.
THEOREM WorkSubmittedOnce == Spec => []SubmittedOnce
<1>1. ScheduleTypes /\ RunInv => SubmittedOnce
  <2>. SUFFICES ASSUME ScheduleTypes, RunInv, NEW k \in DOMAIN runs, ~runs[k].manual
                PROVE  submits[k] <= 1 + crashes
    BY DEF SubmittedOnce
  <2>1. submits[k] <= crashes + 1 /\ crashes \in Nat
    BY DEF RunInv, SubmitCount, ScheduleTypes, EnvTypes
  <2>. QED
    BY <2>1
<1>. QED
  BY <1>1, RunsHold, PTL

-----------------------------------------------------------------------------
(***************************************************************************)
(* The latest occurrence.  The catch-up loop gives up after CatchUpGuard   *)
(* steps; it reaches the latest occurrence as long as so many periods      *)
(* outlast the time the system has been running.                           *)
(***************************************************************************)
EnoughCatchUp == \A i \in Items : Period[i] # 0 => (CatchUpGuard + 1) * Period[i] > MaxTime

\* The catch-up loop ends at the last occurrence due, if its guard does not stop it.
LEMMA LatestDueIsLatest ==
  ASSUME NEW i \in Items, NEW row \in Row, NEW t \in Nat, row.next \in Nat, Period[i] # 0,
         (CatchUpGuard + 1) * Period[i] > t
  PROVE  \/ LatestDue(i, row, t) + Period[i] > t
         \/ Ended(i, LatestDue(i, row, t) + Period[i])
<1>. DEFINE c(n) == row.next + n * Period[i]
            later == { n \in 1..CatchUpGuard : c(n) <= t /\ ~Ended(i, c(n)) }
<1>1. Period[i] \in Nat /\ CatchUpGuard \in Nat
  BY ConstantsAssumption DEF ConstantsAssumption
<1>2. LatestDue(i, row, t) = IF later = {} THEN row.next ELSE c(Max(later))
  BY DEF LatestDue
<1>3. \A n \in Nat : c(n) \in Nat /\ c(n + 1) = c(n) + Period[i]
  <2>. SUFFICES ASSUME NEW n \in Nat
                PROVE  c(n) \in Nat /\ c(n + 1) = c(n) + Period[i]
    OBVIOUS
  <2>. DEFINE p == n * Period[i]
              q == (n + 1) * Period[i]
  <2>1. p \in Nat /\ q = p + Period[i]
    BY <1>1, Steps
  <2>2. c(n) = row.next + p /\ c(n + 1) = row.next + q
    OBVIOUS
  <2>. HIDE DEF p, q, c
  <2>. QED
    BY <1>1, <2>1, <2>2
<1>4. c(0) = row.next
  BY <1>1
<1>5. PICK m \in 0..CatchUpGuard : LatestDue(i, row, t) = c(m) /\ m + 1 \notin later
  <2>1. CASE later = {}
    BY <1>1, <1>2, <1>4, <2>1
  <2>2. CASE later # {}
    <3>1. later \subseteq 0..CatchUpGuard
      BY <1>1
    <3>2. Max(later) \in later /\ \A n \in later : Max(later) >= n
      <4>. HIDE DEF later
      <4>. QED
        BY <1>1, <2>2, <3>1, MaxIsGreatest
    <3>. HIDE DEF later
    <3>. DEFINE m == Max(later)
    <3>3. m \in 0..CatchUpGuard /\ \A n \in later : m >= n
      BY <3>1, <3>2
    <3>. HIDE DEF m
    <3>4. m + 1 \notin later
      <4>1. ~(m >= m + 1)
        BY <1>1, <3>3
      <4>. QED
        BY <3>3, <4>1
    <3>5. LatestDue(i, row, t) = c(m)
      BY <1>2, <2>2 DEF m
    <3>. HIDE DEF c
    <3>. QED
      BY <3>3, <3>4, <3>5
  <2>. QED
    BY <2>1, <2>2
<1>6. c(m) + Period[i] = c(m + 1)
  BY <1>1, <1>3, <1>5
<1>7. CASE m + 1 \in 1..CatchUpGuard
  <2>1. ~(c(m + 1) <= t) \/ Ended(i, c(m + 1))
    BY <1>5, <1>7
  <2>2. c(m + 1) \in Nat
    BY <1>1, <1>3, <1>5
  <2>. HIDE DEF c, later
  <2>. QED
    BY <1>5, <1>6, <2>1, <2>2
<1>8. CASE m = CatchUpGuard
  <2>1. c(m + 1) = row.next + (CatchUpGuard + 1) * Period[i]
    BY <1>8
  <2>2. (CatchUpGuard + 1) * Period[i] \in Nat
    BY <1>1, Steps
  <2>. HIDE DEF c, later
  <2>. QED
    BY <1>5, <1>6, <2>1, <2>2
<1>. QED
  BY <1>1, <1>5, <1>7, <1>8

\* A run for the latest occurrence that was due when it started.
Latest(r) ==
  /\ r.for <= r.started
  /\ EnoughCatchUp /\ Period[r.item] # 0 => \/ r.for + Period[r.item] > r.started
                                            \/ Ended(r.item, r.for + Period[r.item])

DueRows ==
  /\ at[Scheduler] <= now
  /\ pc[Scheduler] \in {"idle", "recover", "recovered"} => \A i \in Items : due[i] = None
  /\ \A i \in Items : due[i] # None => due[i].status = "active" /\ due[i].next <= at[Scheduler]
RunInHand ==
  pc[Scheduler] \in Holding =>
    /\ rec[Scheduler].item = item[Scheduler] /\ rec[Scheduler].started = at[Scheduler]
    /\ Latest(rec[Scheduler])
RunsLatest == \A k \in DOMAIN runs : ~runs[k].manual => Latest(runs[k])
LatestInv == DueRows /\ RunInHand /\ RunsLatest

\* There is nothing in hand in the beginning.
LEMMA LatestInitially == Init => LatestInv
  BY ConstantTypes DEF Init, LatestInv, DueRows, RunInHand, RunsLatest, Holding

\* Who records runs.
LEMMA RunsChange ==
  ASSUME [Next]_vars
  PROVE  \/ UNCHANGED runs \/ RecoverRecord
         \/ \E d \in Drivers : Settle(d) \/ Record(d)
  BY DEF vars, storeVars, envVars, passVars, driverVars, Next, PassStep, TriggerStep,
     Environment,
     PassBegin, ListDue, PassEnd, RecoverSubmit, TriggerDue, Check, SaveCompleted,
     Advance, Defer,
     Notify, Submit, Tick, Crash, Finish, TriggerManual, EditRead, EditSave

\* A run keeps what it is for, whoever records it again.
LEMMA RunsKept ==
  ASSUME ScheduleTypes, RunInv, [Next]_vars
  PROVE  /\ DOMAIN runs \subseteq DOMAIN runs'
         /\ \A k \in DOMAIN runs : Same(runs[k], runs'[k])
         /\ \A k \in DOMAIN runs' \ DOMAIN runs :
              \E d \in Drivers : Record(d) /\ k = Len(runs) + 1 /\ runs'[k] = rec[d]
<1>. DEFINE Kept == DOMAIN runs' = DOMAIN runs /\ \A k \in DOMAIN runs : Same(runs[k], runs'[k])
<1>1. CASE UNCHANGED runs
  BY <1>1 DEF Same
<1>2. CASE RecoverRecord
  <2>1. /\ runs' = [runs EXCEPT ![idx[Scheduler]] = rec[Scheduler]]
        /\ Same(rec[Scheduler], runs[idx[Scheduler]])
    BY <1>2, ConstantTypes DEF RecoverRecord, RunInv, HeldRuns, HeldRun, Known
  <2>. QED
    BY <2>1 DEF ScheduleTypes, StoreTypes, Same
<1>3. ASSUME NEW d \in Drivers, Settle(d)
      PROVE  Kept
  <2>1. /\ runs' = [runs EXCEPT ![idx[d]] = [rec[d] EXCEPT !.status = "submitted"]]
        /\ Same(rec[d], runs[idx[d]]) /\ rec[d] \in Run
    BY <1>3 DEF Settle, RunInv, HeldRuns, HeldRun, Known, ScheduleTypes, HandsFull, InHand,
       Holding
  <2>2. Same([rec[d] EXCEPT !.status = "submitted"], rec[d])
    BY <2>1 DEF Run, Same
  <2>3. Same([rec[d] EXCEPT !.status = "submitted"], runs[idx[d]])
    BY <2>1, <2>2 DEF Same
  <2>. QED
    BY <2>1, <2>3 DEF ScheduleTypes, StoreTypes, Same
<1>4. ASSUME NEW d \in Drivers, Record(d)
      PROVE  /\ DOMAIN runs' = DOMAIN runs \cup {Len(runs) + 1}
             /\ \A k \in DOMAIN runs : Same(runs[k], runs'[k])
             /\ runs'[Len(runs) + 1] = rec[d]
  <2>1. runs' = Append(runs, rec[d])
    BY <1>4 DEF Record
  <2>. QED
    BY <2>1 DEF ScheduleTypes, StoreTypes, Same
<1>. QED
  BY <1>1, <1>2, <1>3, <1>4, RunsChange

\* What a trigger does to the drivers: one works on, for the same run, or is done.
LEMMA TriggerEffect ==
  ASSUME ScheduleTypes, NEW d \in Drivers, TriggerStep(d)
  PROVE  /\ UNCHANGED <<now, due, claims, crashes, edits, manuals, finished>>
         /\ pc[d] \in Holding
         /\ \A e \in Drivers \ {d} : /\ pc'[e] = pc[e] /\ item'[e] = item[e]
                                     /\ copy'[e] = copy[e] /\ rec'[e] = rec[e]
                                     /\ idx'[e] = idx[e] /\ at'[e] = at[e]
         /\ \/ Return(d) /\ pc'[d] = IF d = Scheduler THEN "due" ELSE "idle"
            \/ /\ pc'[d] \in Holding /\ item'[d] = item[d] /\ at' = at
               /\ Same(rec'[d], rec[d])
<1>0. /\ DriverFunctions /\ InHand(d)
  BY DEF ScheduleTypes, HandsFull
<1>1. /\ UNCHANGED <<now, due, claims, crashes, edits, manuals, finished>>
      /\ pc[d] \in Holding
  BY DEF TriggerStep, Check, Record, SaveCompleted, Advance, Defer, Notify, Submit, Settle,
     envVars, passVars, Holding
<1>2. CASE Return(d)
  BY <1>0, <1>1, <1>2, ReturnEffect
<1>3. CASE Check(d)
  <2>1. PICK s \in RunStatus : rec' = [rec EXCEPT ![d].status = s]
    BY <1>3 DEF Check, SetRun, RunStatus
  <2>2. rec[d] \in Run
    BY <1>0, <1>1 DEF InHand
  <2>3. /\ rec'[d] = [rec[d] EXCEPT !.status = s]
        /\ \A e \in Drivers \ {d} : rec'[e] = rec[e]
    BY <1>0, <2>1 DEF DriverFunctions
  <2>4. Same(rec'[d], rec[d])
    BY <2>2, <2>3 DEF Run, Same
  <2>5. copy' = copy \/ \E row : copy' = [copy EXCEPT ![d] = row]
    BY <1>3 DEF Check, SetCopy
  <2>6. /\ pc' = [pc EXCEPT ![d] = "record"] /\ UNCHANGED <<item, idx, at>>
    BY <1>3 DEF Check, Goto
  <2>. QED
    BY <1>0, <1>1, <2>3, <2>4, <2>5, <2>6 DEF DriverFunctions, Holding
<1>4. CASE ~Return(d) /\ ~Check(d)
  <2>1. /\ UNCHANGED <<item, rec, at>>
        /\ copy' = copy \/ \E row : copy' = [copy EXCEPT ![d] = row]
        /\ idx' = idx \/ \E k : idx' = [idx EXCEPT ![d] = k]
        /\ \E l \in Holding : pc' = [pc EXCEPT ![d] = l]
    <3>1. CASE Record(d)
      <4>1. CASE rec[d].status \in {"skipped", "claimed"}
        BY <1>4, <3>1, <4>1 DEF Record, AfterRecord, Goto, Holding
      <4>2. CASE rec[d].status \notin {"skipped", "claimed"} /\ rec[d].manual
        BY <1>4, <3>1, <4>2 DEF Record, AfterRecord, Goto, Holding
      <4>3. CASE rec[d].status \notin {"skipped", "claimed"} /\ ~rec[d].manual
        BY <1>4, <3>1, <4>3 DEF Record, AfterRecord, Goto, Holding
      <4>. QED
        BY <4>1, <4>2, <4>3
    <3>2. CASE ~Record(d)
      BY <1>4, <3>2 DEF TriggerStep, SaveCompleted, Advance, Defer, Notify, Submit, Settle,
         Goto, SetCopy, Holding
    <3>. QED
      BY <3>1, <3>2
  <2>. QED
    BY <1>0, <1>1, <2>1 DEF DriverFunctions, Same
<1>. QED
  BY <1>2, <1>3, <1>4

\* Every step keeps runs of undisturbed items at the latest occurrence.
LEMMA LatestStep ==
  ASSUME ScheduleTypes, RunInv, LatestInv, [Next]_vars
  PROVE  LatestInv'
<1>0. /\ DriverFunctions /\ PassTypes /\ StoreTypes /\ now \in Nat /\ now <= MaxTime
      /\ Scheduler \in Drivers /\ at[Scheduler] \in Nat
      /\ DueRows /\ RunInHand /\ RunsLatest
  BY ConstantTypes DEF ScheduleTypes, EnvTypes, DriverFunctions, LatestInv
<1>1. RunsLatest'
  <2>1. \A r, q : Same(r, q) /\ Latest(r) => Latest(q)
    BY DEF Same, Latest
  <2>2. ASSUME NEW k \in DOMAIN runs, ~runs'[k].manual
        PROVE  Latest(runs'[k])
    <3>1. Same(runs[k], runs'[k])
      BY RunsKept
    <3>. QED
      BY <1>0, <2>1, <2>2, <3>1 DEF RunsLatest, Same
  <2>3. ASSUME NEW k \in DOMAIN runs' \ DOMAIN runs, ~runs'[k].manual
        PROVE  Latest(runs'[k])
    <3>1. PICK d \in Drivers : Record(d) /\ runs'[k] = rec[d]
      BY RunsKept
    <3>2. d = Scheduler /\ pc[d] \in Holding
      BY <2>3, <3>1 DEF Record, Holding, ScheduleTypes, HandsFull, InHand
    <3>. QED
      BY <1>0, <3>1, <3>2 DEF RunInHand
  <2>. QED
    BY <2>2, <2>3 DEF RunsLatest
<1>2. CASE /\ UNCHANGED <<due, at>> /\ pc'[Scheduler] = pc[Scheduler]
           /\ rec'[Scheduler] = rec[Scheduler] /\ item'[Scheduler] = item[Scheduler]
           /\ now' \in {now, now + 1}
  BY <1>0, <1>1, <1>2 DEF LatestInv, DueRows, RunInHand
<1>3. CASE Crash
  BY <1>0, <1>1, <1>3 DEF Crash, LatestInv, DueRows, RunInHand, Holding
<1>4. CASE PassBegin \/ RecoverRecord \/ ListDue \/ PassEnd \/ \E c \in claims : RecoverSubmit(c)
  <2>1. /\ at'[Scheduler] \in {at[Scheduler], now, 0} /\ now' = now
        /\ pc'[Scheduler] \notin Holding
        /\ ListDue \/ ((\A i \in Items : due[i] = None) /\ due' = due)
    <3>1. CASE PassBegin \/ RecoverRecord \/ \E c \in claims : RecoverSubmit(c)
      <4>1. \/ at' = [at EXCEPT ![Scheduler] = now] \/ at' = at
        BY <3>1 DEF PassBegin, RecoverRecord, RecoverSubmit
      <4>2. /\ now' = now /\ due' = due /\ pc[Scheduler] \in {"idle", "recover", "recovered"}
            /\ \E l \in {"recover", "recovered"} : pc' = [pc EXCEPT ![Scheduler] = l]
        BY <3>1 DEF PassBegin, RecoverRecord, RecoverSubmit, Goto, envVars, passVars
      <4>. QED
        BY <1>0, <4>1, <4>2 DEF Holding, DriverFunctions, DueRows
    <3>2. CASE ListDue
      <4>1. /\ pc' = [pc EXCEPT ![Scheduler] = "due"] /\ at' = at /\ now' = now
        BY <3>2 DEF ListDue, Goto, envVars
      <4>2. at'[Scheduler] = at[Scheduler] /\ pc'[Scheduler] \notin Holding
        BY <1>0, <4>1 DEF Holding, DriverFunctions
      <4>. QED
        BY <3>2, <4>1, <4>2
    <3>3. CASE PassEnd
      <4>1. /\ pc' = [pc EXCEPT ![Scheduler] = "idle"] /\ at' = [at EXCEPT ![Scheduler] = 0]
            /\ now' = now /\ due' = due /\ \A i \in Items : due[i] = None
        BY <3>3 DEF PassEnd, Goto, envVars, passVars
      <4>. QED
        BY <1>0, <4>1 DEF Holding, DriverFunctions
    <3>. QED
      BY <1>4, <3>1, <3>2, <3>3
  <2>2. CASE ListDue
    BY <1>0, <1>1, <2>1, <2>2 DEF LatestInv, DueRows, RunInHand, ListDue, Due, Goto,
       DriverFunctions
  <2>3. CASE ~ListDue
    BY <1>0, <1>1, <2>1, <2>3 DEF LatestInv, DueRows, RunInHand
  <2>. QED
    BY <2>2, <2>3
<1>5. ASSUME NEW i \in Items, TriggerDue(i)
      PROVE  LatestInv'
  <2>. DEFINE for == LatestDue(i, due[i], at[Scheduler])
              r == NewRun(i, for, at[Scheduler], FALSE)
  <2>1. due[i] \in Row /\ due[i].next \in Nat /\ due[i].next <= at[Scheduler]
    BY <1>0, <1>5 DEF TriggerDue, PassTypes, DueRows
  <2>2. for \in Nat /\ for <= at[Scheduler]
    BY <1>0, <2>1, LatestDueIsDue
  <2>3. EnoughCatchUp /\ Period[i] # 0 => \/ for + Period[i] > at[Scheduler]
                                          \/ Ended(i, for + Period[i])
    <3>. SUFFICES ASSUME EnoughCatchUp, Period[i] # 0
                  PROVE  \/ for + Period[i] > at[Scheduler]
                         \/ Ended(i, for + Period[i])
      OBVIOUS
    <3>. DEFINE bound == (CatchUpGuard + 1) * Period[i]
    <3>1. bound > MaxTime
      BY DEF EnoughCatchUp
    <3>2. bound \in Nat
      BY Steps, ConstantsAssumption DEF ConstantsAssumption
    <3>3. at[Scheduler] <= now
      BY <1>0 DEF DueRows
    <3>. HIDE DEF bound, for
    <3>4. bound > at[Scheduler]
      BY <1>0, <3>1, <3>2, <3>3, ConstantTypes
    <3>. QED
      BY <1>0, <2>1, <3>4, LatestDueIsLatest DEF for, bound
  <2>4. /\ r.item = i /\ r.for = for /\ r.started = at[Scheduler]
    BY DEF NewRun
  <2>. HIDE DEF for, r
  <2>5. Latest(r)
    BY <2>2, <2>3, <2>4 DEF Latest
  <2>6. /\ item'[Scheduler] = i /\ rec'[Scheduler] = r /\ at' = at /\ now' = now
        /\ due' = [due EXCEPT ![i] = None] /\ pc'[Scheduler] = "check"
    BY <1>0, <1>5 DEF TriggerDue, DriverFunctions, Goto, envVars, r, for
  <2>7. RunInHand'
    BY <2>4, <2>5, <2>6 DEF RunInHand
  <2>8. DueRows'
    BY <1>0, <2>6 DEF DueRows, PassTypes
  <2>. QED
    BY <1>1, <2>7, <2>8 DEF LatestInv
<1>6. ASSUME NEW d \in Drivers, TriggerStep(d)
      PROVE  LatestInv'
  <2>1. /\ now' = now /\ due' = due /\ pc[d] \in Holding
        /\ \A e \in Drivers \ {d} : /\ pc'[e] = pc[e] /\ item'[e] = item[e]
                                    /\ rec'[e] = rec[e] /\ at'[e] = at[e]
        /\ d = Scheduler => /\ at' = at
                            /\ \/ pc'[d] = "due"
                               \/ /\ pc'[d] \in Holding /\ item'[d] = item[d]
                                  /\ Same(rec'[d], rec[d])
    BY <1>6, TriggerEffect DEF Return
  <2>2. CASE d = Scheduler
    BY <1>0, <1>1, <2>1, <2>2 DEF LatestInv, DueRows, RunInHand, Holding, Same, Latest
  <2>3. CASE d # Scheduler
    BY <1>0, <1>1, <2>1, <2>3 DEF LatestInv, DueRows, RunInHand
  <2>. QED
    BY <2>2, <2>3
<1>7. CASE Environment /\ ~Crash
  <2>1. CASE \E c \in Callers, i \in Items : TriggerManual(c, i)
    <3>1. /\ now' = now /\ due' = due /\ at'[Scheduler] = at[Scheduler]
          /\ pc'[Scheduler] = pc[Scheduler] /\ rec'[Scheduler] = rec[Scheduler]
          /\ item'[Scheduler] = item[Scheduler]
      <4>1. PICK c \in Callers, i \in Items : TriggerManual(c, i)
        BY <2>1
      <4>2. c \in Drivers /\ c # Scheduler
        BY ConstantTypes
      <4>. QED
        BY <1>0, <4>1, <4>2 DEF TriggerManual, Goto, DriverFunctions, passVars
    <3>. QED
      BY <1>0, <1>1, <3>1 DEF LatestInv, DueRows, RunInHand
  <2>2. CASE ~\E c \in Callers, i \in Items : TriggerManual(c, i)
    BY <1>2, <1>7, <2>2 DEF Environment, Tick, Finish, EditRead, EditSave, passVars,
       driverVars
  <2>. QED
    BY <2>1, <2>2
<1>8. CASE UNCHANGED vars
  BY <1>2, <1>8 DEF vars, envVars, passVars, driverVars
<1>. QED
  BY <1>3, <1>4, <1>5, <1>6, <1>7, <1>8 DEF Next, PassStep

\* A scheduled run is for the latest occurrence that was due when it started,
\* however late that was and whoever else changed the item, as long as the
\* catch-up loop can step over all that was missed.
THEOREM RunsAreForTheLatest ==
  ASSUME EnoughCatchUp
  PROVE  Spec => []FiresLatest
<1>1. ScheduleTypes /\ RunInv /\ LatestInv => FiresLatest
  BY EnoughCatchUp DEF LatestInv, RunsLatest, Latest, FiresLatest, Fired
<1>2. LatestInv /\ (ScheduleTypes /\ RunInv) /\ [Next]_vars => LatestInv'
  BY LatestStep
<1>. QED
  BY <1>1, <1>2, LatestInitially, RunsHold, PTL DEF Spec

-----------------------------------------------------------------------------
(***************************************************************************)
(* Once per occurrence.  While nobody else writes an item, its row is      *)
(* ahead of what was fired for it, except between the record of a run and  *)
(* the advance; and the row the scheduler read is the row in the store.    *)
(***************************************************************************)
InOrder(i) == \A j, k \in Fired(i) : j < k => runs[j].for < runs[k].for
Bounded(i) == MaxOccurrences[i] # None /\ MaxOccurrences[i] # 0

Open(row) == row.status = "active" /\ row.next # None

\* What a row promises of the runs fired so far.
Standing(i, row) ==
  /\ Open(row) => \A k \in Fired(i) : runs[k].for < row.next
  /\ Bounded(i) => /\ Cardinality(Fired(i)) <= row.count /\ row.count <= MaxOccurrences[i]
                   /\ Open(row) => row.count < MaxOccurrences[i]

\* A row whose occurrence has been fired, and not yet counted.
FiredFor(i, row, for) ==
  /\ \A k \in Fired(i) : runs[k].for <= for
  /\ Bounded(i) => /\ Cardinality(Fired(i)) <= row.count + 1
                   /\ row.count < MaxOccurrences[i]

Working(i) == pc[Scheduler] \in Holding /\ item[Scheduler] = i
Pending(i) ==
  /\ copy[Scheduler] = rows[i] /\ Open(rows[i])
  /\ rows[i].next <= rec[Scheduler].for
Closed(i) ==
  copy[Scheduler].status = "completed" /\ copy[Scheduler].count = rows[i].count

InPlace(i) ==
  /\ pc[Scheduler] \in {"check", "defer"} => Pending(i)
  /\ pc[Scheduler] = "record" =>
       \/ rec[Scheduler].status # "skipped" /\ Pending(i)
       \/ rec[Scheduler].status = "skipped" /\ (copy[Scheduler].next # None \/ Closed(i))
  /\ pc[Scheduler] = "save" => Closed(i)
  /\ pc[Scheduler] = "notify" => copy[Scheduler] = rows[i]

OccurrenceInv(i) ==
  Undisturbed(i) =>
    /\ InOrder(i)
    /\ due[i] # None => due[i] = rows[i] /\ ~Working(i)
    /\ Working(i) => InPlace(i)
    /\ IF Working(i) /\ pc[Scheduler] = "advance"
       THEN FiredFor(i, copy[Scheduler], rec[Scheduler].for)
       ELSE Standing(i, rows[i])
OccurrencesInv == \A i \in Items : OccurrenceInv(i)

\* A run is fired when it is recorded, never later.
LEMMA FiredWhenRecorded ==
  ASSUME ScheduleTypes, RunInv, [Next]_vars, NEW i \in Items
  PROVE  /\ \A k \in Fired(i) : runs'[k].for = runs[k].for
         /\ \A k \in Fired(i)' : k \notin Fired(i) =>
              /\ Record(Scheduler) /\ k = Len(runs) + 1 /\ runs'[k] = rec[Scheduler]
<1>1. \A k \in Fired(i) : runs'[k].for = runs[k].for
  BY RunsKept DEF Fired, Same
<1>2. ASSUME NEW k \in Fired(i)', k \notin Fired(i), k \notin DOMAIN runs
      PROVE  Record(Scheduler) /\ k = Len(runs) + 1 /\ runs'[k] = rec[Scheduler]
  <2>1. PICK d \in Drivers : Record(d) /\ k = Len(runs) + 1 /\ runs'[k] = rec[d]
    BY <1>2, RunsKept DEF Fired
  <2>2. d = Scheduler
    BY <1>2, <2>1 DEF Fired, Record, Holding, ScheduleTypes, HandsFull, InHand
  <2>. QED
    BY <2>1, <2>2
<1>3. ASSUME NEW k \in Fired(i)', k \notin Fired(i), k \in DOMAIN runs
      PROVE  FALSE
  <2>0. /\ ~runs[k].manual /\ runs[k].status \notin {"claimed", "submitted", "recorded"}
        /\ runs'[k] # runs[k] /\ runs \in Seq(Run) /\ Scheduler \in Drivers
    BY <1>3, RunsKept, ConstantTypes DEF Fired, Same, ScheduleTypes, StoreTypes
  <2>1. CASE RecoverRecord
    <3>1. runs' = [runs EXCEPT ![idx[Scheduler]] = rec[Scheduler]] /\ pc[Scheduler] = "recovered"
      BY <2>1 DEF RecoverRecord
    <3>2. k = idx[Scheduler]
      BY <1>3, <2>0, <3>1
    <3>. QED
      BY <2>0, <3>1, <3>2 DEF RunInv, ScheduledRun
  <2>2. ASSUME NEW d \in Drivers, Settle(d)
        PROVE  FALSE
    <3>1. /\ runs' = [runs EXCEPT ![idx[d]] = [rec[d] EXCEPT !.status = "submitted"]]
          /\ pc[d] = "settle"
      BY <2>2 DEF Settle
    <3>2. k = idx[d]
      BY <1>3, <2>0, <3>1
    <3>3. runs[k].manual <=> d # Scheduler
      BY <3>1, <3>2 DEF RunInv, HeldRuns, HeldRun, Known, Holding, Same, ScheduleTypes,
         HandsFull, InHand
    <3>4. d = Scheduler => runs[k].status = "claimed"
      BY <3>1, <3>2 DEF RunInv, ScheduledRun
    <3>. QED
      BY <2>0, <3>3, <3>4
  <2>3. ASSUME NEW d \in Drivers, Record(d)
        PROVE  FALSE
    <3>1. runs' = Append(runs, rec[d])
      BY <2>3 DEF Record
    <3>. QED
      BY <1>3, <2>0, <3>1
  <2>4. CASE UNCHANGED runs
    BY <2>0, <2>4
  <2>. QED
    BY <2>1, <2>2, <2>3, <2>4, RunsChange
<1>. QED
  BY <1>1, <1>2, <1>3

\* The runs of an item are finitely many and have a time.
LEMMA FiredFinite ==
  ASSUME ScheduleTypes, NEW i \in Items
  PROVE  /\ IsFiniteSet(Fired(i)) /\ Cardinality(Fired(i)) \in Nat
         /\ \A k \in Fired(i) : k \in Nat /\ k <= Len(runs) /\ runs[k].for \in Nat
<1>1. runs \in Seq(Run) /\ Len(runs) \in Nat /\ DOMAIN runs = 1..Len(runs)
  BY DEF ScheduleTypes, StoreTypes
<1>2. IsFiniteSet(1..Len(runs))
  BY <1>1, FS_Interval
<1>3. Fired(i) \subseteq 1..Len(runs)
  BY <1>1 DEF Fired
<1>4. IsFiniteSet(Fired(i))
  BY <1>2, <1>3, FS_Subset
<1>5. \A k \in Fired(i) : runs[k] \in Run
  BY <1>1, <1>3
<1>. QED
  BY <1>1, <1>3, <1>4, <1>5, FS_CardinalityType DEF Run

\* No run is fired: what held of the runs fired holds.
LEMMA NothingFired ==
  ASSUME ScheduleTypes, ScheduleTypes', NEW i \in Items,
         Fired(i)' \subseteq Fired(i), \A k \in Fired(i) : runs'[k].for = runs[k].for
  PROVE  /\ InOrder(i) => InOrder(i)'
         /\ \A row \in Row : Standing(i, row) => Standing(i, row)'
         /\ \A row \in Row, for \in Nat : FiredFor(i, row, for) => FiredFor(i, row, for)'
<1>. DEFINE n == Cardinality(Fired(i))
            m == Cardinality(Fired(i)')
<1>1. m <= n /\ m \in Nat /\ n \in Nat
  <2>1. IsFiniteSet(Fired(i))
    BY FiredFinite
  <2>2. IsFiniteSet(Fired(i)') /\ m <= n
    BY <2>1, FS_Subset
  <2>. QED
    BY <2>1, <2>2, FS_CardinalityType
<1>. HIDE DEF n, m
<1>2. InOrder(i) => InOrder(i)'
  BY DEF InOrder
<1>3. ASSUME NEW row \in Row, Standing(i, row)
      PROVE  Standing(i, row)'
  <2>1. Bounded(i) => /\ n <= row.count /\ row.count <= MaxOccurrences[i]
                      /\ Open(row) => row.count < MaxOccurrences[i]
    BY <1>3 DEF Standing, n
  <2>2. Bounded(i) => m <= row.count
    BY <1>1, <2>1 DEF Row
  <2>. QED
    BY <1>3, <2>1, <2>2 DEF Standing, Bounded, Open, m
<1>4. ASSUME NEW row \in Row, NEW for \in Nat, FiredFor(i, row, for)
      PROVE  FiredFor(i, row, for)'
  <2>1. Bounded(i) => n <= row.count + 1 /\ row.count < MaxOccurrences[i]
    BY <1>4 DEF FiredFor, n
  <2>2. Bounded(i) => m <= row.count + 1
    BY <1>1, <2>1 DEF Row
  <2>. QED
    BY <1>4, <2>1, <2>2 DEF FiredFor, Bounded, m
<1>. QED
  BY <1>2, <1>3, <1>4

\* The row is put off: it is still ahead of what was fired.
LEMMA PutOff ==
  ASSUME ScheduleTypes, NEW i \in Items, NEW row \in Row, NEW t \in Nat, NEW n \in Nat \ {0},
         Standing(i, row), Open(row), row.next <= t
  PROVE  Standing(i, [row EXCEPT !.status = "active", !.next = t + n])
<1>. DEFINE later == [row EXCEPT !.status = "active", !.next = t + n]
<1>1. later.next = t + n /\ later.count = row.count /\ row.next \in Nat
  BY DEF Row, Open, Time
<1>2. \A k \in Fired(i) : runs[k].for < later.next
  BY <1>1, FiredFinite DEF Standing
<1>. HIDE DEF later
<1>3. Standing(i, later)
  BY <1>1, <1>2 DEF Standing
<1>. QED
  BY <1>3 DEF later

\* The row moves on: it is ahead of what was fired, this run too.
LEMMA MovedOn ==
  ASSUME ScheduleTypes, NEW i \in Items, NEW row \in Row, NEW for \in Nat, NEW t \in Nat,
         FiredFor(i, row, for)
  PROVE  Standing(i, Advanced(i, row, for, t))
<1>. DEFINE counted == [row EXCEPT !.count = @ + 1]
            next == NextRun(i, counted, for, t)
            moved == Advanced(i, row, for, t)
<1>1. counted \in Row /\ counted.count = row.count + 1 /\ row.count \in Nat
  BY DEF Row
<1>2. /\ next \in Time
      /\ next # None => next \in Nat /\ next > for /\ ~Exhausted(i, row.count + 1)
  <2>. HIDE DEF counted
  <2>. QED
    BY <1>1, NextRunIsLater
<1>3. /\ moved = [counted EXCEPT !.next = next,
                                 !.status = IF next = None THEN "completed" ELSE @]
  BY DEF Advanced
<1>. HIDE DEF counted, next, moved
<1>4. /\ moved.next = next /\ moved.count = row.count + 1
      /\ Open(moved) => next # None
  BY <1>1, <1>3 DEF Row, Open
<1>5. \A k \in Fired(i) : runs[k].for \in Nat /\ runs[k].for <= for
  BY FiredFinite DEF FiredFor
<1>6. Open(moved) => \A k \in Fired(i) : runs[k].for < moved.next
  BY <1>2, <1>4, <1>5
<1>7. Bounded(i) => /\ Cardinality(Fired(i)) <= moved.count
                    /\ moved.count <= MaxOccurrences[i]
                    /\ Open(moved) => moved.count < MaxOccurrences[i]
  <2>. SUFFICES ASSUME Bounded(i)
                PROVE  /\ Cardinality(Fired(i)) <= moved.count
                       /\ moved.count <= MaxOccurrences[i]
                       /\ Open(moved) => moved.count < MaxOccurrences[i]
    OBVIOUS
  <2>1. MaxOccurrences[i] \in Nat
    BY ConstantsAssumption DEF ConstantsAssumption, Bounded, Time
  <2>2. Cardinality(Fired(i)) <= row.count + 1 /\ row.count < MaxOccurrences[i]
    BY DEF FiredFor
  <2>3. Open(moved) => ~(row.count + 1 >= MaxOccurrences[i])
    BY <1>2, <1>4 DEF Exhausted, Bounded
  <2>. QED
    BY <1>1, <1>4, <2>1, <2>2, <2>3
<1>. QED
  BY <1>6, <1>7 DEF Standing, moved

\* Steps that leave the scheduler's work on an item as it was.
LEMMA OccurrenceKept ==
  ASSUME ScheduleTypes, ScheduleTypes', NEW i \in Items, OccurrenceInv(i),
         Fired(i)' \subseteq Fired(i), \A k \in Fired(i) : runs'[k].for = runs[k].for,
         Undisturbed(i)' => Undisturbed(i) /\ rows'[i] = rows[i],
         due'[i] = due[i] \/ due'[i] = None,
         \/ ~Working(i) /\ ~Working(i)'
         \/ /\ pc'[Scheduler] = pc[Scheduler] /\ item'[Scheduler] = item[Scheduler]
            /\ copy'[Scheduler] = copy[Scheduler] /\ rec'[Scheduler] = rec[Scheduler]
  PROVE  OccurrenceInv(i)'
<1>. SUFFICES ASSUME Undisturbed(i)'
              PROVE  OccurrenceInv(i)'
  BY DEF OccurrenceInv
<1>0. /\ Undisturbed(i) /\ rows'[i] = rows[i] /\ InOrder(i) /\ rows[i] \in Row
      /\ due[i] # None => due[i] = rows[i] /\ ~Working(i)
      /\ Working(i) => InPlace(i)
  BY DEF OccurrenceInv, ScheduleTypes, StoreTypes
<1>1. InOrder(i)' /\ (Standing(i, rows[i]) => Standing(i, rows[i])')
  <2>1. \A row \in Row : Standing(i, row) => Standing(i, row)'
    BY NothingFired
  <2>2. rows'[i] \in Row
    BY <1>0
  <2>3. Standing(i, rows[i]) => Standing(i, rows[i])'
    BY <1>0, <2>1 DEF Standing, Open
  <2>. QED
    BY <1>0, <2>3, NothingFired
<1>2. CASE ~Working(i) /\ ~Working(i)'
  <2>1. Standing(i, rows[i])'
    BY <1>0, <1>1, <1>2 DEF OccurrenceInv
  <2>. QED
    BY <1>0, <1>1, <1>2, <2>1 DEF OccurrenceInv
<1>3. CASE /\ pc'[Scheduler] = pc[Scheduler] /\ item'[Scheduler] = item[Scheduler]
           /\ copy'[Scheduler] = copy[Scheduler] /\ rec'[Scheduler] = rec[Scheduler]
  <2>1. Working(i)' = Working(i) /\ (Working(i) => InPlace(i)')
    BY <1>0, <1>3 DEF Working, InPlace, Pending, Closed, Open
  <2>2. CASE Working(i) /\ pc[Scheduler] = "advance"
    <3>1. FiredFor(i, copy[Scheduler], rec[Scheduler].for)
      BY <1>0, <2>2 DEF OccurrenceInv
    <3>2. copy[Scheduler] \in Row /\ rec[Scheduler].for \in Nat
      BY <2>2, ConstantTypes DEF Working, ScheduleTypes, HandsFull, InHand, Run
    <3>3. \A row \in Row, for \in Nat : FiredFor(i, row, for) => FiredFor(i, row, for)'
      BY NothingFired
    <3>4. FiredFor(i, copy[Scheduler], rec[Scheduler].for)'
      BY <1>3, <3>1, <3>2, <3>3 DEF FiredFor
    <3>. QED
      BY <1>0, <1>1, <1>3, <2>1, <2>2, <3>4 DEF OccurrenceInv
  <2>3. CASE ~(Working(i) /\ pc[Scheduler] = "advance")
    <3>1. Standing(i, rows[i])'
      BY <1>0, <1>1, <2>3 DEF OccurrenceInv
    <3>. QED
      BY <1>0, <1>1, <1>3, <2>1, <2>3, <3>1 DEF OccurrenceInv
  <2>. QED
    BY <2>2, <2>3
<1>. QED
  BY <1>2, <1>3

\* The scheduler works on the item.
InWork(i) ==
  /\ Scheduler \in Drivers /\ item[Scheduler] = i /\ pc[Scheduler] \in Holding
  /\ DriverFunctions /\ copy[Scheduler] \in Row /\ rec[Scheduler] \in Run
  /\ ~rec[Scheduler].manual /\ at[Scheduler] \in Nat
  /\ rec[Scheduler].for \in Nat /\ rec[Scheduler].for <= at[Scheduler]
  /\ rec[Scheduler].item = i
  /\ rows \in [Items -> Row] /\ rows[i] \in Row
  /\ Undisturbed(i) /\ InOrder(i) /\ InPlace(i) /\ Working(i) /\ due[i] = None
  /\ IF pc[Scheduler] = "advance"
     THEN FiredFor(i, copy[Scheduler], rec[Scheduler].for)
     ELSE Standing(i, rows[i])

\* What the scheduler has in hand is the undisturbed item as it is stored.
LEMMA AtWork ==
  ASSUME ScheduleTypes, LatestInv, NEW i \in Items, OccurrenceInv(i), Undisturbed(i),
         pc[Scheduler] \in Holding, item[Scheduler] = i
  PROVE  InWork(i)
<1>1. /\ Scheduler \in Drivers /\ DriverFunctions /\ copy[Scheduler] \in Row
      /\ rec[Scheduler] \in Run /\ ~rec[Scheduler].manual /\ at[Scheduler] \in Nat
      /\ rows \in [Items -> Row] /\ rows[i] \in Row
  BY ConstantTypes DEF ScheduleTypes, HandsFull, InHand, DriverFunctions, StoreTypes
<1>2. /\ rec[Scheduler].for \in Nat /\ rec[Scheduler].for <= at[Scheduler]
      /\ rec[Scheduler].item = i
  BY <1>1 DEF LatestInv, RunInHand, Latest, Run
<1>3. Working(i)
  BY DEF Working
<1>4. /\ InOrder(i) /\ InPlace(i) /\ due[i] = None
      /\ IF pc[Scheduler] = "advance"
         THEN FiredFor(i, copy[Scheduler], rec[Scheduler].for)
         ELSE Standing(i, rows[i])
  BY <1>3 DEF OccurrenceInv
<1>. QED
  BY <1>1, <1>2, <1>3, <1>4 DEF InWork

\* The row that a step leaves is what the runs fired so far allow.
LEMMA StandsAgain ==
  ASSUME ScheduleTypes, ScheduleTypes', NEW i \in Items, InWork(i),
         Fired(i)' \subseteq Fired(i), \A k \in Fired(i) : runs'[k].for = runs[k].for,
         Standing(i, rows'[i]), due'[i] = None,
         \/ pc'[Scheduler] \notin Holding
         \/ pc'[Scheduler] # "advance" /\ InPlace(i)'
  PROVE  OccurrenceInv(i)'
<1>1. InOrder(i)'
  BY NothingFired DEF InWork
<1>2. Standing(i, rows[i])'
  <2>1. rows'[i] \in Row
    BY DEF ScheduleTypes, StoreTypes
  <2>2. \A row \in Row : Standing(i, row) => Standing(i, row)'
    BY NothingFired
  <2>3. \A row : row = rows'[i] => (Standing(i, row)' => Standing(i, rows[i])')
    BY DEF Standing, Open
  <2>. QED
    BY <2>1, <2>2, <2>3
<1>. QED
  BY <1>1, <1>2 DEF OccurrenceInv, Working

\* Checking an item in hand keeps its occurrences in order.
LEMMA CheckOccurrence ==
  ASSUME ScheduleTypes, ScheduleTypes', NEW i \in Items, InWork(i), Check(Scheduler)
  PROVE  OccurrenceInv(i)'
<1>. DEFINE cp == copy[Scheduler]
            t == at[Scheduler]
<1>0. /\ pc[Scheduler] = "check" /\ cp = rows[i] /\ cp \in Row /\ Open(cp)
      /\ cp.next <= rec[Scheduler].for /\ Standing(i, cp) /\ t \in Nat
      /\ rec[Scheduler].for \in Nat /\ rec[Scheduler].for <= t /\ rec[Scheduler] \in Run
      /\ DriverFunctions /\ Scheduler \in Drivers /\ item[Scheduler] = i
      /\ rows \in [Items -> Row]
  BY DEF Check, InWork, InPlace, Pending
<1>1. /\ pc'[Scheduler] = "record" /\ UNCHANGED <<runs, item, at>>
      /\ Fired(i)' = Fired(i) /\ due'[i] = None
  BY <1>0 DEF Check, Goto, passVars, Fired, DriverFunctions, InWork
<1>2. ASSUME NEW s \in RunStatus, SetRun(Scheduler, s)
      PROVE  rec'[Scheduler].status = s /\ rec'[Scheduler].for = rec[Scheduler].for
  BY <1>0, <1>2 DEF SetRun, DriverFunctions, Run
<1>3. ASSUME NEW s \in {"claimed", "recorded", "failed"}, SetRun(Scheduler, s), UNCHANGED copy,
             UNCHANGED rows \/ SaveItem(Scheduler, i, cp)
      PROVE  OccurrenceInv(i)'
  <2>1. rows'[i] = cp
    BY <1>0, <1>3 DEF SaveItem
  <2>2. rec'[Scheduler].status = s /\ rec'[Scheduler].for = rec[Scheduler].for
    BY <1>2, <1>3 DEF RunStatus
  <2>3. InPlace(i)'
    BY <1>0, <1>1, <1>3, <2>1, <2>2 DEF InPlace, Pending, Open
  <2>. QED
    BY <1>0, <1>1, <2>1, <2>3, StandsAgain
<1>4. ASSUME SetRun(Scheduler, "skipped"), UNCHANGED rows,
             SetCopy(Scheduler, [cp EXCEPT !.status = "completed", !.next = None])
      PROVE  OccurrenceInv(i)'
  <2>1. copy'[Scheduler] = [cp EXCEPT !.status = "completed", !.next = None]
    BY <1>0, <1>4 DEF SetCopy, DriverFunctions
  <2>2. rec'[Scheduler].status = "skipped"
    BY <1>2, <1>4 DEF RunStatus
  <2>3. copy'[Scheduler].status = "completed" /\ copy'[Scheduler].count = cp.count
    BY <1>0, <2>1 DEF Row
  <2>4. InPlace(i)'
    BY <1>0, <1>1, <1>4, <2>2, <2>3 DEF InPlace, Closed
  <2>. QED
    BY <1>0, <1>1, <1>4, <2>4, StandsAgain
<1>5. ASSUME SetRun(Scheduler, "skipped"),
             SetCopy(Scheduler, [cp EXCEPT !.status = "active", !.next = t + ProbeAfter]),
             SaveItem(Scheduler, i, copy'[Scheduler])
      PROVE  OccurrenceInv(i)'
  <2>. DEFINE later == [cp EXCEPT !.status = "active", !.next = t + ProbeAfter]
  <2>1. copy'[Scheduler] = later
    BY <1>0, <1>5 DEF SetCopy, DriverFunctions
  <2>2. rows'[i] = later
    BY <1>0, <1>5, <2>1 DEF SaveItem
  <2>3. rec'[Scheduler].status = "skipped"
    BY <1>2, <1>5 DEF RunStatus
  <2>4. ProbeAfter \in Nat \ {0} /\ None \notin Nat
    BY ConstantsAssumption DEF ConstantsAssumption
  <2>5. cp.next <= t /\ cp.next \in Nat
    BY <1>0 DEF Row, Time, Open
  <2>6. later.next # None
    <3>1. later.next = t + ProbeAfter /\ t + ProbeAfter \in Nat
      BY <1>0, <2>4 DEF Row
    <3>. QED
      BY <2>4, <3>1
  <2>7. Standing(i, later)
    <3>. HIDE DEF cp, t
    <3>. QED
      BY <1>0, <2>4, <2>5, PutOff
  <2>. HIDE DEF later
  <2>8. InPlace(i)'
    BY <1>1, <2>1, <2>3, <2>6 DEF InPlace
  <2>. QED
    BY <1>0, <1>1, <2>2, <2>7, <2>8, StandsAgain
<1>. QED
  BY <1>0, <1>3, <1>4, <1>5 DEF Check

\* A recorded run is for a later occurrence than those before it.
LEMMA RecordOccurrence ==
  ASSUME ScheduleTypes, ScheduleTypes', NEW i \in Items, InWork(i), Record(Scheduler)
  PROVE  OccurrenceInv(i)'
<1>. DEFINE cp == copy[Scheduler]
            r == rec[Scheduler]
            n == Len(runs) + 1
<1>0. /\ pc[Scheduler] = "record" /\ cp \in Row /\ r \in Run /\ ~r.manual /\ r.item = i
      /\ r.for \in Nat /\ Standing(i, rows[i]) /\ InOrder(i)
      /\ \/ r.status # "skipped" /\ Pending(i)
         \/ r.status = "skipped" /\ (cp.next # None \/ Closed(i))
      /\ DriverFunctions /\ Scheduler \in Drivers /\ item[Scheduler] = i
      /\ runs \in Seq(Run) /\ rows[i] \in Row /\ r.attempts = 0
  BY DEF Record, InWork, InPlace, ScheduleTypes, StoreTypes, HandsFull, InHand
<1>1. runs' = Append(runs, r) /\ rows' = rows /\ due'[i] = None
  BY DEF Record, passVars, InWork
<1>2. /\ n \notin DOMAIN runs /\ DOMAIN runs' = DOMAIN runs \cup {n} /\ runs'[n] = r
      /\ \A k \in DOMAIN runs : runs'[k] = runs[k] /\ k < n
  BY <1>0, <1>1
<1>3. ASSUME AfterRecord(Scheduler) = "end"
      PROVE  pc'[Scheduler] = "due"
  BY <1>0, <1>3, ReturnEffect DEF Record
<1>4. ASSUME AfterRecord(Scheduler) # "end"
      PROVE  /\ pc'[Scheduler] = AfterRecord(Scheduler)
             /\ item' = item /\ copy' = copy /\ rec' = rec
  BY <1>0, <1>4 DEF Record, Goto, DriverFunctions
<1>5. CASE r.status \in {"skipped", "failed"}
  <2>1. Fired(i)' = Fired(i)
    <3>. HIDE DEF r, n
    <3>. QED
      BY <1>0, <1>2, <1>5 DEF Fired
  <2>2. \A k \in Fired(i) : runs'[k].for = runs[k].for
    BY <1>2 DEF Fired
  <2>3. CASE r.status = "skipped" /\ cp.next # None
    BY <1>0, <1>1, <1>3, <2>1, <2>2, <2>3, StandsAgain DEF AfterRecord, Holding
  <2>4. CASE r.status = "skipped" /\ cp.next = None
    <3>1. AfterRecord(Scheduler) = "save" /\ Closed(i)
      BY <1>0, <2>4 DEF AfterRecord
    <3>2. pc'[Scheduler] = "save" /\ Closed(i)'
      BY <1>1, <1>4, <3>1 DEF Closed
    <3>. QED
      BY <1>0, <1>1, <2>1, <2>2, <3>2, StandsAgain DEF InPlace
  <2>5. CASE r.status = "failed"
    <3>1. AfterRecord(Scheduler) = "defer" /\ Pending(i)
      BY <1>0, <2>5 DEF AfterRecord
    <3>2. pc'[Scheduler] = "defer" /\ Pending(i)'
      BY <1>1, <1>4, <3>1 DEF Pending, Open
    <3>. QED
      BY <1>0, <1>1, <2>1, <2>2, <3>2, StandsAgain DEF InPlace
  <2>. QED
    BY <1>5, <2>3, <2>4, <2>5
<1>6. CASE r.status \notin {"skipped", "failed"}
  <2>1. AfterRecord(Scheduler) = "advance"
    <3>1. CASE r.status = "claimed"
      BY <1>0, <3>1 DEF AfterRecord
    <3>2. CASE r.status # "claimed"
      BY <1>0, <1>6, <3>2 DEF AfterRecord
    <3>. QED
      BY <3>1, <3>2
  <2>2. /\ pc'[Scheduler] = "advance" /\ item'[Scheduler] = i
        /\ copy'[Scheduler] = cp /\ rec'[Scheduler] = r
    BY <1>0, <1>4, <2>1
  <2>3. /\ cp = rows[i] /\ Open(cp) /\ cp.next <= r.for /\ cp.next \in Nat
    BY <1>0, <1>6 DEF Pending, Open, Row, Time
  <2>4. /\ Fired(i)' \subseteq Fired(i) \cup {n} /\ n \notin Fired(i)
    <3>. HIDE DEF r, n
    <3>. QED
      BY <1>2 DEF Fired
  <2>5. \A k \in Fired(i) : runs'[k].for = runs[k].for /\ runs[k].for < r.for /\ k < n
    <3>1. \A k \in Fired(i) : k \in DOMAIN runs /\ runs[k].for \in Nat /\ runs[k].for < cp.next
      BY <1>0, <2>3, FiredFinite DEF Standing, Fired
    <3>. HIDE DEF r, n, cp
    <3>. QED
      BY <1>0, <1>2, <2>3, <3>1
  <2>6. n \in Nat /\ \A k \in Fired(i) : k \in Nat /\ runs[k].for \in Nat
    BY <1>0, FiredFinite
  <2>. HIDE DEF r, n, cp
  <2>7. InOrder(i)'
    <3>. SUFFICES ASSUME NEW j \in Fired(i)', NEW k \in Fired(i)', j < k
                  PROVE  runs'[j].for < runs'[k].for
      BY DEF InOrder
    <3>1. CASE k = n
      <4>1. j # n
        BY <2>6, <3>1
      <4>. QED
        BY <1>2, <2>4, <2>5, <3>1, <4>1
    <3>2. CASE k # n
      <4>1. k \in Fired(i)
        BY <2>4, <3>2
      <4>2. j # n
        BY <2>5, <2>6, <4>1
      <4>3. j \in Fired(i)
        BY <2>4, <4>2
      <4>. QED
        BY <1>0, <2>5, <4>1, <4>3 DEF InOrder
    <3>. QED
      BY <3>1, <3>2
  <2>8. FiredFor(i, cp, r.for)'
    <3>1. \A k \in Fired(i)' : runs'[k].for <= r.for
      BY <1>0, <1>2, <2>4, <2>5, <2>6
    <3>2. IsFiniteSet(Fired(i)) /\ Cardinality(Fired(i)) \in Nat
      BY FiredFinite
    <3>3. IsFiniteSet(Fired(i)') /\ Cardinality(Fired(i)') <= Cardinality(Fired(i)) + 1
      <4>1. /\ IsFiniteSet(Fired(i) \cup {n})
            /\ Cardinality(Fired(i) \cup {n}) = Cardinality(Fired(i)) + 1
        BY <2>4, <3>2, FS_AddElement
      <4>2. /\ IsFiniteSet(Fired(i)')
            /\ Cardinality(Fired(i)') <= Cardinality(Fired(i) \cup {n})
        BY <2>4, <4>1, FS_Subset
      <4>. QED
        BY <4>1, <4>2
    <3>4. Cardinality(Fired(i)') \in Nat
      BY <3>3, FS_CardinalityType
    <3>5. Bounded(i) => Cardinality(Fired(i)) <= cp.count /\ cp.count < MaxOccurrences[i]
      BY <1>0, <2>3 DEF Standing
    <3>6. Bounded(i) => Cardinality(Fired(i)') <= cp.count + 1
      BY <1>0, <3>2, <3>3, <3>4, <3>5 DEF Row
    <3>. QED
      BY <2>2, <3>1, <3>5, <3>6 DEF FiredFor, Bounded, r, cp
  <2>9. FiredFor(i, copy[Scheduler], rec[Scheduler].for)'
    BY <2>2, <2>8 DEF FiredFor, r, cp
  <2>10. Working(i)' /\ InPlace(i)'
    BY <2>2 DEF Working, Holding, InPlace
  <2>. QED
    BY <1>1, <2>2, <2>7, <2>9, <2>10 DEF OccurrenceInv
<1>. QED
  BY <1>5, <1>6

\* The item is saved, moved on or put off; its run is submitted.
LEMMA SaveOccurrence ==
  ASSUME ScheduleTypes, ScheduleTypes', NEW i \in Items, InWork(i),
         \/ SaveCompleted(Scheduler) \/ Advance(Scheduler) \/ Defer(Scheduler)
         \/ Notify(Scheduler)
  PROVE  OccurrenceInv(i)'
<1>. DEFINE cp == copy[Scheduler]
            t == at[Scheduler]
            for == rec[Scheduler].for
<1>0. /\ cp \in Row /\ t \in Nat /\ for \in Nat /\ for <= t /\ item[Scheduler] = i
      /\ DriverFunctions /\ Scheduler \in Drivers /\ rows \in [Items -> Row]
      /\ InPlace(i)
      /\ pc[Scheduler] = "advance" => FiredFor(i, cp, for)
      /\ pc[Scheduler] # "advance" => Standing(i, rows[i])
  BY DEF InWork
<1>1. /\ UNCHANGED runs /\ due'[i] = None
      /\ Fired(i)' = Fired(i) /\ \A k \in Fired(i) : runs'[k].for = runs[k].for
  BY DEF SaveCompleted, Advance, Defer, Notify, passVars, Fired, InWork
<1>2. ASSUME Return(Scheduler)
      PROVE  pc'[Scheduler] = "due" /\ pc'[Scheduler] \notin Holding
  BY <1>0, <1>2, ReturnEffect DEF Holding
<1>3. CASE SaveCompleted(Scheduler)
  <2>1. Closed(i) /\ rows'[i] = cp /\ Return(Scheduler) /\ Standing(i, rows[i])
    BY <1>0, <1>3 DEF SaveCompleted, SaveItem, InPlace
  <2>2. Standing(i, cp)
    BY <2>1 DEF Standing, Closed, Open
  <2>. QED
    BY <1>1, <1>2, <2>1, <2>2, StandsAgain
<1>4. CASE Advance(Scheduler)
  <2>1. /\ pc[Scheduler] = "advance" /\ rows'[i] = Advanced(i, cp, for, t)
        /\ Return(Scheduler) \/ (Goto(Scheduler, "submit") /\ UNCHANGED <<item, copy, rec>>)
    BY <1>0, <1>4 DEF Advance
  <2>. HIDE DEF cp, for, t
  <2>2. Standing(i, rows'[i])
    BY <1>0, <2>1, MovedOn
  <2>3. \/ pc'[Scheduler] \notin Holding
        \/ pc'[Scheduler] # "advance" /\ InPlace(i)'
    BY <1>0, <1>2, <2>1 DEF Goto, DriverFunctions, InPlace
  <2>. QED
    BY <1>1, <2>2, <2>3, StandsAgain
<1>5. CASE Defer(Scheduler)
  <2>. DEFINE later == [cp EXCEPT !.status = "active", !.next = t + DeferBy]
  <2>1. pc[Scheduler] = "defer" /\ Pending(i)
    BY <1>0, <1>5 DEF Defer, InPlace
  <2>2. copy'[Scheduler] = later /\ rows'[i] = later /\ pc'[Scheduler] = "notify"
    BY <1>0, <1>5 DEF Defer, SetCopy, Goto, DriverFunctions
  <2>3. Open(cp) /\ cp.next <= t /\ Standing(i, cp)
    <3>1. cp = rows[i] /\ Open(cp) /\ cp.next <= for
      BY <2>1 DEF Pending, Open
    <3>2. cp.next \in Nat
      BY <1>0, <3>1 DEF Row, Time, Open
    <3>. HIDE DEF cp, t, for
    <3>. QED
      BY <1>0, <2>1, <3>1, <3>2
  <2>4. DeferBy \in Nat \ {0}
    BY ConstantsAssumption DEF ConstantsAssumption
  <2>5. Standing(i, later)
    <3>. HIDE DEF cp, t
    <3>. QED
      BY <1>0, <2>3, <2>4, PutOff
  <2>. HIDE DEF later
  <2>6. InPlace(i)'
    BY <2>2 DEF InPlace
  <2>. QED
    BY <1>1, <2>2, <2>5, <2>6, StandsAgain
<1>6. CASE Notify(Scheduler)
  <2>1. pc[Scheduler] = "notify" /\ cp = rows[i] /\ Return(Scheduler)
    BY <1>0, <1>6 DEF Notify, InPlace
  <2>2. rows'[i] = rows[i]
    BY <1>0, <1>6, <2>1 DEF Notify
  <2>. QED
    BY <1>0, <1>1, <1>2, <2>1, <2>2, StandsAgain
<1>. QED
  BY <1>3, <1>4, <1>5, <1>6

\* What another writer writes is no longer undisturbed.
LEMMA WriterIsKnown ==
  ASSUME ScheduleTypes, [Next]_vars, NEW i \in Items, Undisturbed(i)'
  PROVE  /\ Undisturbed(i)
         /\ \/ rows'[i] = rows[i]
            \/ item[Scheduler] = i /\ TriggerStep(Scheduler)
<1>0. /\ crashes \in Nat /\ DriverFunctions /\ rows \in [Items -> Row]
      /\ \A d \in Drivers : pc[d] \in Holding => item[d] \in Items
      /\ crashes' = 0 /\ i \notin written'
  BY DEF ScheduleTypes, EnvTypes, StoreTypes, HandsFull, InHand, Undisturbed
<1>1. CASE UNCHANGED <<rows, crashes, written>>
  BY <1>1 DEF Undisturbed
<1>2. CASE Crash
  BY <1>0, <1>2 DEF Crash
<1>3. ASSUME NEW e \in Editors, EditSave(e)
      PROVE  Undisturbed(i) /\ rows'[i] = rows[i]
  <2>1. /\ rows' = [rows EXCEPT ![change[e][1]] = Changed(read[e], change[e][2])]
        /\ written' = written \cup {change[e][1]} /\ crashes' = crashes
    BY <1>3 DEF EditSave
  <2>2. change[e][1] # i
    BY <1>0, <2>1
  <2>. QED
    BY <1>0, <2>1, <2>2 DEF Undisturbed
<1>4. ASSUME NEW d \in Drivers, TriggerStep(d)
      PROVE  Undisturbed(i) /\ (rows'[i] = rows[i] \/ (d = Scheduler /\ item[d] = i))
  <2>1. /\ crashes' = crashes
        /\ written \subseteq written'
        /\ rows' = rows \/ \E row : rows' = [rows EXCEPT ![item[d]] = row]
        /\ rows' = rows \/ d = Scheduler \/ item[d] \in written'
    <3>1. CASE Advance(d) \/ Defer(d) \/ Notify(d)
      <4>1. d = Scheduler
        BY <3>1 DEF Advance, Defer, Notify, ByPass, ScheduleTypes, HandsFull, InHand
      <4>. QED
        BY <3>1, <4>1 DEF Advance, Defer, Notify, envVars
    <3>2. CASE Check(d)
      BY <3>2 DEF Check, SaveItem, WrittenBy
    <3>3. CASE SaveCompleted(d)
      BY <3>3 DEF SaveCompleted, SaveItem, WrittenBy
    <3>4. CASE Record(d) \/ Submit(d) \/ Settle(d)
      BY <3>4 DEF Record, Submit, Settle, envVars
    <3>. QED
      BY <1>4, <3>1, <3>2, <3>3, <3>4 DEF TriggerStep
  <2>. QED
    BY <1>0, <2>1 DEF Undisturbed
<1>5. UNCHANGED <<rows, crashes, written>> \/ Crash \/ (\E e \in Editors : EditSave(e))
      \/ \E d \in Drivers : TriggerStep(d)
  BY DEF vars, storeVars, envVars, Next, PassStep, Environment, PassBegin, ListDue, PassEnd,
     RecoverSubmit, RecoverRecord, TriggerDue, Tick, Finish, TriggerManual, EditRead
<1>. QED
  BY <1>1, <1>2, <1>3, <1>4, <1>5

\* The steps between triggers fire nothing.
LEMMA PassOccurrence ==
  ASSUME ScheduleTypes, ScheduleTypes', RunInv, LatestInv, NEW i \in Items, OccurrenceInv(i),
         PassStep, Fired(i)' \subseteq Fired(i),
         \A k \in Fired(i) : runs'[k].for = runs[k].for,
         Undisturbed(i)' => Undisturbed(i) /\ rows'[i] = rows[i]
  PROVE  OccurrenceInv(i)'
<1>0. /\ DriverFunctions /\ Scheduler \in Drivers /\ rows[i] \in Row
      /\ due \in [Items -> Row \cup {None}]
  BY ConstantTypes DEF ScheduleTypes, StoreTypes, PassTypes
<1>1. CASE PassBegin \/ RecoverRecord \/ PassEnd \/ \E c \in claims : RecoverSubmit(c)
  <2>1. /\ due' = due /\ pc[Scheduler] \notin Holding
        /\ \E l \in {"idle", "recover", "recovered"} : pc' = [pc EXCEPT ![Scheduler] = l]
    BY <1>1 DEF PassBegin, RecoverRecord, PassEnd, RecoverSubmit, Goto, passVars, Holding
  <2>2. ~Working(i) /\ ~Working(i)'
    BY <1>0, <2>1 DEF Working, Holding, DriverFunctions
  <2>. QED
    BY <2>1, <2>2, OccurrenceKept
<1>2. CASE ListDue
  <2>1. /\ due'[i] = IF Due(i, at[Scheduler]) THEN rows[i] ELSE None
        /\ rows' = rows /\ runs' = runs /\ pc[Scheduler] = "recover"
        /\ pc' = [pc EXCEPT ![Scheduler] = "due"]
    BY <1>2 DEF ListDue, Goto, storeVars
  <2>2. ~Working(i) /\ ~Working(i)'
    BY <1>0, <2>1 DEF Working, Holding, DriverFunctions
  <2>3. Fired(i)' = Fired(i)
    BY <2>1 DEF Fired
  <2>. QED
    BY <2>1, <2>2, <2>3 DEF OccurrenceInv, InOrder, Standing, Open
<1>3. ASSUME NEW j \in Items, TriggerDue(j), j # i
      PROVE  OccurrenceInv(i)'
  <2>1. /\ due' = [due EXCEPT ![j] = None] /\ pc[Scheduler] = "due"
        /\ item' = [item EXCEPT ![Scheduler] = j]
    BY <1>3 DEF TriggerDue
  <2>2. due'[i] = due[i] /\ ~Working(i) /\ ~Working(i)'
    BY <1>0, <1>3, <2>1 DEF Working, Holding, DriverFunctions
  <2>. QED
    BY <2>2, OccurrenceKept
<1>4. CASE TriggerDue(i)
  <2>. SUFFICES ASSUME Undisturbed(i)'
                PROVE  OccurrenceInv(i)'
    BY DEF OccurrenceInv
  <2>. DEFINE for == LatestDue(i, due[i], at[Scheduler])
              r == NewRun(i, for, at[Scheduler], FALSE)
  <2>1. /\ pc[Scheduler] = "due" /\ due[i] # None /\ due[i] \in Row /\ at[Scheduler] \in Nat
        /\ due[i].next \in Nat /\ due[i].status = "active"
    BY <1>0, <1>4 DEF TriggerDue, ScheduleTypes, PassTypes, LatestInv, DueRows,
       DriverFunctions
  <2>2. ~Working(i)
    BY <2>1 DEF Working, Holding
  <2>3. due[i] = rows[i] /\ InOrder(i) /\ Standing(i, rows[i])
    BY <2>1, <2>2 DEF OccurrenceInv
  <2>4. for \in Nat /\ for >= due[i].next
    BY <2>1, LatestDueIsDue
  <2>5. r.for = for
    BY DEF NewRun
  <2>6. /\ due'[i] = None /\ item'[Scheduler] = i /\ copy'[Scheduler] = due[i]
        /\ rec'[Scheduler] = r /\ pc'[Scheduler] = "check" /\ runs' = runs /\ rows' = rows
    BY <1>0, <1>4 DEF TriggerDue, Goto, storeVars, DriverFunctions
  <2>. HIDE DEF r, for
  <2>7. Pending(i)'
    <3>1. due[i].next <= for /\ Open(due[i])
      BY <2>1, <2>4, ConstantTypes DEF Open
    <3>. QED
      BY <2>3, <2>5, <2>6, <3>1 DEF Pending, Open
  <2>8. InPlace(i)'
    BY <2>6, <2>7 DEF InPlace
  <2>9. Fired(i)' = Fired(i)
    BY <2>6 DEF Fired
  <2>10. InOrder(i)' /\ Standing(i, rows[i])'
    BY <2>3, <2>6, <2>9 DEF InOrder, Standing, Open
  <2>. QED
    BY <2>6, <2>8, <2>10 DEF OccurrenceInv
<1>. QED
  BY <1>1, <1>2, <1>3, <1>4 DEF PassStep

\* Every step keeps the occurrences of every item in order.
LEMMA OccurrenceStep ==
  ASSUME ScheduleTypes, ScheduleTypes', RunInv, LatestInv, OccurrencesInv, [Next]_vars
  PROVE  OccurrencesInv'
<1>. SUFFICES ASSUME NEW i \in Items
              PROVE  OccurrenceInv(i)'
  BY DEF OccurrencesInv
<1>0. /\ OccurrenceInv(i) /\ DriverFunctions /\ Scheduler \in Drivers
      /\ runs \in Seq(Run) /\ RunInHand
  BY ConstantTypes DEF OccurrencesInv, ScheduleTypes, StoreTypes, LatestInv
<1>1. CASE TriggerStep(Scheduler) /\ item[Scheduler] = i
  <2>. SUFFICES ASSUME Undisturbed(i)'
                PROVE  OccurrenceInv(i)'
    BY DEF OccurrenceInv
  <2>1. Undisturbed(i)
    BY WriterIsKnown
  <2>2. pc[Scheduler] \in Holding
    BY <1>0, <1>1, TriggerEffect
  <2>3. InWork(i)
    BY <1>0, <1>1, <2>1, <2>2, AtWork
  <2>4. CASE Submit(Scheduler) \/ Settle(Scheduler)
    <3>1. /\ ~Record(Scheduler) /\ rows' = rows /\ due' = due
          /\ Return(Scheduler) \/ pc' = [pc EXCEPT ![Scheduler] = "settle"]
          /\ pc[Scheduler] # "advance"
      BY <2>4 DEF Submit, Settle, Record, Goto, passVars
    <3>2. /\ \A k \in Fired(i) : runs'[k].for = runs[k].for
          /\ Fired(i)' \subseteq Fired(i)
      BY <3>1, FiredWhenRecorded
    <3>3. pc'[Scheduler] \in {"due", "settle"}
      BY <1>0, <3>1, ReturnEffect DEF DriverFunctions
    <3>4. Standing(i, rows'[i]) /\ due'[i] = None
      BY <2>3, <3>1 DEF InWork
    <3>5. pc'[Scheduler] # "advance" /\ InPlace(i)'
      BY <3>3 DEF InPlace
    <3>. QED
      BY <2>3, <3>2, <3>4, <3>5, StandsAgain
  <2>. QED
    BY <1>1, <2>3, <2>4, CheckOccurrence, RecordOccurrence, SaveOccurrence DEF TriggerStep
<1>2. CASE ~(TriggerStep(Scheduler) /\ item[Scheduler] = i)
  <2>1. Undisturbed(i)' => Undisturbed(i) /\ rows'[i] = rows[i]
    BY <1>2, WriterIsKnown
  <2>2. \A k \in Fired(i) : runs'[k].for = runs[k].for
    BY FiredWhenRecorded
  <2>3. Fired(i)' \subseteq Fired(i)
    <3>. SUFFICES ASSUME NEW k \in Fired(i)', k \notin Fired(i)
                  PROVE  FALSE
      OBVIOUS
    <3>1. Record(Scheduler) /\ runs'[k] = rec[Scheduler]
      BY FiredWhenRecorded
    <3>2. rec[Scheduler].item = item[Scheduler] /\ rec[Scheduler].item = i
      BY <1>0, <3>1 DEF RunInHand, Record, Holding, Fired
    <3>. QED
      BY <1>2, <3>1, <3>2 DEF TriggerStep
  <2>4. CASE PassStep
    BY <1>0, <2>1, <2>2, <2>3, <2>4, PassOccurrence
  <2>5. ASSUME NEW d \in Drivers, TriggerStep(d)
        PROVE  OccurrenceInv(i)'
    <3>1. /\ due' = due
          /\ \A e \in Drivers \ {d} : /\ pc'[e] = pc[e] /\ item'[e] = item[e]
                                      /\ copy'[e] = copy[e] /\ rec'[e] = rec[e]
          /\ \/ pc'[d] = IF d = Scheduler THEN "due" ELSE "idle"
             \/ item'[d] = item[d]
      BY <2>5, TriggerEffect
    <3>2. CASE d = Scheduler
      <4>1. ~Working(i) /\ ~Working(i)'
        BY <1>2, <2>5, <3>1, <3>2 DEF Working, Holding
      <4>. QED
        BY <1>0, <2>1, <2>2, <2>3, <3>1, <4>1, OccurrenceKept
    <3>3. CASE d # Scheduler
      BY <1>0, <2>1, <2>2, <2>3, <3>1, <3>3, OccurrenceKept
    <3>. QED
      BY <3>2, <3>3
  <2>6. CASE Crash
    BY <2>6 DEF Crash, OccurrenceInv, Undisturbed, ScheduleTypes, EnvTypes
  <2>7. ASSUME NEW c \in Callers, NEW j \in Items, TriggerManual(c, j)
        PROVE  OccurrenceInv(i)'
    <3>1. c \in Drivers /\ c # Scheduler
      BY ConstantTypes
    <3>2. /\ pc'[Scheduler] = pc[Scheduler] /\ item'[Scheduler] = item[Scheduler]
          /\ copy'[Scheduler] = copy[Scheduler] /\ rec'[Scheduler] = rec[Scheduler]
          /\ due' = due
      BY <1>0, <2>7, <3>1 DEF TriggerManual, Goto, DriverFunctions, passVars
    <3>. QED
      BY <1>0, <2>1, <2>2, <2>3, <3>2, OccurrenceKept
  <2>8. CASE UNCHANGED <<driverVars, passVars>>
    <3>1. UNCHANGED <<pc, item, copy, rec, due>>
      BY <2>8 DEF driverVars, passVars
    <3>. QED
      BY <1>0, <2>1, <2>2, <2>3, <3>1, OccurrenceKept
  <2>. QED
    BY <2>4, <2>5, <2>6, <2>7, <2>8
       DEF Next, Environment, Tick, Finish, EditRead, EditSave, vars
<1>. QED
  BY <1>1, <1>2

\* Nothing has been fired in the beginning.
LEMMA OccurrencesInitially == Init => OccurrencesInv
<1>. SUFFICES ASSUME Init, NEW i \in Items
              PROVE  OccurrenceInv(i)
  BY DEF OccurrencesInv
<1>1. Fired(i) = {} /\ ~Working(i) /\ due[i] = None
  BY ConstantTypes DEF Init, Fired, Working, Holding
<1>2. Cardinality(Fired(i)) = 0
  BY <1>1, FS_EmptySet
<1>3. Bounded(i) => MaxOccurrences[i] \in Nat /\ MaxOccurrences[i] > 0
  BY ConstantsAssumption DEF ConstantsAssumption, Bounded, Time
<1>4. Standing(i, rows[i])
  BY <1>1, <1>2, <1>3 DEF Init, Standing
<1>. QED
  BY <1>1, <1>4 DEF OccurrenceInv, InOrder

\* Occurrences go forward in time, always.
LEMMA OccurrencesHold == Spec => [](ScheduleTypes /\ OccurrencesInv)
<1>1. ASSUME ScheduleTypes, RunInv, LatestInv, OccurrencesInv, ScheduleTypes', [Next]_vars
      PROVE  LatestInv' /\ OccurrencesInv'
  BY <1>1, LatestStep, OccurrenceStep
<1>. QED
  BY <1>1, LatestInitially, OccurrencesInitially, RunsHold, PTL DEF Spec

\* While no crash and no other writer comes between the scheduler and an item,
\* no two of its runs stand for one occurrence, and they go forward in time.
THEOREM OccurrencesFireOnce == Spec => []OncePerOccurrence
<1>1. OccurrencesInv => OncePerOccurrence
  BY DEF OccurrencesInv, OccurrenceInv, InOrder, OncePerOccurrence
<1>. QED
  BY <1>1, OccurrencesHold, PTL

WithinLimits ==
  \A i \in Items : Undisturbed(i) /\ Bounded(i) => Cardinality(Fired(i)) <= MaxOccurrences[i]

\* The runs fired for an item do not exceed its limit.
LEMMA FiredUpToLimit ==
  ASSUME ScheduleTypes, OccurrencesInv
  PROVE  WithinLimits
<1>. SUFFICES ASSUME NEW i \in Items, Undisturbed(i), Bounded(i)
              PROVE  Cardinality(Fired(i)) <= MaxOccurrences[i]
  BY DEF WithinLimits
<1>0. /\ OccurrenceInv(i) /\ MaxOccurrences[i] \in Nat
      /\ Cardinality(Fired(i)) \in Nat /\ rows[i] \in Row
  BY FiredFinite, ConstantsAssumption
     DEF Bounded, OccurrencesInv, ScheduleTypes, StoreTypes, ConstantsAssumption, Time
<1>1. CASE Working(i) /\ pc[Scheduler] = "advance"
  <2>1. copy[Scheduler] \in Row
    BY <1>1, ConstantTypes DEF Working, ScheduleTypes, HandsFull, InHand
  <2>2. /\ Cardinality(Fired(i)) <= copy[Scheduler].count + 1
        /\ copy[Scheduler].count < MaxOccurrences[i]
    BY <1>0, <1>1 DEF OccurrenceInv, FiredFor
  <2>. QED
    BY <1>0, <2>1, <2>2 DEF Row
<1>2. CASE ~(Working(i) /\ pc[Scheduler] = "advance")
  <2>1. Cardinality(Fired(i)) <= rows[i].count /\ rows[i].count <= MaxOccurrences[i]
    BY <1>0, <1>2 DEF OccurrenceInv, Standing
  <2>. QED
    BY <1>0, <2>1 DEF Row
<1>. QED
  BY <1>1, <1>2

\* An item limited to some number of occurrences is not fired more often.  (A
\* limit of zero is let through by the source, and such an item fires once.)
THEOREM OccurrencesAreBounded ==
  ASSUME \A i \in Items : MaxOccurrences[i] # 0
  PROVE  Spec => []OccurrencesBounded
<1>1. ScheduleTypes /\ OccurrencesInv => OccurrencesBounded
  BY FiredUpToLimit DEF OccurrencesBounded, WithinLimits, Bounded
<1>. QED
  BY <1>1, OccurrencesHold, PTL

-----------------------------------------------------------------------------
(***************************************************************************)
(* The promise.  A recovery counts the attempt before it records the run,  *)
(* so that a run once fired stays so, even when it is given up; a run is   *)
(* fired only when the scheduler records it, for a later occurrence and    *)
(* within the limit as long as its item is undisturbed; and what is        *)
(* disturbed remains disturbed.                                            *)
(***************************************************************************)

\* A run recovered has been tried.
Tried == pc[Scheduler] = "recovered" => rec[Scheduler].attempts > 0

\* Only a recovery leads to the record of a recovered run.
LEMMA TriedStep ==
  ASSUME ScheduleTypes, Tried, [Next]_vars
  PROVE  Tried'
<1>0. DriverFunctions /\ Scheduler \in Drivers /\ claims \subseteq (DOMAIN runs) \X Run
  BY ConstantTypes DEF ScheduleTypes, PassTypes
<1>1. CASE pc'[Scheduler] = pc[Scheduler] /\ rec'[Scheduler] = rec[Scheduler]
  BY <1>1 DEF Tried
<1>2. ASSUME NEW c \in claims, RecoverSubmit(c)
      PROVE  Tried'
  <2>1. c[2] \in Run /\ c[2].attempts \in Nat
    BY <1>0 DEF Run
  <2>2. [c[2] EXCEPT !.attempts = @ + 1, !.status = "submitted"].attempts = c[2].attempts + 1
    BY <2>1 DEF Run
  <2>3. Refused(c[2]).attempts = c[2].attempts + 1
    BY <2>1 DEF Refused, Run
  <2>4. \E r : rec' = [rec EXCEPT ![Scheduler] = r] /\ r.attempts = c[2].attempts + 1
    BY <1>2, <2>2, <2>3 DEF RecoverSubmit
  <2>5. rec'[Scheduler].attempts = c[2].attempts + 1
    BY <1>0, <2>4 DEF DriverFunctions
  <2>. QED
    BY <2>1, <2>5 DEF Tried
<1>3. CASE PassBegin \/ RecoverRecord \/ ListDue \/ PassEnd \/ Crash \/ \E i \in Items : TriggerDue(i)
  <2>1. \E l \in {"recover", "due", "idle", "check"} :
          pc' = [pc EXCEPT ![Scheduler] = l] \/ pc' = [d \in Drivers |-> "idle"]
    BY <1>3 DEF PassBegin, RecoverRecord, ListDue, PassEnd, Crash, TriggerDue, Goto
  <2>. QED
    BY <1>0, <2>1 DEF Tried, DriverFunctions
<1>4. ASSUME NEW d \in Drivers, TriggerStep(d)
      PROVE  Tried'
  BY <1>0, <1>1, <1>4, TriggerEffect DEF Tried, Holding
<1>5. ASSUME NEW c \in Callers, NEW i \in Items, TriggerManual(c, i)
      PROVE  Tried'
  BY <1>0, <1>1, <1>5, ConstantTypes DEF TriggerManual, Goto, DriverFunctions
<1>6. CASE UNCHANGED driverVars
  BY <1>1, <1>6 DEF driverVars
<1>. QED
  BY <1>2, <1>3, <1>4, <1>5, <1>6
     DEF Next, PassStep, Environment, Tick, Finish, EditRead, EditSave, vars

\* What was fired stays fired.
LEMMA FiredStays ==
  ASSUME ScheduleTypes, RunInv, Tried, [Next]_vars, NEW i \in Items
  PROVE  Fired(i) \subseteq Fired(i)'
<1>. SUFFICES ASSUME NEW k \in Fired(i)
              PROVE  /\ runs'[k].status \in {"claimed", "submitted", "recorded"}
                        \/ runs'[k].attempts > 0
  BY RunsKept DEF Fired, Same
<1>0. k \in DOMAIN runs /\ runs \in Seq(Run) /\ Scheduler \in Drivers
  BY ConstantTypes DEF Fired, ScheduleTypes, StoreTypes
<1>1. CASE runs'[k] = runs[k]
  BY <1>1 DEF Fired
<1>2. CASE RecoverRecord
  <2>1. /\ runs' = [runs EXCEPT ![idx[Scheduler]] = rec[Scheduler]]
        /\ rec[Scheduler].attempts > 0
    BY <1>2 DEF RecoverRecord, Tried
  <2>. QED
    BY <1>0, <1>1, <2>1
<1>3. ASSUME NEW d \in Drivers, Settle(d)
      PROVE  runs'[k] = runs[k] \/ runs'[k].status = "submitted"
  <2>1. /\ runs' = [runs EXCEPT ![idx[d]] = [rec[d] EXCEPT !.status = "submitted"]]
        /\ rec[d] \in Run
    BY <1>3 DEF Settle, ScheduleTypes, HandsFull, InHand, Holding
  <2>. QED
    BY <1>0, <2>1 DEF Run
<1>4. ASSUME NEW d \in Drivers, Record(d)
      PROVE  runs'[k] = runs[k]
  BY <1>0, <1>4 DEF Record
<1>. QED
  BY <1>1, <1>2, <1>3, <1>4, RunsChange

\* The occurrences an item was fired for, which is what the promise sees.
For(i) == {runs[k].for : k \in Fired(i)}

\* There are no more occurrences than runs.
LEMMA FewerOccurrences ==
  ASSUME ScheduleTypes, NEW i \in Items
  PROVE  /\ Cardinality(For(i)) \in Nat /\ Cardinality(For(i)) <= Cardinality(Fired(i))
<1>. DEFINE f == [k \in Fired(i) |-> runs[k].for]
<1>1. IsFiniteSet(Fired(i)) /\ Cardinality(Fired(i)) \in Nat
  BY FiredFinite
<1>2. f \in Surjection(Fired(i), For(i))
  BY DEF For, Surjection
<1>3. IsFiniteSet(For(i)) /\ Cardinality(For(i)) <= Cardinality(Fired(i))
  BY <1>1, <1>2, FS_Surjection
<1>. QED
  BY <1>3, FS_CardinalityType

\* A step that fires nothing at most disturbs items.
LEMMA StepDisturbs ==
  ASSUME ScheduleTypes, RunInv, Tried, [Next]_vars,
         \A i \in Items : Fired(i)' \subseteq Fired(i)
  PROVE  Promise!Next
<1>1. ASSUME NEW i \in Items
      PROVE  For(i)' = For(i)
  <2>1. Fired(i)' = Fired(i) /\ \A k \in Fired(i) : runs'[k].for = runs[k].for
    BY FiredStays, FiredWhenRecorded
  <2>. QED
    BY <2>1 DEF For
<1>. DEFINE D == {i \in Items : ~Undisturbed(i)}
<1>2. D \subseteq D' /\ D' \in SUBSET Items
  BY WriterIsKnown
<1>3. Promise!Disturb(D')
  BY <1>1, <1>2 DEF Promise!Disturb, For
<1>. QED
  BY <1>2, <1>3 DEF Promise!Next

\* A run recorded by the scheduler is the next of its item, if it is undisturbed.
LEMMA StepFires ==
  ASSUME ScheduleTypes, ScheduleTypes', RunInv, LatestInv, OccurrencesInv', WithinLimits',
         Tried, [Next]_vars, NEW i \in Items, NEW n \in Fired(i)', n \notin Fired(i)
  PROVE  Promise!Next
<1>. DEFINE r == rec[Scheduler]
            t == r.for
<1>1. /\ Record(Scheduler) /\ n = Len(runs) + 1 /\ runs'[n] = r /\ r.item = i
      /\ pc[Scheduler] \in Holding /\ r \in Run
  <2>1. Record(Scheduler) /\ n = Len(runs) + 1 /\ runs'[n] = r
    BY FiredWhenRecorded
  <2>2. pc[Scheduler] \in Holding /\ r.item = i
    BY <2>1 DEF Record, Holding, Fired
  <2>. QED
    BY <2>1, <2>2, ConstantTypes DEF ScheduleTypes, HandsFull, InHand
<1>2. t \in 0..MaxTime
  <2>1. /\ t \in Nat /\ t <= at[Scheduler] /\ at[Scheduler] <= now /\ at[Scheduler] \in Nat
        /\ now \in Nat /\ now <= MaxTime
    BY <1>1, ConstantTypes DEF Run, LatestInv, RunInHand, Latest, DueRows, ScheduleTypes,
       EnvTypes, DriverFunctions
  <2>. QED
    BY <2>1, ConstantTypes
<1>3. /\ \A j \in Items \ {i} : Fired(j)' = Fired(j)
      /\ Fired(i)' = Fired(i) \cup {n}
  <2>1. \A j \in Items : Fired(j) \subseteq Fired(j)'
    BY FiredStays
  <2>2. \A j \in Items : \A k \in Fired(j)' \ Fired(j) : k = n /\ runs'[k] = r
    BY <1>1, FiredWhenRecorded
  <2>3. \A j \in Items : \A k \in Fired(j)' \ Fired(j) : j = i
    BY <1>1, <2>2 DEF Fired
  <2>. QED
    BY <2>1, <2>2, <2>3
<1>4. \A j \in Items : \A k \in Fired(j) : runs'[k].for = runs[k].for
  BY FiredWhenRecorded
<1>. HIDE DEF r, t
<1>5. \A j \in Items \ {i} : For(j)' = For(j)
  BY <1>3, <1>4 DEF For
<1>6. For(i)' = For(i) \cup {t}
  <2>1. For(i)' = {runs'[k].for : k \in Fired(i)} \cup {runs'[n].for}
    BY <1>3 DEF For
  <2>2. {runs'[k].for : k \in Fired(i)} = For(i)
    BY <1>4 DEF For
  <2>. QED
    BY <1>1, <2>1, <2>2 DEF t
<1>7. UNCHANGED <<crashes, written>>
  BY <1>1 DEF Record, envVars
<1>8. Promise!FireFor(i, t)
  BY <1>5, <1>6, <1>7 DEF Promise!FireFor, For, Undisturbed
<1>9. CASE ~Undisturbed(i)
  <2>1. Promise!FireAny(i, t)
    BY <1>8, <1>9 DEF Promise!FireAny
  <2>. QED
    BY <1>2, <2>1 DEF Promise!Next
<1>10. CASE Undisturbed(i)
  <2>1. Undisturbed(i)' /\ InOrder(i)'
    BY <1>7, <1>10 DEF Undisturbed, OccurrencesInv, OccurrenceInv
  <2>2. \A f \in For(i) : f < t
    <3>1. \A k \in Fired(i) : k < n /\ k \in Fired(i)'
      BY <1>1, <1>3, FiredFinite DEF ScheduleTypes, StoreTypes
    <3>2. ASSUME NEW k \in Fired(i)
          PROVE  runs[k].for < t
      <4>1. runs'[k].for < runs'[n].for
        BY <2>1, <3>1 DEF InOrder
      <4>2. runs'[k].for = runs[k].for /\ runs'[n].for = t
        BY <1>1, <1>4 DEF t
      <4>. QED
        BY <4>1, <4>2
    <3>. QED
      BY <3>2 DEF For
  <2>3. ASSUME Bounded(i)
        PROVE  Cardinality(For(i)) < MaxOccurrences[i]
    <3>1. Cardinality(Fired(i)') = Cardinality(Fired(i)) + 1
      BY <1>3, FiredFinite, FS_AddElement
    <3>2. Cardinality(Fired(i)') <= MaxOccurrences[i]
      BY <2>1, <2>3 DEF WithinLimits, Bounded
    <3>3. MaxOccurrences[i] \in Nat /\ Cardinality(Fired(i)) \in Nat
      BY <2>3, FiredFinite, ConstantsAssumption DEF ConstantsAssumption, Bounded, Time
    <3>. QED
      BY <3>1, <3>2, <3>3, FewerOccurrences
  <2>4. Promise!FireNext(i, t)
    <3>. DEFINE limit == IF MaxOccurrences[i] = 0 THEN None ELSE MaxOccurrences[i]
                limits == [j \in Items |-> IF MaxOccurrences[j] = 0 THEN None
                                                           ELSE MaxOccurrences[j]]
                fired == [j \in Items |-> For(j)]
    <3>1. limit # None => Cardinality(For(i)) < limit
      BY <2>3 DEF Bounded
    <3>2. limits[i] = limit /\ fired[i] = For(i)
      OBVIOUS
    <3>. HIDE DEF limit
    <3>3. /\ \A f \in fired[i] : f < t
          /\ limits[i] # None => Cardinality(fired[i]) < limits[i]
      BY <2>2, <3>1, <3>2
    <3>4. \A S : Promise!Cardinality(S) = Cardinality(S)
      BY DEF Promise!Cardinality, Cardinality
    <3>. QED
      BY <1>8, <1>10, <3>3, <3>4 DEF Promise!FireNext, For
  <2>. QED
    BY <1>2, <2>4 DEF Promise!Next
<1>. QED
  BY <1>9, <1>10

PromiseInv == ScheduleTypes /\ RunInv /\ LatestInv /\ OccurrencesInv /\ WithinLimits /\ Tried

\* Every step is one the promise allows, or one it does not see.
LEMMA StepKeepsPromise ==
  ASSUME PromiseInv, PromiseInv', [Next]_vars
  PROVE  Promise!Next
<1>1. CASE \A i \in Items : Fired(i)' \subseteq Fired(i)
  BY <1>1, StepDisturbs DEF PromiseInv
<1>2. CASE ~\A i \in Items : Fired(i)' \subseteq Fired(i)
  <2>1. PICK i \in Items : \E n \in Fired(i)' : n \notin Fired(i)
    BY <1>2
  <2>. QED
    BY <2>1, StepFires DEF PromiseInv
<1>. QED
  BY <1>1, <1>2

\* What the steps rest on holds always.
LEMMA PromiseInvHolds == Spec => []PromiseInv
<1>1. Init => LatestInv /\ OccurrencesInv /\ Tried
  BY LatestInitially, OccurrencesInitially, ConstantTypes DEF Init, Tried
<1>2. ASSUME ScheduleTypes, RunInv, LatestInv, OccurrencesInv, Tried, ScheduleTypes',
             [Next]_vars
      PROVE  LatestInv' /\ OccurrencesInv' /\ Tried'
  BY <1>2, LatestStep, OccurrenceStep, TriedStep
<1>3. ScheduleTypes /\ OccurrencesInv => WithinLimits
  BY FiredUpToLimit
<1>. QED
  BY <1>1, <1>2, <1>3, RunsHold, PTL DEF Spec, PromiseInv

\* The schedule service implements SchedulePromise: an item nobody else has
\* written is fired for one occurrence after the other, a later one each time
\* and never more often than its limit, one step at a time; and no recovery,
\* deferral, manual trigger, edit or crash ever forgets or takes back what was
\* fired.  Items that others write, or a crash has met, keep only the last.
THEOREM ServiceKeepsPromise == Spec => FiredAsPromised
<1>1. Init => Promise!Init
  <2>. SUFFICES ASSUME Init
                PROVE  Promise!Init
    OBVIOUS
  <2>1. \A i \in Items : Fired(i) = {} /\ Undisturbed(i)
    BY DEF Init, Fired, Undisturbed
  <2>. QED
    BY <2>1 DEF Promise!Init
<1>2. PromiseInv /\ PromiseInv' /\ [Next]_vars => Promise!Next
  BY StepKeepsPromise
<1>. QED
  BY <1>1, <1>2, PromiseInvHolds, PTL DEF Spec, FiredAsPromised, Promise!Safety

=============================================================================
