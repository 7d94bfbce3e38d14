----------------------- MODULE TimetableBooking_proofs -----------------------
(***************************************************************************)
(* Proofs about TimetableBooking: type correctness; that a class, a        *)
(* teacher or a room is booked twice only by a request that had missed     *)
(* the other booking; that a replacement leaves no row behind that its     *)
(* generation had read, and keeps to the hours of the teachers; and that   *)
(* a server that serves one request at a time implements the abstract      *)
(* timetable of ConflictFreeTimetable.                                     *)
(***************************************************************************)
EXTENDS TimetableBooking, TLAPS, SequenceTheorems, FiniteSetTheorems

(***************************************************************************)
(* Two entries that really overlap are always found by the query of        *)
(* CheckConflicts, also when one of them ends before it starts.            *)
(***************************************************************************)
LEMMA OverlapIsFound ==
    ASSUME NEW a \in Booking, NEW b \in Booking, DoubleBooked(a, b)
    PROVE  ConflictsWith(b, a) /\ DoubleBooked(b, a)
  BY DEF DoubleBooked, ConflictsWith, Overlaps, SlotMatches, SharesResource, Booking

(***************************************************************************)
(* For entries whose end is after their start the three alternatives of    *)
(* the query say no more than the two comparisons of hasTimeOverlap, so    *)
(* manual bookings and the greedy engine use the same notion of conflict.  *)
(***************************************************************************)
THEOREM QueryIsOverlap ==
    ASSUME NEW a \in Booking, NEW b \in Booking,
           IsValidTimeSlot(a), IsValidTimeSlot(b)
    PROVE  SlotMatches(a, b) <=> Overlaps(a, b)
  BY DEF SlotMatches, Overlaps, IsValidTimeSlot, Booking

(* The patched entry that UpdateTimetable checks and saves is a booking. *)
LEMMA MergeType ==
    ASSUME NEW b \in Booking, NEW p \in Patch
    PROVE  Merge(b, p) \in Booking
  BY DEF Merge, Given, Booking, Patch

(* So is the entry that is stored, with the keys of the old row. *)
LEMMA ReattachType ==
    ASSUME NEW b \in Booking, NEW old \in Booking, NEW loaded
    PROVE  Reattach(b, old, loaded) \in Booking
  BY DEF Reattach, Booking

(* The hours that the greedy engine reads are a number. *)
LEMMA HoursType ==
    ASSUME TypeOK, NEW S, S \subseteq DOMAIN rows
    PROVE  Cardinality(S) \in Nat
  <1>0. nextId - 1 \in Int
    BY DEF TypeOK
  <1>1. IsFiniteSet(1..(nextId - 1))
    BY <1>0, FS_Interval
  <1>2. IsFiniteSet(S)
    BY <1>1, FS_Subset DEF TypeOK
  <1> QED BY <1>2, FS_CardinalityType

(* An answer of the solver is a sequence of bookings of the class. *)
LEMMA SolverPlanType ==
    ASSUME NEW c \in Classes, NEW p \in SolverPlans(c)
    PROVE  /\ p \in Seq(Booking)
           /\ \A k \in DOMAIN p : p[k].class = c
           /\ \A k, l \in DOMAIN p : k # l => ~DoubleBooked(p[k], p[l])
  <1> DEFINE n == Len(SolverSessions[c])
  <1>1. SolverSessions[c] \in Seq(SUBSET BookingOf(c))
    BY SessionAssumption
  <1>2. n \in Nat /\ DOMAIN SolverSessions[c] = 1..n
    BY <1>1
  <1>3. \A k \in 1..n : SolverSessions[c][k] \subseteq BookingOf(c)
    BY <1>1, <1>2
  <1>4. p \in [1..n -> UNION {SolverSessions[c][k] : k \in 1..n}]
        /\ \A k \in 1..n : p[k] \in SolverSessions[c][k]
    BY <1>2 DEF SolverPlans
  <1>5. \A k \in 1..n : p[k] \in Booking /\ p[k].class = c
    BY <1>3, <1>4 DEF BookingOf
  <1>6. p \in [1..n -> Booking]
    BY <1>4, <1>5
  <1>7. p \in Seq(Booking)
    BY <1>2, <1>6, SeqDef
  <1>8. \A k, l \in DOMAIN p : k # l => ~DoubleBooked(p[k], p[l])
    BY DEF SolverPlans, DoubleBooked
  <1> QED BY <1>4, <1>5, <1>7, <1>8

(* What is left of a pair without its first entry. *)
LEMMA TailOfPair ==
    ASSUME NEW S, NEW pair \in Seq(S), Len(pair) = 2
    PROVE  /\ pair[1] \in S
           /\ Tail(pair) \in Seq(S) /\ Len(Tail(pair)) = 1
           /\ DOMAIN Tail(pair) = {1} /\ Tail(pair)[1] = pair[2]
  <1>1. pair # <<>> /\ pair[1] \in S
    OBVIOUS
  <1>2. PICK rest \in Seq(S) : rest = Tail(pair)
    BY <1>1, HeadTailProperties
  <1>3. Len(rest) = 1 /\ \A k \in 1..Len(rest) : rest[k] = pair[k + 1]
    BY <1>1, <1>2, HeadTailProperties
  <1>4. DOMAIN rest = {1}
    BY <1>3
  <1>5. rest[1] = pair[2]
    BY <1>3
  <1> QED BY <1>1, <1>2, <1>3, <1>4, <1>5

-----------------------------------------------------------------------------
(* A committed write *)

(* FreshRows gives the planned bookings the next free ids. *)
LEMMA FreshRowsType ==
    ASSUME TypeOK, NEW r \in Requests
    PROVE  /\ Len(plan[r]) \in Nat
           /\ DOMAIN FreshRows(r) = nextId..(nextId + Len(plan[r]) - 1)
           /\ \A i \in DOMAIN FreshRows(r) :
                 /\ i - nextId + 1 \in DOMAIN plan[r]
                 /\ FreshRows(r)[i] = plan[r][i - nextId + 1]
                 /\ FreshRows(r)[i] \in Booking
                 /\ i \notin DOMAIN rows
  <1>1. plan[r] \in Seq(Booking) /\ nextId \in Nat \ {0}
    BY DEF TypeOK
  <1>2. Len(plan[r]) \in Nat /\ DOMAIN plan[r] = 1..Len(plan[r])
        /\ \A k \in 1..Len(plan[r]) : plan[r][k] \in Booking
    BY <1>1
  <1>3. DOMAIN FreshRows(r) = nextId..(nextId + Len(plan[r]) - 1)
    BY DEF FreshRows
  <1>4. \A i \in DOMAIN FreshRows(r) : i - nextId + 1 \in 1..Len(plan[r])
    BY <1>1, <1>2, <1>3
  <1>5. \A i \in DOMAIN FreshRows(r) : FreshRows(r)[i] = plan[r][i - nextId + 1]
    BY DEF FreshRows
  <1>6. \A i \in DOMAIN FreshRows(r) : i \notin DOMAIN rows
    BY <1>1, <1>2, <1>3 DEF TypeOK
  <1> QED BY <1>2, <1>3, <1>4, <1>5, <1>6

(* A write of well-typed rows leaves a well-typed table and well-typed history. *)
LEMMA WriteType ==
    ASSUME TypeOK, NEW r \in Requests, NEW gone, NEW new, Write(r, gone, new),
           nextId' \in Nat, nextId' >= nextId, DOMAIN new \subseteq 1..(nextId' - 1),
           \A i \in DOMAIN new : new[i] \in Booking,
           replaces' \in [Requests -> SUBSET (1..(nextId' - 1))]
    PROVE  TypeOK'
  <1> DEFINE ids == (DOMAIN rows \ gone) \cup DOMAIN new
  <1>1. nextId \in Nat \ {0} /\ DOMAIN rows \subseteq 1..(nextId - 1)
    BY DEF TypeOK
  <1>2. 1..(nextId - 1) \subseteq 1..(nextId' - 1)
    <2>1. \A m, n \in Nat : m <= n => 1..(m - 1) \subseteq 1..(n - 1)
      OBVIOUS
    <2> QED BY <1>1, <2>1
  <1>3. DOMAIN rows' = ids /\ ids \subseteq 1..(nextId' - 1)
    BY <1>1, <1>2 DEF Write
  <1>4. rows' \in [ids -> Booking]
    BY DEF Write, TypeOK
  <1>5. blind' \in [ids -> SUBSET (1..(nextId' - 1))]
    BY <1>2 DEF Write, TypeOK
  <1>6. missed' \in [Requests -> SUBSET (1..(nextId' - 1))]
    BY <1>2 DEF Write, TypeOK
  <1>7. /\ pc' \in [Requests -> PC]
        /\ plan' \in [Requests -> Seq(Booking)]
        /\ cls' \in [Requests -> Classes \cup {Absent}]
        /\ seed' \in [Requests -> [Staff -> Nat]]
        /\ accepted' \in Nat
    BY DEF Write, Answer, TypeOK, PC
  <1> QED BY <1>1, <1>3, <1>4, <1>5, <1>6, <1>7 DEF TypeOK

(* A write by r leaves the other requests in flight where they were. *)
LEMMA WritePhase ==
    ASSUME TypeOK, PhaseOK, NEW r \in Requests, NEW gone, NEW new, Write(r, gone, new),
           nextId' \in Nat, nextId' >= nextId, replaces'[r] = {},
           \A q \in Requests \ {r} :
              replaces'[q] = replaces[q] \/ pc[q] = "commit"
    PROVE  PhaseOK'
  <1>1. 1..(nextId - 1) \subseteq 1..(nextId' - 1)
    <2>1. \A m, n \in Nat : m <= n => 1..(m - 1) \subseteq 1..(n - 1)
      OBVIOUS
    <2> QED BY <2>1 DEF TypeOK
  <1>2. pc'[r] = "idle" /\ plan'[r] = <<>> /\ replaces'[r] = {} /\ missed'[r] = {}
    BY DEF Write, Answer, TypeOK
  <1>3. \A q \in Requests \ {r} :
           /\ pc'[q] = pc[q] /\ plan'[q] = plan[q] /\ cls'[q] = cls[q]
           /\ pc[q] = "idle" => missed'[q] = {}
           /\ pc[q] # "commit" => replaces'[q] = replaces[q]
    BY DEF Write, Answer, TypeOK
  <1>4. ASSUME NEW q \in Requests, pc[q] \in {"merged", "save"}
        PROVE  \E i \in 1..(nextId' - 1) : replaces[q] = {i}
    BY <1>1, <1>4 DEF PhaseOK, Phase
  <1>5. ASSUME NEW q \in Requests, q = r PROVE Phase(q)'
    BY <1>2, <1>5 DEF Phase
  <1>6. ASSUME NEW q \in Requests, q # r PROVE Phase(q)'
    <2>1. /\ pc'[q] = pc[q] /\ plan'[q] = plan[q] /\ cls'[q] = cls[q]
          /\ pc[q] = "idle" => missed'[q] = {}
          /\ pc[q] # "commit" => replaces'[q] = replaces[q]
          /\ pc[q] \in {"merged", "save"} => \E i \in 1..(nextId' - 1) : replaces[q] = {i}
      BY <1>3, <1>4, <1>6
    <2>2. Phase(q)
      BY DEF PhaseOK
    <2> QED BY <2>1, <2>2 DEF Phase
  <1> QED BY <1>5, <1>6 DEF PhaseOK

(* A step of r that leaves the other requests alone has only r to account for. *)
LEMMA OtherPhase ==
    ASSUME PhaseOK, NEW r \in Requests, Phase(r)', nextId' = nextId,
           \A q \in Requests \ {r} :
              /\ pc'[q] = pc[q] /\ plan'[q] = plan[q] /\ cls'[q] = cls[q]
              /\ replaces'[q] = replaces[q] /\ missed'[q] = missed[q]
    PROVE  PhaseOK'
  <1> SUFFICES ASSUME NEW q \in Requests \ {r} PROVE Phase(q)'
    BY DEF PhaseOK
  <1>1. Phase(q)
    BY DEF PhaseOK
  <1> QED BY <1>1 DEF Phase

(***************************************************************************)
(* The type invariant, with what each request holds at each statement,     *)
(* which tells what the pending write will put into the table.             *)
(***************************************************************************)
TypeInv == TypeOK /\ PhaseOK

LEMMA TypeInit == Init => TypeInv
  <1> SUFFICES ASSUME Init PROVE TypeInv
    OBVIOUS
  <1>1. DOMAIN rows = {} /\ DOMAIN blind = {}
    BY DEF Init
  <1>2. rows \in [{} -> Booking] /\ blind \in [{} -> SUBSET (1..(nextId - 1))]
    BY DEF Init
  <1>3. <<>> \in Seq(Booking)
    OBVIOUS
  <1> QED BY <1>1, <1>2, <1>3 DEF Init, TypeInv, TypeOK, PhaseOK, Phase, PC

LEMMA TypeStep == TypeInv /\ [Next]_vars => TypeInv'
  <1> SUFFICES ASSUME TypeOK, PhaseOK, [Next]_vars PROVE TypeOK' /\ PhaseOK'
    BY DEF TypeInv
  <1> USE DEF PC
  <1>1. ASSUME NEW r \in Requests, CreateTimetable(r) PROVE TypeOK' /\ PhaseOK'
    <2>1. PICK b \in CreatePayloads : plan' = [plan EXCEPT ![r] = <<b>>]
      BY <1>1 DEF CreateTimetable
    <2>2. b \in Booking /\ <<b>> \in Seq(Booking) /\ Len(<<b>>) = 1
      BY PayloadAssumption
    <2>3. TypeOK'
      BY <1>1, <2>1, <2>2 DEF CreateTimetable, Accept, TypeOK
    <2>4. /\ pc'[r] = "insert" /\ plan'[r] = <<b>> /\ replaces'[r] = {}
          /\ nextId' = nextId
          /\ \A q \in Requests \ {r} :
                /\ pc'[q] = pc[q] /\ plan'[q] = plan[q] /\ cls'[q] = cls[q]
                /\ replaces'[q] = replaces[q] /\ missed'[q] = missed[q]
      BY <1>1, <2>1 DEF CreateTimetable, Accept, TypeOK, PhaseOK, Phase
    <2>5. PhaseOK'
      <3>1. Phase(r)'
        BY <2>2, <2>4 DEF Phase
      <3> QED BY <2>4, <3>1, OtherPhase
    <2> QED BY <2>3, <2>5
  <1>2. ASSUME NEW r \in Requests, Insert(r) PROVE TypeOK' /\ PhaseOK'
    <2>1. Len(plan[r]) = 1 /\ nextId \in Nat \ {0} /\ nextId' = nextId + 1
      BY <1>2 DEF Insert, PhaseOK, Phase, TypeOK
    <2>2. DOMAIN FreshRows(r) \subseteq 1..(nextId' - 1)
      <3>1. \A i \in DOMAIN FreshRows(r) : i \in nextId..(nextId + 1 - 1)
        BY <2>1, FreshRowsType
      <3> QED BY <2>1, <3>1
    <2>3. replaces' \in [Requests -> SUBSET (1..(nextId' - 1))]
      BY <1>2, <2>1 DEF Insert, TypeOK
    <2>4. TypeOK'
      <3>1. Write(r, {}, FreshRows(r))
        BY <1>2 DEF Insert
      <3>2. nextId' \in Nat /\ nextId' >= nextId
        BY <2>1
      <3>3. \A i \in DOMAIN FreshRows(r) : FreshRows(r)[i] \in Booking
        BY FreshRowsType
      <3> QED BY <2>2, <2>3, <3>1, <3>2, <3>3, WriteType
    <2>5. replaces' = replaces /\ replaces[r] = {}
      BY <1>2 DEF Insert, PhaseOK, Phase
    <2>6. PhaseOK'
      BY <1>2, <2>1, <2>5, WritePhase DEF Insert
    <2> QED BY <2>4, <2>6
  <1>3. ASSUME NEW r \in Requests, UpdateTimetable(r) PROVE TypeOK' /\ PhaseOK'
    <2>1. PICK i \in DOMAIN rows, p \in Patches, loaded \in SUBSET {"class", "staff", "room"} :
             /\ plan' = [plan EXCEPT ![r] = <<Merge(rows[i], p),
                                             Reattach(Merge(rows[i], p), rows[i], loaded)>>]
             /\ replaces' = [replaces EXCEPT ![r] = {i}]
      BY <1>3 DEF UpdateTimetable
    <2> DEFINE checked == Merge(rows[i], p)
               stored == Reattach(checked, rows[i], loaded)
    <2>2. checked \in Booking /\ stored \in Booking
      BY MergeType, ReattachType, PayloadAssumption DEF TypeOK
    <2> HIDE DEF checked, stored
    <2>3. <<checked, stored>> \in Seq(Booking) /\ Len(<<checked, stored>>) = 2
          /\ plan' = [plan EXCEPT ![r] = <<checked, stored>>]
      BY <2>1, <2>2 DEF checked, stored
    <2>4. i \in 1..(nextId - 1)
      BY DEF TypeOK
    <2>5. TypeOK'
      BY <1>3, <2>1, <2>3, <2>4 DEF UpdateTimetable, Accept, TypeOK
    <2>6. /\ pc'[r] = "merged" /\ plan'[r] = <<checked, stored>> /\ replaces'[r] = {i}
          /\ nextId' = nextId
          /\ \A q \in Requests \ {r} :
                /\ pc'[q] = pc[q] /\ plan'[q] = plan[q] /\ cls'[q] = cls[q]
                /\ replaces'[q] = replaces[q] /\ missed'[q] = missed[q]
      BY <1>3, <2>1, <2>3 DEF UpdateTimetable, Accept, TypeOK
    <2>7. PhaseOK'
      <3>1. Phase(r)'
        BY <2>3, <2>4, <2>6 DEF Phase
      <3> QED BY <2>6, <3>1, OtherPhase
    <2> QED BY <2>5, <2>7
  <1>4. ASSUME NEW r \in Requests, ValidateUpdate(r) PROVE TypeOK' /\ PhaseOK'
    <2>1. CASE CheckConflicts(plan[r][1], replaces[r]) = {}
      <3>1. /\ pc[r] = "merged" /\ pc' = [pc EXCEPT ![r] = "save"]
            /\ plan' = [plan EXCEPT ![r] = Tail(@)]
            /\ \E S \in SUBSET DOMAIN rows : missed' = [missed EXCEPT ![r] = S]
            /\ UNCHANGED <<rows, nextId, cls, seed, replaces, accepted, blind>>
        BY <1>4, <2>1 DEF ValidateUpdate
      <3>2. Tail(plan[r]) \in Seq(Booking) /\ Len(Tail(plan[r])) = 1
        <4>1. plan[r] \in Seq(Booking) /\ Len(plan[r]) = 2
          BY <3>1 DEF TypeOK, PhaseOK, Phase
        <4> QED BY <4>1, TailOfPair
      <3>3. TypeOK'
        BY <3>1, <3>2 DEF TypeOK
      <3>4. PhaseOK'
        BY <3>1, <3>2 DEF TypeOK, PhaseOK, Phase
      <3> QED BY <3>3, <3>4
    <2>2. CASE CheckConflicts(plan[r][1], replaces[r]) # {}
      <3>1. /\ pc[r] = "merged" /\ Answer(r)
            /\ replaces' = [replaces EXCEPT ![r] = {}]
            /\ missed' = [missed EXCEPT ![r] = {}]
            /\ UNCHANGED <<rows, nextId, accepted, blind>>
        BY <1>4, <2>2 DEF ValidateUpdate
      <3>2. TypeOK'
        BY <3>1 DEF Answer, TypeOK
      <3>3. PhaseOK'
        BY <3>1 DEF Answer, TypeOK, PhaseOK, Phase
      <3> QED BY <3>2, <3>3
    <2> QED BY <2>1, <2>2
  <1>5. ASSUME NEW r \in Requests, Save(r) PROVE TypeOK' /\ PhaseOK'
    <2>1. Len(plan[r]) = 1 /\ nextId \in Nat \ {0} /\ nextId' = nextId
      BY <1>5 DEF Save, PhaseOK, Phase, TypeOK
    <2>2. plan[r][1] \in Booking
      <3>1. plan[r] \in Seq(Booking)
        BY DEF TypeOK
      <3> QED BY <2>1, <3>1
    <2>3. replaces[r] \subseteq 1..(nextId' - 1)
      BY <2>1 DEF TypeOK
    <2>4. replaces' \in [Requests -> SUBSET (1..(nextId' - 1))]
      BY <1>5, <2>1 DEF Save, TypeOK
    <2>5. TypeOK'
      BY <1>5, <2>1, <2>2, <2>3, <2>4, WriteType DEF Save
    <2>6. replaces'[r] = {} /\ \A q \in Requests \ {r} : replaces'[q] = replaces[q]
      BY <1>5 DEF Save, TypeOK
    <2>7. PhaseOK'
      BY <1>5, <2>1, <2>6, WritePhase DEF Save
    <2> QED BY <2>5, <2>7
  <1>6. ASSUME NEW r \in Requests, NEW i \in 1..MaxRequests, DeleteTimetable(r, i)
        PROVE  TypeOK' /\ PhaseOK'
    <2>1. TypeOK'
      BY <1>6 DEF DeleteTimetable, TypeOK
    <2>2. PhaseOK'
      BY <1>6 DEF DeleteTimetable, PhaseOK, Phase
    <2> QED BY <2>1, <2>2
  <1>7. ASSUME NEW r \in Requests, GenerateGreedy(r) PROVE TypeOK' /\ PhaseOK'
    <2> DEFINE hours(c) == [s \in Staff |->
                  Cardinality({i \in DOMAIN rows \ ClassRows(c) : rows[i].staff = s})]
    <2>1. PICK c \in Classes :
             /\ cls' = [cls EXCEPT ![r] = c]
             /\ seed' = [seed EXCEPT ![r] = hours(c)]
      BY <1>7 DEF GenerateGreedy
    <2>2. hours(c) \in [Staff -> Nat]
      <3> SUFFICES ASSUME NEW s \in Staff
                   PROVE Cardinality({i \in DOMAIN rows \ ClassRows(c) : rows[i].staff = s}) \in Nat
        OBVIOUS
      <3>1. {i \in DOMAIN rows \ ClassRows(c) : rows[i].staff = s} \subseteq DOMAIN rows
        OBVIOUS
      <3> QED BY <3>1, HoursType
    <2> HIDE DEF hours
    <2>3. /\ Accept(r, "greedy")
          /\ UNCHANGED <<rows, nextId, plan, replaces, missed, blind>>
      BY <1>7 DEF GenerateGreedy
    <2>4. TypeOK'
      BY <2>1, <2>2, <2>3 DEF Accept, TypeOK
    <2>5. plan'[r] = <<>> /\ plan[r] = <<>>
      BY <2>3 DEF Accept, PhaseOK, Phase
    <2>6. PhaseOK'
      <3>1. /\ pc'[r] = "greedy" /\ cls'[r] = c /\ replaces'[r] = {} /\ nextId' = nextId
            /\ \A q \in Requests \ {r} :
                  /\ pc'[q] = pc[q] /\ plan'[q] = plan[q] /\ cls'[q] = cls[q]
                  /\ replaces'[q] = replaces[q] /\ missed'[q] = missed[q]
        BY <2>1, <2>3 DEF Accept, TypeOK, PhaseOK, Phase
      <3>2. Phase(r)'
        BY <2>5, <3>1 DEF Phase
      <3> QED BY <3>1, <3>2, OtherPhase
    <2> QED BY <2>4, <2>6
  <1>8. ASSUME NEW r \in Requests, ScheduleSession(r) PROVE TypeOK' /\ PhaseOK'
    <2> DEFINE k == Len(plan[r]) + 1
               session == Sessions[cls[r]][k]
    <2>1. cls[r] \in Classes /\ pc[r] = "greedy"
      BY <1>8 DEF ScheduleSession, PhaseOK, Phase
    <2>2. PICK n \in DOMAIN session : plan' = [plan EXCEPT ![r] = Append(@, session[n])]
      BY <1>8 DEF ScheduleSession
    <2>3. plan[r] \in Seq(Booking)
      BY DEF TypeOK
    <2>4. k \in 1..Len(Sessions[cls[r]])
      BY <1>8, <2>3 DEF ScheduleSession
    <2>5. Sessions[cls[r]] \in Seq(Seq(BookingOf(cls[r])))
      BY <2>1, SessionAssumption
    <2>6. session \in Seq(BookingOf(cls[r]))
      BY <2>4, <2>5
    <2>7. session[n] \in Booking /\ session[n].class = cls[r]
      BY <2>6 DEF BookingOf
    <2>8. /\ plan'[r] = Append(plan[r], session[n])
          /\ plan'[r] \in Seq(Booking)
          /\ \A q \in Requests \ {r} : plan'[q] = plan[q]
      BY <2>2, <2>3, <2>7 DEF TypeOK
    <2>9. TypeOK'
      BY <1>8, <2>2, <2>8 DEF ScheduleSession, TypeOK
    <2>10. \A l \in DOMAIN plan'[r] : plan'[r][l].class = cls[r]
      BY <2>1, <2>3, <2>7, <2>8 DEF PhaseOK, Phase
    <2>11. PhaseOK'
      BY <1>8, <2>1, <2>8, <2>10 DEF ScheduleSession, PhaseOK, Phase
    <2> QED BY <2>9, <2>11
  <1>9. ASSUME NEW r \in Requests, Infeasible(r) PROVE TypeOK' /\ PhaseOK'
    <2>1. TypeOK'
      BY <1>9 DEF Infeasible, Answer, TypeOK
    <2>2. PhaseOK'
      BY <1>9 DEF Infeasible, Answer, TypeOK, PhaseOK, Phase
    <2> QED BY <2>1, <2>2
  <1>10. ASSUME NEW r \in Requests, BeginReplace(r) PROVE TypeOK' /\ PhaseOK'
    <2>1. ClassRows(cls[r]) \subseteq 1..(nextId - 1)
      BY DEF ClassRows, TypeOK
    <2>2. TypeOK'
      BY <1>10, <2>1 DEF BeginReplace, TypeOK
    <2>3. /\ pc[r] = "greedy" /\ pc'[r] = "commit" /\ plan'[r] = plan[r] /\ cls'[r] = cls[r]
          /\ nextId' = nextId
          /\ \A q \in Requests \ {r} :
                /\ pc'[q] = pc[q] /\ plan'[q] = plan[q] /\ cls'[q] = cls[q]
                /\ replaces'[q] = replaces[q] /\ missed'[q] = missed[q]
      BY <1>10 DEF BeginReplace, TypeOK
    <2>4. PhaseOK'
      <3>1. Phase(r)'
        BY <2>3 DEF PhaseOK, Phase
      <3> QED BY <2>3, <3>1, OtherPhase
    <2> QED BY <2>2, <2>4
  <1>11. ASSUME NEW r \in Requests, GenerateWithSolver(r) PROVE TypeOK' /\ PhaseOK'
    <2>a. PICK c \in Classes :
             /\ cls' = [cls EXCEPT ![r] = c]
             /\ \E p \in SolverPlans(c) : plan' = [plan EXCEPT ![r] = p]
             /\ replaces' = [replaces EXCEPT ![r] = ClassRows(c)]
             /\ missed' = [missed EXCEPT ![r] = DOMAIN rows \ ClassRows(c)]
      BY <1>11 DEF GenerateWithSolver
    <2>1. PICK p \in SolverPlans(c) : plan' = [plan EXCEPT ![r] = p]
      BY <2>a
    <2>2. p \in Seq(Booking) /\ \A k \in DOMAIN p : p[k].class = c
      BY <2>a, <2>1, SolverPlanType
    <2>3. ClassRows(c) \subseteq 1..(nextId - 1)
          /\ DOMAIN rows \ ClassRows(c) \subseteq 1..(nextId - 1)
      BY DEF ClassRows, TypeOK
    <2>4. TypeOK'
      BY <1>11, <2>a, <2>1, <2>2, <2>3 DEF GenerateWithSolver, Accept, TypeOK
    <2>5. PhaseOK'
      BY <1>11, <2>a, <2>1, <2>2 DEF GenerateWithSolver, Accept, TypeOK, PhaseOK, Phase
    <2> QED BY <2>4, <2>5
  <1>12. ASSUME NEW r \in Requests, ReplaceClassTimetable(r) PROVE TypeOK' /\ PhaseOK'
    <2> DEFINE gone == replaces[r] \cap ClassRows(cls[r])
    <2>1. Write(r, gone, FreshRows(r)) /\ nextId' = nextId + Len(plan[r])
      BY <1>12 DEF ReplaceClassTimetable
    <2>2. nextId \in Nat \ {0} /\ Len(plan[r]) \in Nat
      BY FreshRowsType DEF TypeOK
    <2>3. nextId' \in Nat /\ nextId' >= nextId
      BY <2>1, <2>2
    <2>4. DOMAIN FreshRows(r) \subseteq 1..(nextId' - 1)
      BY <2>1, <2>2, FreshRowsType
    <2>5. \A q \in Requests : replaces'[q] \subseteq replaces[q]
      BY <1>12 DEF ReplaceClassTimetable
    <2>6. replaces' \in [Requests -> SUBSET (1..(nextId' - 1))]
      BY <1>12, <2>2, <2>1 DEF ReplaceClassTimetable, TypeOK
    <2>7. TypeOK'
      BY <2>1, <2>3, <2>4, <2>6, FreshRowsType, WriteType
    <2>8. replaces'[r] = {}
          /\ \A q \in Requests \ {r} : replaces'[q] = replaces[q] \/ pc[q] = "commit"
      BY <1>12 DEF ReplaceClassTimetable
    <2>9. PhaseOK'
      BY <2>1, <2>3, <2>8, WritePhase
    <2> QED BY <2>7, <2>9
  <1>13. CASE UNCHANGED vars
    <2>1. TypeOK'
      BY <1>13 DEF vars, TypeOK
    <2>2. PhaseOK'
      BY <1>13 DEF vars, PhaseOK, Phase
    <2> QED BY <2>1, <2>2
  <1> QED BY <1>1, <1>2, <1>3, <1>4, <1>5, <1>6, <1>7, <1>8, <1>9, <1>10, <1>11, <1>12, <1>13
          DEF Next, Arrive, Step

(***************************************************************************)
(* The variables always have their types: in particular the ids of live    *)
(* rows were given out by the sequence, also when an update writes a       *)
(* deleted row again, and every stored entry is a booking.                 *)
(***************************************************************************)
THEOREM TypeCorrect == Spec => []TypeOK
  <1>1. TypeInv => TypeOK
    BY DEF TypeInv
  <1> QED BY <1>1, TypeInit, TypeStep, PTL DEF Spec

-----------------------------------------------------------------------------
(* Double bookings *)

(***************************************************************************)
(* ClashOnlyWhenUnseen is not inductive: whether a write keeps it depends  *)
(* on what the request in flight is about to write.  PlansClear carries    *)
(* the outcome of the conflict check from the check to the write, and      *)
(* PlansSpread is the same for the entries of one plan among each other.   *)
(***************************************************************************)
IInv == TypeInv /\ ClashOnlyWhenUnseen /\ PlansClear /\ PlansSpread

(* An empty answer of CheckConflicts rules out every double booking. *)
LEMMA CheckIsClear ==
    ASSUME TypeOK, NEW b \in Booking, NEW S, CheckConflicts(b, S) = {}
    PROVE  \A i \in DOMAIN rows \ S : ~DoubleBooked(b, rows[i])
  <1> SUFFICES ASSUME NEW i \in DOMAIN rows \ S, DoubleBooked(b, rows[i]) PROVE FALSE
    OBVIOUS
  <1>1. rows[i] \in Booking
    BY DEF TypeOK
  <1>2. ConflictsWith(rows[i], b)
    BY <1>1, OverlapIsFound
  <1> QED BY <1>2 DEF CheckConflicts

(* A write that clashes with nothing the request has seen keeps the table good. *)
LEMMA WriteClash ==
    ASSUME TypeOK, ClashOnlyWhenUnseen, NEW r \in Requests, NEW gone, NEW new,
           Write(r, gone, new),
           \A n \in DOMAIN new : new[n] \in Booking,
           \A m, n \in DOMAIN new : m # n => ~DoubleBooked(new[m], new[n]),
           \A n \in DOMAIN new, i \in DOMAIN rows \ (gone \cup DOMAIN new) :
              DoubleBooked(new[n], rows[i]) => i \in missed[r]
    PROVE  ClashOnlyWhenUnseen'
  <1> DEFINE old == DOMAIN rows \ (gone \cup DOMAIN new)
  <1>1. DOMAIN rows' = old \cup DOMAIN new
    BY DEF Write
  <1>2. \A i \in DOMAIN new : rows'[i] = new[i] /\ blind'[i] = missed[r] \ DOMAIN new
    BY DEF Write
  <1>3. \A i \in old : rows'[i] = rows[i] /\ blind'[i] = blind[i] \ DOMAIN new
    BY DEF Write
  <1>4. \A i \in old : rows[i] \in Booking
    BY DEF TypeOK
  <1> SUFFICES ASSUME NEW i \in DOMAIN rows', NEW j \in DOMAIN rows', i # j,
                      DoubleBooked(rows'[i], rows'[j])
               PROVE  i \in blind'[j] \/ j \in blind'[i]
    BY DEF ClashOnlyWhenUnseen
  <1>5. CASE i \in old /\ j \in old
    BY <1>3, <1>5 DEF ClashOnlyWhenUnseen
  <1>6. CASE i \in DOMAIN new /\ j \in old
    BY <1>2, <1>3, <1>6
  <1>7. CASE i \in old /\ j \in DOMAIN new
    <2>1. DoubleBooked(new[j], rows[i])
      BY <1>2, <1>3, <1>4, <1>7, OverlapIsFound
    <2> QED BY <1>2, <1>7, <2>1
  <1>8. CASE i \in DOMAIN new /\ j \in DOMAIN new
    BY <1>2, <1>8
  <1> QED BY <1>1, <1>5, <1>6, <1>7, <1>8

(* What a request in flight has planned outlives a write of another one. *)
LEMMA WritePlans ==
    ASSUME TypeOK, PlansClear, PlansSpread, NEW r \in Requests, NEW gone, NEW new,
           Write(r, gone, new),
           \A q \in Requests \ {r} : /\ replaces[q] \ gone \subseteq replaces'[q]
                                     /\ pc[q] # "commit" => replaces'[q] = replaces[q]
    PROVE  PlansClear' /\ PlansSpread'
  <1>1. \A i \in DOMAIN rows' \ DOMAIN new :
           i \in DOMAIN rows \ gone /\ rows'[i] = rows[i]
    BY DEF Write
  <1>2. pc'[r] = "idle" /\ plan'[r] = <<>>
    BY DEF Write, Answer, TypeOK
  <1>3. \A q \in Requests \ {r} :
           /\ pc'[q] = pc[q] /\ plan'[q] = plan[q] /\ cls'[q] = cls[q]
           /\ pc[q] # "idle" => missed'[q] = missed[q] \cup DOMAIN new
    BY DEF Write, Answer, TypeOK
  <1>4. PlanClear(r)' /\ PlanSpread(r)'
    BY <1>2 DEF PlanClear, PlanSpread
  <1>5. ASSUME NEW q \in Requests \ {r} PROVE PlanClear(q)' /\ PlanSpread(q)'
    <2>1. PlanClear(q) /\ PlanSpread(q)
      BY DEF PlansClear, PlansSpread
    <2>2. /\ pc'[q] = pc[q] /\ plan'[q] = plan[q] /\ cls'[q] = cls[q]
          /\ pc[q] # "idle" => missed'[q] = missed[q] \cup DOMAIN new
      BY <1>3
    <2>3. PlanSpread(q)'
      BY <2>1, <2>2 DEF PlanSpread
    <2>4. ASSUME NEW i \in DOMAIN rows' \ DOMAIN new, i \in Overwrites(q)
          PROVE  i \in Overwrites(q)'
      BY <1>1, <2>2, <2>4 DEF Overwrites, ClassRows
    <2>5. ASSUME pc'[q] \notin {"idle", "merged"},
                 NEW k \in DOMAIN plan'[q], NEW i \in DOMAIN rows' \ Overwrites(q)',
                 DoubleBooked(plan'[q][k], rows'[i])
          PROVE  i \in missed'[q]
      <3>1. CASE i \in DOMAIN new
        BY <2>2, <2>5, <3>1
      <3>2. CASE i \notin DOMAIN new
        BY <1>1, <2>1, <2>2, <2>4, <2>5, <3>2 DEF PlanClear
      <3> QED BY <3>1, <3>2
    <2>6. PlanClear(q)'
      BY <2>5 DEF PlanClear
    <2> QED BY <2>3, <2>6
  <1> QED BY <1>4, <1>5 DEF PlansClear, PlansSpread

(* A step that takes no part in request q, and at most deletes rows, keeps its plan good. *)
LEMMA OtherPlan ==
    ASSUME NEW q \in Requests, PlanClear(q), PlanSpread(q),
           pc'[q] = pc[q], plan'[q] = plan[q], cls'[q] = cls[q],
           replaces'[q] = replaces[q], missed'[q] = missed[q],
           DOMAIN rows' \subseteq DOMAIN rows,
           \A i \in DOMAIN rows' : rows'[i] = rows[i]
    PROVE  PlanClear(q)' /\ PlanSpread(q)'
  <1>1. PlanSpread(q)'
    BY DEF PlanSpread
  <1>2. \A i \in DOMAIN rows' : i \in Overwrites(q) => i \in Overwrites(q)'
    BY DEF Overwrites, ClassRows
  <1>3. PlanClear(q)'
    BY <1>2 DEF PlanClear
  <1> QED BY <1>1, <1>3

(* The entries that one write inserts do not meet. *)
LEMMA FreshSpread ==
    ASSUME TypeOK, NEW r \in Requests, PlanSpread(r), pc[r] # "merged"
    PROVE  \A m, n \in DOMAIN FreshRows(r) :
              m # n => ~DoubleBooked(FreshRows(r)[m], FreshRows(r)[n])
  <1> SUFFICES ASSUME NEW m \in DOMAIN FreshRows(r), NEW n \in DOMAIN FreshRows(r), m # n
               PROVE  ~DoubleBooked(FreshRows(r)[m], FreshRows(r)[n])
    OBVIOUS
  <1>1. m \in Int /\ n \in Int /\ nextId \in Int
    <2>1. DOMAIN FreshRows(r) = nextId..(nextId + Len(plan[r]) - 1)
      BY FreshRowsType
    <2>2. nextId \in Nat \ {0}
      BY DEF TypeOK
    <2> QED BY <2>1, <2>2
  <1>2. m - nextId + 1 # n - nextId + 1
    BY <1>1
  <1>3. /\ m - nextId + 1 \in DOMAIN plan[r] /\ FreshRows(r)[m] = plan[r][m - nextId + 1]
        /\ n - nextId + 1 \in DOMAIN plan[r] /\ FreshRows(r)[n] = plan[r][n - nextId + 1]
    BY FreshRowsType
  <1>4. ~DoubleBooked(plan[r][m - nextId + 1], plan[r][n - nextId + 1])
    BY <1>2, <1>3 DEF PlanSpread
  <1> QED BY <1>3, <1>4

(* Before the write of r, its other rows are clear and nobody else's plan is touched. *)
LEMMA ClashStep == IInv /\ [Next]_vars => IInv'
  <1> SUFFICES ASSUME IInv, [Next]_vars
               PROVE  ClashOnlyWhenUnseen' /\ PlansClear' /\ PlansSpread'
    BY TypeStep DEF IInv
  <1> USE DEF IInv, TypeInv
  <1>1. ASSUME NEW r \in Requests, CreateTimetable(r)
        PROVE  ClashOnlyWhenUnseen' /\ PlansClear' /\ PlansSpread'
    <2>1. PICK b \in CreatePayloads : /\ CheckConflicts(b, {}) = {}
                                      /\ plan' = [plan EXCEPT ![r] = <<b>>]
      BY <1>1 DEF CreateTimetable
    <2>2. /\ pc' = [pc EXCEPT ![r] = "insert"]
          /\ UNCHANGED <<rows, nextId, cls, seed, replaces, missed, blind>>
      BY <1>1 DEF CreateTimetable, Accept
    <2>3. \A i \in DOMAIN rows : ~DoubleBooked(b, rows[i])
      BY <2>1, CheckIsClear, PayloadAssumption
    <2>4. plan'[r] = <<b>>
      BY <2>1 DEF TypeOK
    <2>5. PlanClear(r)' /\ PlanSpread(r)'
      BY <2>2, <2>3, <2>4 DEF PlanClear, PlanSpread
    <2>6. \A q \in Requests \ {r} : PlanClear(q)' /\ PlanSpread(q)'
      BY <2>1, <2>2, OtherPlan DEF PlansClear, PlansSpread, TypeOK
    <2>7. ClashOnlyWhenUnseen'
      BY <2>2 DEF ClashOnlyWhenUnseen
    <2> QED BY <2>5, <2>6, <2>7 DEF PlansClear, PlansSpread
  <1>2. ASSUME NEW r \in Requests, Insert(r)
        PROVE  ClashOnlyWhenUnseen' /\ PlansClear' /\ PlansSpread'
    <2>1. Write(r, {}, FreshRows(r)) /\ replaces' = replaces /\ pc[r] = "insert"
      BY <1>2 DEF Insert
    <2>2. replaces[r] = {} /\ PlanClear(r) /\ PlanSpread(r)
      BY <2>1 DEF PhaseOK, Phase, PlansClear, PlansSpread
    <2>3. \A n \in DOMAIN FreshRows(r), i \in DOMAIN rows :
             DoubleBooked(FreshRows(r)[n], rows[i]) => i \in missed[r]
      BY <2>1, <2>2, FreshRowsType DEF PlanClear, Overwrites
    <2>4. \A m, n \in DOMAIN FreshRows(r) :
             m # n => ~DoubleBooked(FreshRows(r)[m], FreshRows(r)[n])
      BY <2>1, <2>2, FreshSpread
    <2>5. ClashOnlyWhenUnseen'
      BY <2>1, <2>3, <2>4, FreshRowsType, WriteClash
    <2>6. PlansClear' /\ PlansSpread'
      BY <2>1, WritePlans
    <2> QED BY <2>5, <2>6
  <1>3. ASSUME NEW r \in Requests, UpdateTimetable(r)
        PROVE  ClashOnlyWhenUnseen' /\ PlansClear' /\ PlansSpread'
    <2>1. PICK pair, i : /\ plan' = [plan EXCEPT ![r] = pair]
                         /\ replaces' = [replaces EXCEPT ![r] = {i}]
      BY <1>3 DEF UpdateTimetable
    <2>2. /\ pc' = [pc EXCEPT ![r] = "merged"]
          /\ UNCHANGED <<rows, nextId, cls, seed, missed, blind>>
      BY <1>3 DEF UpdateTimetable, Accept
    <2>3. pc'[r] = "merged"
      BY <2>2 DEF TypeOK
    <2>4. PlanClear(r)' /\ PlanSpread(r)'
      BY <2>3 DEF PlanClear, PlanSpread
    <2>5. \A q \in Requests \ {r} : PlanClear(q)' /\ PlanSpread(q)'
      BY <2>1, <2>2, OtherPlan DEF PlansClear, PlansSpread, TypeOK
    <2>6. ClashOnlyWhenUnseen'
      BY <2>2 DEF ClashOnlyWhenUnseen
    <2> QED BY <2>4, <2>5, <2>6 DEF PlansClear, PlansSpread
  <1>4. ASSUME NEW r \in Requests, ValidateUpdate(r)
        PROVE  ClashOnlyWhenUnseen' /\ PlansClear' /\ PlansSpread'
    <2>1. /\ pc[r] = "merged"
          /\ UNCHANGED <<rows, blind>>
          /\ \A q \in Requests \ {r} :
                /\ pc'[q] = pc[q] /\ plan'[q] = plan[q] /\ cls'[q] = cls[q]
                /\ replaces'[q] = replaces[q] /\ missed'[q] = missed[q]
      BY <1>4 DEF ValidateUpdate, Answer, TypeOK
    <2>2. \A q \in Requests \ {r} : PlanClear(q)' /\ PlanSpread(q)'
      BY <2>1, OtherPlan DEF PlansClear, PlansSpread
    <2>3. ASSUME CheckConflicts(plan[r][1], replaces[r]) = {}
          PROVE  PlanClear(r)' /\ PlanSpread(r)'
      <3>1. /\ pc'[r] = "save" /\ plan'[r] = Tail(plan[r]) /\ replaces'[r] = replaces[r]
            /\ plan[r][1] # plan[r][2] => missed'[r] = DOMAIN rows \ replaces[r]
        BY <1>4, <2>3 DEF ValidateUpdate, TypeOK
      <3>2. plan[r] \in Seq(Booking) /\ Len(plan[r]) = 2
        BY <2>1 DEF TypeOK, PhaseOK, Phase
      <3>3. plan[r][1] \in Booking /\ DOMAIN plan'[r] = {1} /\ plan'[r][1] = plan[r][2]
        BY <3>1, <3>2, TailOfPair
      <3>4. \A i \in DOMAIN rows \ replaces[r] : ~DoubleBooked(plan[r][1], rows[i])
        BY <2>3, <3>3, CheckIsClear
      <3>5. \A i \in DOMAIN rows \ replaces[r] :
               DoubleBooked(plan[r][2], rows[i]) => i \in missed'[r]
        BY <3>1, <3>4
      <3> QED BY <2>1, <3>1, <3>3, <3>5 DEF PlanClear, PlanSpread, Overwrites
    <2>4. ASSUME CheckConflicts(plan[r][1], replaces[r]) # {}
          PROVE  PlanClear(r)' /\ PlanSpread(r)'
      <3>1. pc'[r] = "idle" /\ plan'[r] = <<>>
        BY <1>4, <2>4 DEF ValidateUpdate, Answer, TypeOK
      <3> QED BY <3>1 DEF PlanClear, PlanSpread
    <2>5. ClashOnlyWhenUnseen'
      BY <2>1 DEF ClashOnlyWhenUnseen
    <2> QED BY <2>2, <2>3, <2>4, <2>5 DEF PlansClear, PlansSpread
  <1>5. ASSUME NEW r \in Requests, Save(r)
        PROVE  ClashOnlyWhenUnseen' /\ PlansClear' /\ PlansSpread'
    <2> DEFINE new == [i \in replaces[r] |-> plan[r][1]]
    <2>1. Write(r, replaces[r], new) /\ pc[r] = "save"
      BY <1>5 DEF Save
    <2>2. plan[r] \in Seq(Booking) /\ Len(plan[r]) = 1 /\ \E i : replaces[r] = {i}
      BY <2>1 DEF TypeOK, PhaseOK, Phase
    <2>3. plan[r][1] \in Booking /\ 1 \in DOMAIN plan[r]
      BY <2>2
    <2>4. \A i \in DOMAIN rows \ replaces[r] :
             DoubleBooked(plan[r][1], rows[i]) => i \in missed[r]
      BY <2>1, <2>3 DEF PlansClear, PlanClear, Overwrites
    <2>5. ClashOnlyWhenUnseen'
      BY <2>1, <2>2, <2>3, <2>4, WriteClash
    <2>6. \A q \in Requests \ {r} : replaces'[q] = replaces[q]
      BY <1>5 DEF Save, TypeOK
    <2>7. PlansClear' /\ PlansSpread'
      BY <2>1, <2>6, WritePlans
    <2> QED BY <2>5, <2>7
  <1>6. ASSUME NEW r \in Requests, NEW i \in 1..MaxRequests, DeleteTimetable(r, i)
        PROVE  ClashOnlyWhenUnseen' /\ PlansClear' /\ PlansSpread'
    <2>1. /\ DOMAIN rows' \subseteq DOMAIN rows
          /\ \A j \in DOMAIN rows' : rows'[j] = rows[j] /\ blind'[j] = blind[j]
          /\ UNCHANGED <<pc, plan, cls, replaces, missed>>
      BY <1>6 DEF DeleteTimetable
    <2>2. \A q \in Requests : PlanClear(q)' /\ PlanSpread(q)'
      BY <2>1, OtherPlan DEF PlansClear, PlansSpread
    <2>3. ClashOnlyWhenUnseen'
      BY <2>1 DEF ClashOnlyWhenUnseen
    <2> QED BY <2>2, <2>3 DEF PlansClear, PlansSpread
  <1>7. ASSUME NEW r \in Requests, GenerateGreedy(r)
        PROVE  ClashOnlyWhenUnseen' /\ PlansClear' /\ PlansSpread'
    <2>1. /\ pc[r] = "idle" /\ plan'[r] = plan[r] /\ pc' = [pc EXCEPT ![r] = "greedy"]
          /\ UNCHANGED <<rows, plan, replaces, missed, blind>>
          /\ \A q \in Requests \ {r} : cls'[q] = cls[q]
      BY <1>7 DEF GenerateGreedy, Accept, TypeOK
    <2>2. plan'[r] = <<>>
      BY <2>1 DEF PhaseOK, Phase
    <2>3. PlanClear(r)' /\ PlanSpread(r)'
      BY <2>2 DEF PlanClear, PlanSpread
    <2>4. \A q \in Requests \ {r} : PlanClear(q)' /\ PlanSpread(q)'
      BY <2>1, OtherPlan DEF PlansClear, PlansSpread, TypeOK
    <2>5. ClashOnlyWhenUnseen'
      BY <2>1 DEF ClashOnlyWhenUnseen
    <2> QED BY <2>3, <2>4, <2>5 DEF PlansClear, PlansSpread
  <1>8. ASSUME NEW r \in Requests, ScheduleSession(r)
        PROVE  ClashOnlyWhenUnseen' /\ PlansClear' /\ PlansSpread'
    <2>1. pc[r] = "greedy" /\ UNCHANGED <<rows, pc, cls, replaces, missed, blind>>
      BY <1>8 DEF ScheduleSession
    <2>2. PICK b : /\ Fits(r, b)
                   /\ plan' = [plan EXCEPT ![r] = Append(@, b)]
      BY <1>8 DEF ScheduleSession
    <2>3. plan'[r] = Append(plan[r], b) /\ \A q \in Requests \ {r} : plan'[q] = plan[q]
      BY <2>2 DEF TypeOK
    <2>4. plan[r] \in Seq(Booking) /\ plan'[r] \in Seq(Booking)
      BY TypeStep DEF TypeOK
    <2> DEFINE n == Len(plan[r])
    <2>5. /\ n \in Nat /\ DOMAIN plan[r] = 1..n /\ DOMAIN plan'[r] = 1..(n + 1)
          /\ plan'[r][n + 1] = b
          /\ \A k \in 1..n : plan'[r][k] = plan[r][k] /\ plan[r][k] \in Booking
      BY <2>3, <2>4
    <2>6. b \in Booking
      BY <2>4, <2>5
    <2>7. \A i \in DOMAIN rows \ ClassRows(cls[r]) : ~DoubleBooked(b, rows[i])
      BY <2>2, <2>6, CheckIsClear DEF Fits
    <2>8. \A k \in 1..n : ~DoubleBooked(plan[r][k], b) /\ ~DoubleBooked(b, plan[r][k])
      BY <2>2, <2>5, <2>6, OverlapIsFound DEF Fits, DoubleBooked
    <2>9. PlanClear(r) /\ PlanSpread(r)
      BY DEF PlansClear, PlansSpread
    <2>10. ASSUME NEW k \in 1..(n + 1), NEW i \in DOMAIN rows \ ClassRows(cls[r]),
                  DoubleBooked(plan'[r][k], rows[i])
           PROVE  i \in missed[r]
      <3>1. CASE k = n + 1
        BY <2>5, <2>7, <2>10, <3>1
      <3>2. CASE k \in 1..n
        BY <2>1, <2>5, <2>9, <2>10, <3>2 DEF PlanClear, Overwrites
      <3> QED BY <2>5, <3>1, <3>2
    <2>11. PlanClear(r)'
      BY <2>1, <2>5, <2>10 DEF PlanClear, Overwrites, ClassRows
    <2>12. PlanSpread(r)'
      <3> SUFFICES ASSUME NEW k \in 1..(n + 1), NEW l \in 1..(n + 1), k # l
                   PROVE  ~DoubleBooked(plan'[r][k], plan'[r][l])
        BY <2>5 DEF PlanSpread
      <3>1. CASE k = n + 1 /\ l \in 1..n
        BY <2>5, <2>8, <3>1
      <3>2. CASE k \in 1..n /\ l = n + 1
        BY <2>5, <2>8, <3>2
      <3>3. CASE k \in 1..n /\ l \in 1..n
        BY <2>1, <2>5, <2>9, <3>3 DEF PlanSpread
      <3> QED BY <2>5, <3>1, <3>2, <3>3
    <2>13. \A q \in Requests \ {r} : PlanClear(q)' /\ PlanSpread(q)'
      BY <2>1, <2>3, OtherPlan DEF PlansClear, PlansSpread
    <2>14. ClashOnlyWhenUnseen'
      BY <2>1 DEF ClashOnlyWhenUnseen
    <2> QED BY <2>11, <2>12, <2>13, <2>14 DEF PlansClear, PlansSpread
  <1>9. ASSUME NEW r \in Requests, Infeasible(r)
        PROVE  ClashOnlyWhenUnseen' /\ PlansClear' /\ PlansSpread'
    <2>1. /\ UNCHANGED <<rows, replaces, blind>>
          /\ \A q \in Requests \ {r} :
                /\ pc'[q] = pc[q] /\ plan'[q] = plan[q] /\ cls'[q] = cls[q]
                /\ missed'[q] = missed[q]
          /\ pc'[r] = "idle" /\ plan'[r] = <<>>
      BY <1>9 DEF Infeasible, Answer, TypeOK
    <2>2. PlanClear(r)' /\ PlanSpread(r)'
      BY <2>1 DEF PlanClear, PlanSpread
    <2>3. \A q \in Requests \ {r} : PlanClear(q)' /\ PlanSpread(q)'
      BY <2>1, OtherPlan DEF PlansClear, PlansSpread
    <2>4. ClashOnlyWhenUnseen'
      BY <2>1 DEF ClashOnlyWhenUnseen
    <2> QED BY <2>2, <2>3, <2>4 DEF PlansClear, PlansSpread
  <1>10. ASSUME NEW r \in Requests, BeginReplace(r)
         PROVE  ClashOnlyWhenUnseen' /\ PlansClear' /\ PlansSpread'
    <2>1. /\ UNCHANGED <<rows, plan, cls, missed, blind>>
          /\ pc[r] = "greedy" /\ pc'[r] = "commit" /\ replaces'[r] = ClassRows(cls[r])
          /\ \A q \in Requests \ {r} : pc'[q] = pc[q] /\ replaces'[q] = replaces[q]
      BY <1>10 DEF BeginReplace, TypeOK
    <2>2. Overwrites(r)' = Overwrites(r)
      BY <2>1 DEF Overwrites, ClassRows
    <2>3. PlanClear(r)' /\ PlanSpread(r)'
      BY <2>1, <2>2 DEF PlansClear, PlansSpread, PlanClear, PlanSpread
    <2>4. \A q \in Requests \ {r} : PlanClear(q)' /\ PlanSpread(q)'
      BY <2>1, OtherPlan DEF PlansClear, PlansSpread
    <2>5. ClashOnlyWhenUnseen'
      BY <2>1 DEF ClashOnlyWhenUnseen
    <2> QED BY <2>3, <2>4, <2>5 DEF PlansClear, PlansSpread
  <1>11. ASSUME NEW r \in Requests, GenerateWithSolver(r)
         PROVE  ClashOnlyWhenUnseen' /\ PlansClear' /\ PlansSpread'
    <2>a. PICK c \in Classes :
             /\ cls' = [cls EXCEPT ![r] = c]
             /\ \E p \in SolverPlans(c) : plan' = [plan EXCEPT ![r] = p]
             /\ replaces' = [replaces EXCEPT ![r] = ClassRows(c)]
             /\ missed' = [missed EXCEPT ![r] = DOMAIN rows \ ClassRows(c)]
      BY <1>11 DEF GenerateWithSolver
    <2>1. PICK p \in SolverPlans(c) : plan' = [plan EXCEPT ![r] = p]
      BY <2>a
    <2>2. pc' = [pc EXCEPT ![r] = "commit"] /\ UNCHANGED <<rows, blind>>
      BY <1>11 DEF GenerateWithSolver, Accept
    <2>3. /\ pc'[r] = "commit" /\ cls'[r] = c /\ plan'[r] = p
          /\ replaces'[r] = ClassRows(c) /\ missed'[r] = DOMAIN rows \ ClassRows(c)
          /\ \A q \in Requests \ {r} :
                /\ pc'[q] = pc[q] /\ plan'[q] = plan[q] /\ cls'[q] = cls[q]
                /\ replaces'[q] = replaces[q] /\ missed'[q] = missed[q]
      BY <2>a, <2>1, <2>2 DEF TypeOK
    <2>4. PlanClear(r)'
      BY <2>2, <2>3 DEF PlanClear, Overwrites, ClassRows
    <2>5. PlanSpread(r)'
      BY <2>a, <2>1, <2>3, SolverPlanType DEF PlanSpread
    <2>6. \A q \in Requests \ {r} : PlanClear(q)' /\ PlanSpread(q)'
      BY <2>2, <2>3, OtherPlan DEF PlansClear, PlansSpread
    <2>7. ClashOnlyWhenUnseen'
      BY <2>2 DEF ClashOnlyWhenUnseen
    <2> QED BY <2>4, <2>5, <2>6, <2>7 DEF PlansClear, PlansSpread
  <1>12. ASSUME NEW r \in Requests, ReplaceClassTimetable(r)
         PROVE  ClashOnlyWhenUnseen' /\ PlansClear' /\ PlansSpread'
    <2> DEFINE gone == replaces[r] \cap ClassRows(cls[r])
    <2>1. /\ Write(r, gone, FreshRows(r)) /\ pc[r] = "commit"
          /\ \A q \in Requests \ {r} :
                /\ replaces[q] \ gone \subseteq replaces'[q]
                /\ pc[q] # "commit" => replaces'[q] = replaces[q]
      BY <1>12 DEF ReplaceClassTimetable
    <2>2. PlanClear(r) /\ PlanSpread(r) /\ Overwrites(r) = gone
      BY <2>1 DEF PlansClear, PlansSpread, Overwrites
    <2>3. \A n \in DOMAIN FreshRows(r), i \in DOMAIN rows \ gone :
             DoubleBooked(FreshRows(r)[n], rows[i]) => i \in missed[r]
      BY <2>1, <2>2, FreshRowsType DEF PlanClear
    <2>4. \A m, n \in DOMAIN FreshRows(r) :
             m # n => ~DoubleBooked(FreshRows(r)[m], FreshRows(r)[n])
      BY <2>1, <2>2, FreshSpread
    <2>5. ClashOnlyWhenUnseen'
      BY <2>1, <2>3, <2>4, FreshRowsType, WriteClash
    <2>6. PlansClear' /\ PlansSpread'
      BY <2>1, WritePlans
    <2> QED BY <2>5, <2>6
  <1>13. CASE UNCHANGED vars
    <2>1. \A q \in Requests : PlanClear(q)' /\ PlanSpread(q)'
      BY <1>13, OtherPlan DEF vars, PlansClear, PlansSpread
    <2>2. ClashOnlyWhenUnseen'
      BY <1>13 DEF vars, ClashOnlyWhenUnseen
    <2> QED BY <2>1, <2>2 DEF PlansClear, PlansSpread
  <1> QED BY <1>1, <1>2, <1>3, <1>4, <1>5, <1>6, <1>7, <1>8, <1>9, <1>10, <1>11, <1>12, <1>13
          DEF Next, Arrive, Step

LEMMA ClashInit == Init => IInv
  <1> SUFFICES ASSUME Init PROVE IInv
    OBVIOUS
  <1>1. TypeInv
    BY TypeInit
  <1>2. DOMAIN rows = {}
    BY DEF Init
  <1>3. \A r \in Requests : plan[r] = <<>>
    BY DEF Init
  <1> QED BY <1>1, <1>2, <1>3
          DEF IInv, ClashOnlyWhenUnseen, PlansClear, PlanClear, PlansSpread, PlanSpread

(***************************************************************************)
(* Whatever the number of requests in flight, the entries that clients     *)
(* send and the timetables that the solver answers: two live rows clash    *)
(* only if the request that wrote the later one had missed the other.      *)
(***************************************************************************)
THEOREM ClashesAreRaces == Spec => []ClashOnlyWhenUnseen
  <1>1. IInv => ClashOnlyWhenUnseen
    BY DEF IInv
  <1> QED BY <1>1, ClashInit, ClashStep, PTL DEF Spec

(***************************************************************************)
(* What a request is about to write, a create, an update or a whole plan,  *)
(* is clear of every entry but those written behind its back.              *)
(***************************************************************************)
THEOREM WritesAreChecked == Spec => []PlansClear
  <1>1. IInv => PlansClear
    BY DEF IInv
  <1> QED BY <1>1, ClashInit, ClashStep, PTL DEF Spec

(***************************************************************************)
(* The sessions of one plan never clash with each other, however the       *)
(* catalogue changes while the greedy engine places them.                  *)
(***************************************************************************)
THEOREM PlansNeverClash == Spec => []PlansSpread
  <1>1. IInv => PlansSpread
    BY DEF IInv
  <1> QED BY <1>1, ClashInit, ClashStep, PTL DEF Spec

-----------------------------------------------------------------------------
(* Generations *)

(* The rows of other classes in which s teaches. *)
ElsewhereRows(r, s) == {i \in DOMAIN rows \ ClassRows(cls[r]) : rows[i].staff = s}

(***************************************************************************)
(* What HoursKept rests on while nobody has written since r began: the     *)
(* rows of other classes take no more hours of a teacher than r has read,  *)
(* and those and the planned sessions are within the limit.                *)
(***************************************************************************)
HoursCounted(r) ==
    /\ pc[r] = "idle" => \A s \in Staff : seed[r][s] = 0
    /\ pc[r] \in {"greedy", "commit"} /\ missed[r] = {} =>
          /\ \A s \in Staff : Cardinality(ElsewhereRows(r, s)) <= seed[r][s]
          /\ \A k \in DOMAIN plan[r] :
                LET s == plan[r][k].staff
                IN  seed[r][s] + PlannedHours(r, s) <= HourLimit(s)

HoursInv == \A r \in Requests : HoursCounted(r)


(* A step of another request, seen from request q in flight. *)
LEMMA OtherSteps ==
    ASSUME TypeInv, NEW q \in Requests, NEW r \in Requests \ {q}, Arrive(r) \/ Step(r)
    PROVE  /\ pc'[q] = pc[q] /\ plan'[q] = plan[q] /\ cls'[q] = cls[q] /\ seed'[q] = seed[q]
           /\ \E new :
                 /\ pc[q] # "idle" => missed'[q] = missed[q] \cup new
                 /\ \A i \in DOMAIN rows' \ new :
                       i \in DOMAIN rows /\ rows'[i] = rows[i]
                       /\ (i \in replaces[q] => i \in replaces'[q])
  <1> USE DEF TypeInv
  <1> DEFINE Seen == /\ pc'[q] = pc[q] /\ plan'[q] = plan[q] /\ cls'[q] = cls[q]
                     /\ seed'[q] = seed[q]
             Table(new) == /\ pc[q] # "idle" => missed'[q] = missed[q] \cup new
                           /\ \A i \in DOMAIN rows' \ new :
                                 i \in DOMAIN rows /\ rows'[i] = rows[i]
                                 /\ (i \in replaces[q] => i \in replaces'[q])
  <1>1. ASSUME \/ CreateTimetable(r) \/ UpdateTimetable(r) \/ GenerateGreedy(r)
               \/ GenerateWithSolver(r) \/ \E i \in 1..MaxRequests : DeleteTimetable(r, i)
        PROVE  Seen /\ Table({})
    <2>1. CASE CreateTimetable(r)
      BY <2>1 DEF CreateTimetable, Accept, TypeOK
    <2>2. CASE UpdateTimetable(r)
      BY <2>2 DEF UpdateTimetable, Accept, TypeOK
    <2>3. CASE GenerateGreedy(r)
      BY <2>3 DEF GenerateGreedy, Accept, TypeOK
    <2>4. CASE GenerateWithSolver(r)
      BY <2>4 DEF GenerateWithSolver, Accept, TypeOK
    <2>5. ASSUME NEW i \in 1..MaxRequests, DeleteTimetable(r, i)
          PROVE  Seen /\ Table({})
      BY <2>5 DEF DeleteTimetable, TypeOK
    <2> QED BY <1>1, <2>1, <2>2, <2>3, <2>4, <2>5
  <1>2. ASSUME ValidateUpdate(r) \/ ScheduleSession(r) \/ Infeasible(r) \/ BeginReplace(r)
        PROVE  Seen /\ Table({})
    <2>1. CASE ValidateUpdate(r)
      BY <2>1 DEF ValidateUpdate, Answer, TypeOK
    <2>2. CASE ScheduleSession(r)
      BY <2>2 DEF ScheduleSession, TypeOK
    <2>3. CASE Infeasible(r)
      BY <2>3 DEF Infeasible, Answer, TypeOK
    <2>4. CASE BeginReplace(r)
      BY <2>4 DEF BeginReplace, TypeOK
    <2> QED BY <1>2, <2>1, <2>2, <2>3, <2>4
  <1>3. ASSUME NEW gone, NEW new, Write(r, gone, new),
               \A i \in replaces[q] \ gone : i \in replaces'[q]
        PROVE  Seen /\ Table(DOMAIN new)
    <2>1. Seen /\ (pc[q] # "idle" => missed'[q] = missed[q] \cup DOMAIN new)
      BY <1>3 DEF Write, Answer, TypeOK
    <2>2. ASSUME NEW i \in DOMAIN rows' \ DOMAIN new
          PROVE  i \in DOMAIN rows \ gone /\ rows'[i] = rows[i]
      BY <1>3, <2>2 DEF Write
    <2> QED BY <1>3, <2>1, <2>2
  <1>4. ASSUME Insert(r) \/ Save(r) \/ ReplaceClassTimetable(r)
        PROVE  Seen /\ \E new : Table(new)
    <2>1. CASE Insert(r)
      <3>1. Write(r, {}, FreshRows(r)) /\ replaces' = replaces
        BY <2>1 DEF Insert
      <3> QED BY <1>3, <3>1
    <2>2. CASE Save(r)
      <3>1. /\ Write(r, replaces[r], [i \in replaces[r] |-> plan[r][1]])
            /\ replaces'[q] = replaces[q]
        BY <2>2 DEF Save, TypeOK
      <3> QED BY <1>3, <3>1
    <2>3. CASE ReplaceClassTimetable(r)
      <3> DEFINE gone == replaces[r] \cap ClassRows(cls[r])
      <3>1. /\ Write(r, gone, FreshRows(r))
            /\ \A i \in replaces[q] \ gone : i \in replaces'[q]
        BY <2>3 DEF ReplaceClassTimetable
      <3> QED BY <1>3, <3>1
    <2> QED BY <1>4, <2>1, <2>2, <2>3
  <1> QED BY <1>1, <1>2, <1>4 DEF Arrive, Step

(* The request whose pending replacement is written. *)
LEMMA CommitStep ==
    ASSUME TypeInv, NEW r \in Requests, pc[r] = "commit", [Next]_vars
    PROVE  \/ ReplaceClassTimetable(r)
           \/ UNCHANGED vars
           \/ \E q \in Requests \ {r} : Arrive(q) \/ Step(q)
  BY DEF Next, Arrive, Step, CreateTimetable, UpdateTimetable, GenerateGreedy,
         GenerateWithSolver, DeleteTimetable, Accept, Insert, ValidateUpdate, Save,
         ScheduleSession, Infeasible, BeginReplace

LEMMA AccountedStep == TypeInv /\ ClassRowsAccounted /\ [Next]_vars => ClassRowsAccounted'
  <1> SUFFICES ASSUME TypeInv, ClassRowsAccounted, [Next]_vars,
                      NEW q \in Requests, pc'[q] = "commit"
               PROVE  ClassRows(cls[q])' \subseteq replaces'[q] \cup missed'[q]
    BY DEF ClassRowsAccounted
  <1>1. ASSUME NEW r \in Requests \ {q}, Arrive(r) \/ Step(r)
        PROVE  ClassRows(cls[q])' \subseteq replaces'[q] \cup missed'[q]
    <2>1. pc[q] = "commit" /\ cls'[q] = cls[q]
      BY <1>1, OtherSteps
    <2>2. PICK new : /\ missed'[q] = missed[q] \cup new
                     /\ \A i \in DOMAIN rows' \ new :
                           i \in DOMAIN rows /\ rows'[i] = rows[i]
                           /\ (i \in replaces[q] => i \in replaces'[q])
      BY <1>1, <2>1, OtherSteps
    <2>3. ClassRows(cls[q]) \subseteq replaces[q] \cup missed[q]
      BY <2>1 DEF ClassRowsAccounted
    <2> QED BY <2>1, <2>2, <2>3 DEF ClassRows
  <1>2. CASE BeginReplace(q)
    <2>1. UNCHANGED <<rows, cls>> /\ replaces'[q] = ClassRows(cls[q])
      BY <1>2 DEF BeginReplace, TypeInv, TypeOK
    <2> QED BY <2>1 DEF ClassRows
  <1>3. CASE GenerateWithSolver(q)
    <2>1. PICK c \in Classes : cls' = [cls EXCEPT ![q] = c]
                               /\ replaces' = [replaces EXCEPT ![q] = ClassRows(c)]
      BY <1>3 DEF GenerateWithSolver
    <2>2. rows' = rows /\ cls'[q] = c /\ replaces'[q] = ClassRows(c)
      BY <1>3, <2>1 DEF GenerateWithSolver, TypeInv, TypeOK
    <2> QED BY <2>2 DEF ClassRows
  <1>4. CASE UNCHANGED vars
    BY <1>4 DEF vars, ClassRowsAccounted, ClassRows
  <1>5. ASSUME \/ CreateTimetable(q) \/ UpdateTimetable(q) \/ GenerateGreedy(q)
               \/ Insert(q) \/ ValidateUpdate(q) \/ Save(q) \/ ScheduleSession(q)
               \/ Infeasible(q) \/ ReplaceClassTimetable(q)
               \/ \E i \in 1..MaxRequests : DeleteTimetable(q, i)
        PROVE  FALSE
    BY <1>5 DEF CreateTimetable, UpdateTimetable, GenerateGreedy, Accept, Insert, ValidateUpdate,
                Save, ScheduleSession, Infeasible, ReplaceClassTimetable, DeleteTimetable,
                Write, Answer, TypeInv, TypeOK
  <1> QED BY <1>1, <1>2, <1>3, <1>4, <1>5 DEF Next, Arrive, Step

LEMMA AccountedInit == Init => ClassRowsAccounted
  BY DEF Init, ClassRowsAccounted

(***************************************************************************)
(* A class's rows that a pending replacement will not remove were all      *)
(* written after the generation read the table, whatever other writes and  *)
(* replacements come in between.                                           *)
(***************************************************************************)
THEOREM SlotsAreAccounted == Spec => []ClassRowsAccounted
  <1>1. TypeInv /\ ClassRowsAccounted /\ [Next]_vars => (TypeInv /\ ClassRowsAccounted)'
    BY TypeStep, AccountedStep
  <1> QED BY <1>1, TypeInit, AccountedInit, PTL DEF Spec

LEMMA ReplacedRows ==
    ASSUME TypeInv, ClassRowsAccounted, NEW r \in Requests, ReplaceClassTimetable(r),
           NEW i \in DOMAIN rows', rows'[i].class = cls[r]
    PROVE  i >= nextId \/ i \in missed[r]
  <1> DEFINE gone == replaces[r] \cap ClassRows(cls[r])
  <1>1. Write(r, gone, FreshRows(r)) /\ pc[r] = "commit"
    BY DEF ReplaceClassTimetable
  <1>2. CASE i \in DOMAIN FreshRows(r)
    <2>1. i \in nextId..(nextId + Len(plan[r]) - 1)
      BY <1>2, FreshRowsType DEF TypeInv
    <2>2. nextId \in Nat /\ Len(plan[r]) \in Nat
      BY FreshRowsType DEF TypeInv, TypeOK
    <2> QED BY <2>1, <2>2
  <1>3. CASE i \notin DOMAIN FreshRows(r)
    <2> DEFINE new == FreshRows(r)
    <2>1. TypeOK /\ Write(r, gone, new) /\ i \notin DOMAIN new
      BY <1>1, <1>3 DEF TypeInv
    <2> HIDE DEF gone, new
    <2>2. i \in DOMAIN rows \ gone /\ rows'[i] = rows[i]
      BY <2>1 DEF Write
    <2> QED BY <1>1, <2>2 DEF ClassRowsAccounted, ClassRows, gone
  <1> QED BY <1>2, <1>3

(***************************************************************************)
(* After a generation the class has exactly the generated entries, and     *)
(* besides them only rows that were written while it ran: no slot of the   *)
(* timetable that it read survives, for any number of requests.            *)
(***************************************************************************)
THEOREM ReplacementIsComplete == Spec => ReplaceLeavesOnlyMissed
  <1>1. TypeInv /\ ClassRowsAccounted /\ [Next]_vars => (TypeInv /\ ClassRowsAccounted)'
    BY TypeStep, AccountedStep
  <1>2. ASSUME TypeInv, ClassRowsAccounted, [Next]_vars, ~ UNCHANGED vars,
               NEW r \in Requests, pc[r] = "commit", pc'[r] = "idle",
               NEW i \in DOMAIN rows', rows'[i].class = cls[r]
        PROVE  i >= nextId \/ i \in missed[r]
    <2>1. ReplaceClassTimetable(r)
      BY <1>2, CommitStep, OtherSteps
    <2> QED BY <1>2, <2>1, ReplacedRows
  <1>3. TypeInv /\ ClassRowsAccounted /\ [Next]_vars =>
           [\A r \in Requests : pc[r] = "commit" /\ pc'[r] = "idle" =>
              \A i \in DOMAIN rows' : rows'[i].class = cls[r] =>
                  i >= nextId \/ i \in missed[r]]_vars
    BY <1>2
  <1> QED BY <1>1, <1>3, TypeInit, AccountedInit, PTL DEF Spec, ReplaceLeavesOnlyMissed

(* The sessions of a teacher in a plan are finitely many, and every        *)
(* session is held by a teacher.                                           *)
LEMMA PlannedHoursType ==
    ASSUME TypeOK, NEW r \in Requests, NEW s
    PROVE  /\ IsFiniteSet({k \in DOMAIN plan[r] : plan[r][k].staff = s})
           /\ PlannedHours(r, s) \in Nat
  <1>1. plan[r] \in Seq(Booking)
    BY DEF TypeOK
  <1>2. Len(plan[r]) \in Nat /\ DOMAIN plan[r] = 1..Len(plan[r])
    BY <1>1
  <1>3. IsFiniteSet(DOMAIN plan[r])
    BY <1>2, FS_Interval
  <1>4. IsFiniteSet({k \in DOMAIN plan[r] : plan[r][k].staff = s})
    BY <1>3, FS_Subset
  <1> QED BY <1>4, FS_CardinalityType DEF PlannedHours

LEMMA StaffOfPlan ==
    ASSUME TypeOK, NEW r \in Requests, NEW k \in DOMAIN plan[r]
    PROVE  plan[r][k].staff \in Staff
  <1>1. plan[r] \in Seq(Booking)
    BY DEF TypeOK
  <1>2. plan[r][k] \in Booking
    BY <1>1
  <1> QED BY <1>2 DEF Booking

(* Rows that were there before take no more hours than before. *)
LEMMA FewerRows ==
    ASSUME TypeOK, NEW q \in Requests, NEW s, cls'[q] = cls[q],
           \A i \in DOMAIN rows' : i \in DOMAIN rows /\ rows'[i] = rows[i]
    PROVE  Cardinality(ElsewhereRows(q, s)') <= Cardinality(ElsewhereRows(q, s))
  <1>1. ElsewhereRows(q, s)' \subseteq ElsewhereRows(q, s)
    BY DEF ElsewhereRows, ClassRows
  <1>2. ElsewhereRows(q, s) \subseteq 1..(nextId - 1) /\ nextId - 1 \in Int
    BY DEF ElsewhereRows, TypeOK
  <1>3. IsFiniteSet(ElsewhereRows(q, s))
    BY <1>2, FS_Interval, FS_Subset
  <1> QED BY <1>1, <1>3, FS_Subset

(* Nothing that q has counted is disturbed by rows that leave the table. *)
LEMMA HoursFrame ==
    ASSUME TypeOK, NEW q \in Requests, HoursCounted(q),
           pc'[q] = pc[q], plan'[q] = plan[q], cls'[q] = cls[q], seed'[q] = seed[q],
           pc[q] \in {"greedy", "commit"} /\ missed'[q] = {} =>
              /\ missed[q] = {}
              /\ \A i \in DOMAIN rows' : i \in DOMAIN rows /\ rows'[i] = rows[i]
    PROVE  HoursCounted(q)'
  <1>1. CASE pc[q] \in {"greedy", "commit"} /\ missed'[q] = {}
    <2>1. missed[q] = {}
      BY <1>1
    <2>2. ASSUME NEW s \in Staff
          PROVE  Cardinality(ElsewhereRows(q, s)') <= seed[q][s]
      <3> DEFINE before == ElsewhereRows(q, s)
      <3>1. Cardinality(ElsewhereRows(q, s)') <= Cardinality(before)
        BY <1>1, FewerRows
      <3>2. Cardinality(before) <= seed[q][s]
        BY <1>1, <2>1 DEF HoursCounted
      <3>3. Cardinality(before) \in Nat
        <4>1. before \subseteq DOMAIN rows
          BY DEF ElsewhereRows
        <4> QED BY <4>1, HoursType
      <3>4. Cardinality(ElsewhereRows(q, s)') \in Nat
        <4>1. ElsewhereRows(q, s)' \subseteq DOMAIN rows
          BY <1>1 DEF ElsewhereRows
        <4> QED BY <4>1, HoursType
      <3>5. seed[q][s] \in Nat
        BY DEF TypeOK
      <3> HIDE DEF before
      <3> QED BY <3>1, <3>2, <3>3, <3>4, <3>5
    <2>3. \A s : PlannedHours(q, s)' = PlannedHours(q, s)
      BY DEF PlannedHours
    <2>4. \A k \in DOMAIN plan[q] :
             LET s == plan[q][k].staff
             IN  seed[q][s] + PlannedHours(q, s) <= HourLimit(s)
      BY <1>1, <2>1 DEF HoursCounted
    <2>5. pc'[q] # "idle"
      BY <1>1
    <2> QED BY <2>2, <2>3, <2>4, <2>5 DEF HoursCounted, HourLimit
  <1>2. CASE ~(pc[q] \in {"greedy", "commit"} /\ missed'[q] = {})
    BY <1>2 DEF HoursCounted
  <1> QED BY <1>1, <1>2

(* One more session of a teacher is one more planned hour of his. *)
LEMMA OneMoreSession ==
    ASSUME TypeOK, NEW r \in Requests, NEW b \in Booking, plan'[r] = Append(plan[r], b), NEW s
    PROVE  PlannedHours(r, s)' = IF b.staff = s THEN PlannedHours(r, s) + 1 ELSE PlannedHours(r, s)
  <1> DEFINE before == {k \in DOMAIN plan[r] : plan[r][k].staff = s}
             after == {k \in DOMAIN plan'[r] : plan'[r][k].staff = s}
             n == Len(plan[r])
  <1>1. plan[r] \in Seq(Booking)
    BY DEF TypeOK
  <1>2. /\ n \in Nat /\ DOMAIN plan[r] = 1..n /\ DOMAIN plan'[r] = 1..(n + 1)
        /\ plan'[r][n + 1] = b /\ \A k \in 1..n : plan'[r][k] = plan[r][k]
    BY <1>1
  <1>3. after = IF b.staff = s THEN before \cup {n + 1} ELSE before
    BY <1>2
  <1>4. n + 1 \notin before
    BY <1>2
  <1>5. IsFiniteSet(before)
    BY PlannedHoursType
  <1>6. Cardinality(before \cup {n + 1}) = Cardinality(before) + 1
    BY <1>4, <1>5, FS_AddElement
  <1>7. PlannedHours(r, s)' = Cardinality(after) /\ PlannedHours(r, s) = Cardinality(before)
    BY DEF PlannedHours
  <1> HIDE DEF before, after, n
  <1> QED BY <1>3, <1>6, <1>7

(* A timetable of the solver gives no teacher more hours than he may have. *)
LEMMA SolverHours ==
    ASSUME NEW c \in Classes, NEW p \in SolverPlans(c), NEW k \in DOMAIN p,
           p[k].staff \in Staff
    PROVE  Cardinality({l \in DOMAIN p : p[l].staff = p[k].staff}) <= HourLimit(p[k].staff)
  <1> DEFINE s == p[k].staff
             hours == {l \in DOMAIN p : p[l].staff = s}
  <1>1. Cardinality(hours) <= (IF MaxHours[s] = 0 THEN 40 ELSE MaxHours[s])
    BY DEF SolverPlans
  <1>2. Cardinality(hours) \in Nat /\ Cardinality(hours) # 0
    <2>1. p \in Seq(Booking)
      BY SolverPlanType
    <2>2. DOMAIN p = 1..Len(p) /\ Len(p) \in Nat
      BY <2>1
    <2>3. IsFiniteSet(DOMAIN p)
      BY <2>2, FS_Interval
    <2>4. IsFiniteSet(hours)
      BY <2>3, FS_Subset
    <2>5. k \in hours
      OBVIOUS
    <2> QED BY <2>4, <2>5, FS_CardinalityType, FS_EmptySet
  <1>3. MaxHours[s] \in Int
    BY SessionAssumption
  <1> QED BY <1>1, <1>2, <1>3 DEF HourLimit

LEMMA HoursInit == Init => HoursInv
  BY DEF Init, HoursInv, HoursCounted

LEMMA HoursStep == TypeInv /\ HoursInv /\ [Next]_vars => HoursInv'
  <1> SUFFICES ASSUME TypeInv, HoursInv, [Next]_vars, NEW q \in Requests
               PROVE  HoursCounted(q)'
    BY DEF HoursInv
  <1> USE DEF TypeInv
  <1>a. HoursCounted(q)
    BY DEF HoursInv
  <1>1. ASSUME NEW r \in Requests \ {q}, Arrive(r) \/ Step(r)
        PROVE  HoursCounted(q)'
    <2>1. /\ pc'[q] = pc[q] /\ plan'[q] = plan[q] /\ cls'[q] = cls[q] /\ seed'[q] = seed[q]
          /\ \E new :
                /\ pc[q] # "idle" => missed'[q] = missed[q] \cup new
                /\ \A i \in DOMAIN rows' \ new :
                      i \in DOMAIN rows /\ rows'[i] = rows[i]
                      /\ (i \in replaces[q] => i \in replaces'[q])
      BY <1>1, OtherSteps
    <2>2. pc[q] \in {"greedy", "commit"} /\ missed'[q] = {} =>
             /\ missed[q] = {}
             /\ \A i \in DOMAIN rows' : i \in DOMAIN rows /\ rows'[i] = rows[i]
      BY <2>1
    <2> QED BY <1>a, <2>1, <2>2, HoursFrame
  <1>2. CASE UNCHANGED vars
    <2>1. /\ pc'[q] = pc[q] /\ plan'[q] = plan[q] /\ cls'[q] = cls[q] /\ seed'[q] = seed[q]
          /\ missed'[q] = missed[q] /\ rows' = rows
      BY <1>2 DEF vars
    <2> QED BY <1>a, <2>1, HoursFrame
  <1>3. CASE \/ CreateTimetable(q) \/ UpdateTimetable(q) \/ ValidateUpdate(q)
             \/ Insert(q) \/ Save(q) \/ Infeasible(q) \/ ReplaceClassTimetable(q)
             \/ \E i \in 1..MaxRequests : DeleteTimetable(q, i)
    <2>1. CASE CreateTimetable(q) \/ UpdateTimetable(q)
      BY <2>1 DEF CreateTimetable, UpdateTimetable, Accept, TypeOK, HoursCounted
    <2>2. CASE ValidateUpdate(q)
      <3>1. pc'[q] = "save" \/ (pc'[q] = "idle" /\ \A s \in Staff : seed'[q][s] = 0)
        BY <2>2 DEF ValidateUpdate, Answer, TypeOK
      <3> QED BY <3>1 DEF HoursCounted
    <2>3. CASE Insert(q) \/ Save(q) \/ Infeasible(q) \/ ReplaceClassTimetable(q)
      <3>1. Answer(q)
        BY <2>3 DEF Insert, Save, Infeasible, ReplaceClassTimetable, Write
      <3>2. pc'[q] = "idle" /\ \A s \in Staff : seed'[q][s] = 0
        BY <3>1 DEF Answer, TypeOK
      <3> QED BY <3>2 DEF HoursCounted
    <2>4. CASE \E i \in 1..MaxRequests : DeleteTimetable(q, i)
      <3>1. pc'[q] = "idle" /\ pc[q] = "idle" /\ seed' = seed
        BY <2>4 DEF DeleteTimetable
      <3> QED BY <1>a, <3>1 DEF HoursCounted
    <2> QED BY <1>3, <2>1, <2>2, <2>3, <2>4
  <1>4. CASE GenerateGreedy(q)
    <2>1. PICK c \in Classes :
             /\ cls' = [cls EXCEPT ![q] = c]
             /\ seed' = [seed EXCEPT ![q] = [s \in Staff |->
                   Cardinality({i \in DOMAIN rows \ ClassRows(c) : rows[i].staff = s})]]
      BY <1>4 DEF GenerateGreedy
    <2>2. /\ pc'[q] = "greedy" /\ rows' = rows /\ plan'[q] = <<>> /\ cls'[q] = c
      BY <1>4, <2>1 DEF GenerateGreedy, Accept, TypeOK, PhaseOK, Phase
    <2>3. ASSUME NEW s \in Staff
          PROVE  Cardinality(ElsewhereRows(q, s)') <= seed'[q][s]
      <3> DEFINE there == {i \in DOMAIN rows \ ClassRows(c) : rows[i].staff = s}
      <3>1. ElsewhereRows(q, s)' = there
        BY <2>2 DEF ElsewhereRows, ClassRows
      <3>2. seed'[q][s] = Cardinality(there)
        BY <2>1 DEF TypeOK
      <3>3. Cardinality(there) \in Nat
        <4>1. there \subseteq DOMAIN rows
          OBVIOUS
        <4> QED BY <4>1, HoursType
      <3> HIDE DEF there
      <3> QED BY <3>1, <3>2, <3>3
    <2>4. DOMAIN plan'[q] = {}
      BY <2>2
    <2> QED BY <2>2, <2>3, <2>4 DEF HoursCounted
  <1>5. CASE ScheduleSession(q)
    <2>1. /\ pc[q] = "greedy" /\ pc' = pc /\ rows' = rows /\ cls' = cls /\ seed' = seed
          /\ missed' = missed
      BY <1>5 DEF ScheduleSession
    <2>2. PICK b : Fits(q, b) /\ plan' = [plan EXCEPT ![q] = Append(@, b)]
      BY <1>5 DEF ScheduleSession
    <2>3. plan'[q] = Append(plan[q], b) /\ plan[q] \in Seq(Booking) /\ plan'[q] \in Seq(Booking)
      BY <2>2, TypeStep DEF TypeOK
    <2> DEFINE n == Len(plan[q])
    <2>4. /\ n \in Nat /\ DOMAIN plan[q] = 1..n /\ DOMAIN plan'[q] = 1..(n + 1)
          /\ plan'[q][n + 1] = b /\ \A k \in 1..n : plan'[q][k] = plan[q][k]
      BY <2>3
    <2>5. b \in Booking
      BY <2>3, <2>4
    <2>6. \A s : ElsewhereRows(q, s)' = ElsewhereRows(q, s)
      BY <2>1 DEF ElsewhereRows, ClassRows
    <2>7. \A k \in 1..(n + 1) : plan'[q][k].staff \in Staff
      <3>1. PICK entries \in Seq(Booking) : entries = plan'[q] /\ DOMAIN entries = 1..(n + 1)
        BY <2>3, <2>4
      <3>2. \A k \in 1..(n + 1) : entries[k] \in Booking
        BY <3>1
      <3> QED BY <3>1, <3>2 DEF Booking
    <2>8. ASSUME missed[q] = {}, NEW s \in Staff, NEW k \in 1..(n + 1), plan'[q][k].staff = s
          PROVE  seed[q][s] + PlannedHours(q, s)' <= HourLimit(s)
      <3> DEFINE hours == PlannedHours(q, s)
      <3>1. hours \in Nat /\ seed[q][s] \in Nat
        BY PlannedHoursType DEF TypeOK
      <3>2. HourLimit(s) \in Int
        BY SessionAssumption DEF HourLimit
      <3>3. PlannedHours(q, s)' = IF b.staff = s THEN hours + 1 ELSE hours
        BY <2>3, <2>5, OneMoreSession
      <3>4. CASE b.staff = s
        <4>1. seed[q][s] + hours < HourLimit(s)
          BY <2>2, <3>4 DEF Fits
        <4> HIDE DEF hours
        <4> QED BY <3>1, <3>2, <3>3, <3>4, <4>1
      <3>5. CASE b.staff # s
        <4>1. k \in 1..n /\ s = plan[q][k].staff
          BY <2>4, <2>8, <3>5
        <4>2. seed[q][s] + hours <= HourLimit(s)
          BY <1>a, <2>1, <2>4, <2>8, <4>1 DEF HoursCounted
        <4> HIDE DEF hours
        <4> QED BY <3>3, <3>5, <4>2
      <3> QED BY <3>4, <3>5
    <2>9. missed[q] = {} =>
             \A s \in Staff, k \in 1..(n + 1) :
                plan'[q][k].staff = s => seed[q][s] + PlannedHours(q, s)' <= HourLimit(s)
      BY <2>8
    <2>10. missed[q] = {} =>
              (\A k \in DOMAIN plan[q] : LET s == plan[q][k].staff
                                        IN  seed[q][s] + PlannedHours(q, s) <= HourLimit(s))'
      BY <2>1, <2>4, <2>7, <2>9
    <2> QED BY <1>a, <2>1, <2>6, <2>10 DEF HoursCounted
  <1>6. CASE BeginReplace(q)
    <2>1. /\ pc[q] = "greedy" /\ pc'[q] = "commit" /\ UNCHANGED <<rows, plan, cls, seed, missed>>
      BY <1>6 DEF BeginReplace, TypeOK
    <2>2. \A s : /\ ElsewhereRows(q, s)' = ElsewhereRows(q, s)
                 /\ PlannedHours(q, s)' = PlannedHours(q, s)
      BY <2>1 DEF ElsewhereRows, ClassRows, PlannedHours
    <2> QED BY <1>a, <2>1, <2>2 DEF HoursCounted
  <1>7. CASE GenerateWithSolver(q)
    <2>1. PICK c \in Classes :
             /\ cls' = [cls EXCEPT ![q] = c]
             /\ \E p \in SolverPlans(c) : plan' = [plan EXCEPT ![q] = p]
             /\ missed' = [missed EXCEPT ![q] = DOMAIN rows \ ClassRows(c)]
      BY <1>7 DEF GenerateWithSolver
    <2>2. PICK p \in SolverPlans(c) : plan' = [plan EXCEPT ![q] = p]
      BY <2>1
    <2>3. /\ pc[q] = "idle" /\ pc'[q] = "commit" /\ rows' = rows /\ seed' = seed
          /\ plan'[q] = p /\ cls'[q] = c /\ missed'[q] = DOMAIN rows \ ClassRows(c)
      BY <1>7, <2>1, <2>2 DEF GenerateWithSolver, Accept, TypeOK
    <2>4. \A s \in Staff : seed'[q][s] = 0
      BY <1>a, <2>3 DEF HoursCounted
    <2>5. ASSUME missed'[q] = {}, NEW s \in Staff
          PROVE  Cardinality(ElsewhereRows(q, s)') <= seed'[q][s]
      <3>1. ElsewhereRows(q, s)' = {}
        BY <2>3, <2>5 DEF ElsewhereRows, ClassRows
      <3> QED BY <2>4, <3>1, FS_EmptySet
    <2>6. ASSUME NEW k \in DOMAIN p
          PROVE  seed'[q][p[k].staff] + PlannedHours(q, p[k].staff)' <= HourLimit(p[k].staff)
      <3> DEFINE s == p[k].staff
                 hours == {l \in DOMAIN p : p[l].staff = s}
      <3>1. s \in Staff
        <4>1. p \in Seq(Booking)
          BY SolverPlanType
        <4>2. p[k] \in Booking
          BY <4>1
        <4> QED BY <4>2 DEF Booking
      <3>2. Cardinality(hours) <= HourLimit(s)
        BY <3>1, SolverHours
      <3>3. PlannedHours(q, s)' = Cardinality(hours)
        BY <2>3 DEF PlannedHours
      <3>4. Cardinality(hours) \in Nat
        <4>1. p \in Seq(Booking)
          BY SolverPlanType
        <4>2. DOMAIN p = 1..Len(p) /\ Len(p) \in Nat
          BY <4>1
        <4>3. IsFiniteSet(DOMAIN p)
          BY <4>2, FS_Interval
        <4>4. IsFiniteSet(hours)
          BY <4>3, FS_Subset
        <4> QED BY <4>4, FS_CardinalityType
      <3>5. seed'[q][s] = 0
        BY <2>4, <3>1
      <3> HIDE DEF hours, s
      <3> QED BY <3>2, <3>3, <3>4, <3>5 DEF s
    <2> QED BY <2>3, <2>5, <2>6 DEF HoursCounted, HourLimit
  <1> QED BY <1>1, <1>2, <1>3, <1>4, <1>5, <1>6, <1>7 DEF Next, Arrive, Step

(* The fresh rows of a teacher are the planned sessions of his. *)
LEMMA FreshHours ==
    ASSUME TypeOK, NEW r \in Requests, NEW s
    PROVE  LET fresh == {i \in DOMAIN FreshRows(r) : FreshRows(r)[i].staff = s}
           IN  IsFiniteSet(fresh) /\ Cardinality(fresh) <= PlannedHours(r, s)
  <1> DEFINE fresh == {i \in DOMAIN FreshRows(r) : FreshRows(r)[i].staff = s}
             planned == {k \in DOMAIN plan[r] : plan[r][k].staff = s}
             place == [i \in fresh |-> i - nextId + 1]
  <1>1. \A i \in fresh : i - nextId + 1 \in planned
    BY FreshRowsType
  <1>2. \A i \in fresh : i \in Int
    <2>1. nextId \in Nat /\ Len(plan[r]) \in Nat
      BY FreshRowsType DEF TypeOK
    <2> QED BY <2>1, FreshRowsType
  <1>3. nextId \in Nat
    BY DEF TypeOK
  <1>4. IsFiniteSet(planned) /\ PlannedHours(r, s) = Cardinality(planned)
    BY PlannedHoursType DEF PlannedHours
  <1> HIDE DEF fresh, planned
  <1>5. place \in Injection(fresh, planned)
    BY <1>1, <1>2, <1>3 DEF Injection, IsInjective
  <1> HIDE DEF place
  <1>6. IsFiniteSet(fresh) /\ Cardinality(fresh) <= Cardinality(planned)
    BY <1>4, <1>5, FS_Injection
  <1> QED BY <1>4, <1>6 DEF fresh

LEMMA ReplacedHours ==
    ASSUME TypeInv, ClassRowsAccounted, HoursInv, NEW r \in Requests, ReplaceClassTimetable(r),
           missed[r] = {}, NEW k \in DOMAIN plan[r], NEW s \in Staff, plan[r][k].staff = s
    PROVE  Cardinality({i \in DOMAIN rows' : rows'[i].staff = s}) <= HourLimit(s)
  <1> USE DEF TypeInv
  <1> DEFINE gone == replaces[r] \cap ClassRows(cls[r])
             stay == ElsewhereRows(r, s)
             fresh == {i \in DOMAIN FreshRows(r) : FreshRows(r)[i].staff = s}
             after == {i \in DOMAIN rows' : rows'[i].staff = s}
  <1>1. pc[r] = "commit" /\ Write(r, gone, FreshRows(r))
    BY DEF ReplaceClassTimetable
  <1>2. gone = ClassRows(cls[r])
    BY <1>1 DEF ClassRowsAccounted
  <1>3. PICK new : new = FreshRows(r)
    OBVIOUS
  <1>4. DOMAIN rows' = (DOMAIN rows \ ClassRows(cls[r])) \cup DOMAIN new
        /\ \A i \in DOMAIN rows' : rows'[i] = IF i \in DOMAIN new THEN new[i] ELSE rows[i]
    BY <1>1, <1>2, <1>3 DEF Write
  <1>5. after = stay \cup fresh
    <2>1. \A i \in DOMAIN new : i \notin DOMAIN rows
      BY <1>3, FreshRowsType
    <2> QED BY <1>3, <1>4, <2>1 DEF ElsewhereRows
  <1>6. IsFiniteSet(stay)
    <2>1. stay \subseteq 1..(nextId - 1) /\ nextId - 1 \in Int
      BY DEF ElsewhereRows, TypeOK
    <2> QED BY <2>1, FS_Interval, FS_Subset
  <1>7. IsFiniteSet(fresh) /\ Cardinality(fresh) <= PlannedHours(r, s)
    BY FreshHours
  <1>8. Cardinality(stay) <= seed[r][s] /\ seed[r][s] + PlannedHours(r, s) <= HourLimit(s)
    BY <1>1 DEF HoursInv, HoursCounted
  <1>9. seed[r][s] \in Nat /\ PlannedHours(r, s) \in Nat /\ HourLimit(s) \in Int
    <2>1. seed[r][s] \in Nat
      BY DEF TypeOK
    <2>2. PlannedHours(r, s) \in Nat
      BY PlannedHoursType
    <2>3. HourLimit(s) \in Int
      BY SessionAssumption DEF HourLimit
    <2> QED BY <2>1, <2>2, <2>3
  <1> HIDE DEF gone, stay, fresh, after
  <1>10. Cardinality(stay) \in Nat /\ Cardinality(fresh) \in Nat
         /\ Cardinality(stay \cap fresh) \in Nat
    <2>1. IsFiniteSet(stay \cap fresh)
      BY <1>6, FS_Intersection
    <2> QED BY <1>6, <1>7, <2>1, FS_CardinalityType
  <1>11. Cardinality(after) = Cardinality(stay) + Cardinality(fresh) - Cardinality(stay \cap fresh)
    BY <1>5, <1>6, <1>7, FS_Union
  <1>12. Cardinality(after) <= HourLimit(s)
    BY <1>7, <1>8, <1>9, <1>10, <1>11
  <1> QED BY <1>12 DEF after

(***************************************************************************)
(* Where nobody wrote between the reading of the hours and the             *)
(* replacement, no teacher of the new timetable has more sessions in the   *)
(* whole table than max_hours: for the greedy engine, which adds up the    *)
(* hours it has read and those it has planned, and for the solver, which   *)
(* is told of the limit, when the class is the only one in the table.      *)
(***************************************************************************)
THEOREM HoursAreKept == Spec => HoursKept
  <1> DEFINE HInv == TypeInv /\ ClassRowsAccounted /\ HoursInv
  <1>1. HInv /\ [Next]_vars => HInv'
    BY TypeStep, AccountedStep, HoursStep
  <1>2. ASSUME HInv, [Next]_vars, ~ UNCHANGED vars,
               NEW r \in Requests, pc[r] = "commit", pc'[r] = "idle", missed[r] = {},
               NEW k \in DOMAIN plan[r], NEW s, s = plan[r][k].staff
        PROVE  Cardinality({i \in DOMAIN rows' : rows'[i].staff = s}) <= HourLimit(s)
    <2>1. ReplaceClassTimetable(r)
      BY <1>2, CommitStep, OtherSteps
    <2>2. s \in Staff
      BY <1>2, StaffOfPlan DEF TypeInv
    <2> QED BY <1>2, <2>1, <2>2, ReplacedHours
  <1>3. HInv /\ [Next]_vars =>
           [\A r \in Requests : pc[r] = "commit" /\ pc'[r] = "idle" /\ missed[r] = {} =>
              \A k \in DOMAIN plan[r] :
                  LET s == plan[r][k].staff
                  IN  Cardinality({i \in DOMAIN rows' : rows'[i].staff = s}) <= HourLimit(s)]_vars
    BY <1>2
  <1>4. Init => HInv
    BY TypeInit, AccountedInit, HoursInit
  <1> QED BY <1>1, <1>3, <1>4, PTL DEF Spec, HoursKept
-----------------------------------------------------------------------------
(* One request at a time *)

(* The updates that move an entry in time, or change what it teaches. *)
TimePatchesOnly ==
    \A p \in Patches : p.class = Absent /\ p.staff = Absent /\ p.room = Absent

(* Such an update stores the entry that it has checked. *)
LEMMA TimePatchStored ==
    ASSUME TimePatchesOnly, NEW p \in Patches, NEW old \in Booking, NEW loaded
    PROVE  Reattach(Merge(old, p), old, loaded) = Merge(old, p)
  <1>1. /\ Merge(old, p).class = old.class
        /\ Merge(old, p).staff = old.staff
        /\ Merge(old, p).room = old.room
    BY DEF TimePatchesOnly, Merge, Given
  <1>2. Merge(old, p) \in Booking
    BY MergeType, PayloadAssumption
  <1> QED BY <1>1, <1>2 DEF Reattach, Booking

(* A request that has the server for itself misses nothing. *)
NothingMissed ==
    /\ \A r \in Requests : missed[r] = {}
    /\ \A r \in Requests : pc[r] = "merged" => plan[r][1] = plan[r][2]
    /\ \A i \in DOMAIN rows : blind[i] = {}

LEMMA SerialStep ==
    ASSUME \A q, r \in Requests : q = r, \A c \in Classes : SolverPlans(c) = {},
           TimePatchesOnly, TypeInv, NothingMissed, [Next]_vars
    PROVE  NothingMissed'
  <1> USE DEF TypeInv
  <1>1. ASSUME NEW r \in Requests, NEW gone, NEW new, Write(r, gone, new)
        PROVE  NothingMissed'
    <2>1. missed' = [q \in Requests |-> {}] /\ \A q \in Requests : pc'[q] = "idle"
      BY <1>1 DEF Write, Answer, TypeOK
    <2>2. \A i \in DOMAIN rows' : blind'[i] = {}
      BY <1>1 DEF Write, NothingMissed
    <2> QED BY <2>1, <2>2 DEF NothingMissed
  <1>2. ASSUME NEW r \in Requests, Insert(r) \/ Save(r) \/ ReplaceClassTimetable(r)
        PROVE  NothingMissed'
    BY <1>1, <1>2 DEF Insert, Save, ReplaceClassTimetable
  <1>3. ASSUME NEW r \in Requests,
               \/ CreateTimetable(r) \/ GenerateGreedy(r)
               \/ ScheduleSession(r) \/ BeginReplace(r)
        PROVE  NothingMissed'
    <2>1. UNCHANGED <<rows, missed, blind>>
      BY <1>3 DEF CreateTimetable, GenerateGreedy, ScheduleSession, BeginReplace
    <2>2. \A q \in Requests : pc'[q] # "merged"
      BY <1>3 DEF CreateTimetable, GenerateGreedy, ScheduleSession, BeginReplace, Accept, TypeOK
    <2> QED BY <2>1, <2>2 DEF NothingMissed
  <1>4. ASSUME NEW r \in Requests, UpdateTimetable(r) PROVE NothingMissed'
    <2>1. PICK i \in DOMAIN rows, p \in Patches, loaded \in SUBSET {"class", "staff", "room"} :
             plan' = [plan EXCEPT ![r] = <<Merge(rows[i], p),
                                           Reattach(Merge(rows[i], p), rows[i], loaded)>>]
      BY <1>4 DEF UpdateTimetable
    <2>2. Reattach(Merge(rows[i], p), rows[i], loaded) = Merge(rows[i], p)
      BY TimePatchStored DEF TypeOK
    <2>3. plan'[r] = <<Merge(rows[i], p), Merge(rows[i], p)>>
      BY <2>1, <2>2 DEF TypeOK
    <2>4. \A q \in Requests : plan'[q][1] = plan'[q][2]
      BY <2>3
    <2>5. UNCHANGED <<rows, missed, blind>>
      BY <1>4 DEF UpdateTimetable
    <2> QED BY <2>4, <2>5 DEF NothingMissed
  <1>5. ASSUME NEW r \in Requests, ValidateUpdate(r) PROVE NothingMissed'
    <2>1. pc[r] = "merged" /\ plan[r][1] = plan[r][2]
      BY <1>5 DEF ValidateUpdate, NothingMissed
    <2>2. missed' = [missed EXCEPT ![r] = {}] /\ UNCHANGED <<rows, blind>>
      BY <1>5, <2>1 DEF ValidateUpdate
    <2>3. pc'[r] # "merged"
      BY <1>5 DEF ValidateUpdate, Answer, TypeOK
    <2> QED BY <2>2, <2>3 DEF NothingMissed, TypeOK
  <1>6. ASSUME NEW r \in Requests, Infeasible(r) PROVE NothingMissed'
    <2>1. missed' = [missed EXCEPT ![r] = {}] /\ UNCHANGED <<rows, blind>>
      BY <1>6 DEF Infeasible
    <2>2. pc'[r] # "merged"
      BY <1>6 DEF Infeasible, Answer, TypeOK
    <2> QED BY <2>1, <2>2 DEF NothingMissed, TypeOK
  <1>7. ASSUME NEW r \in Requests, NEW i \in 1..MaxRequests, DeleteTimetable(r, i)
        PROVE  NothingMissed'
    BY <1>7 DEF DeleteTimetable, NothingMissed
  <1>8. ASSUME NEW r \in Requests, GenerateWithSolver(r) PROVE FALSE
    BY <1>8 DEF GenerateWithSolver
  <1>9. CASE UNCHANGED vars
    BY <1>9 DEF vars, NothingMissed
  <1> QED BY <1>2, <1>3, <1>4, <1>5, <1>6, <1>7, <1>8, <1>9 DEF Next, Arrive, Step

(***************************************************************************)
(* When requests are served one at a time, the solver is not used and      *)
(* updates leave class, teacher and room alone, none of these is ever      *)
(* booked twice: what the handlers check is then enough.  Each of the      *)
(* three hypotheses is needed, as a run of the model shows.                *)
(***************************************************************************)
THEOREM SerialBookingIsSafe ==
    ASSUME \A q, r \in Requests : q = r, \A c \in Classes : SolverPlans(c) = {},
           TimePatchesOnly
    PROVE  Spec => []NoDoubleBooking
  <1>1. Init => NothingMissed
    BY DEF Init, NothingMissed
  <1>2. TypeInv /\ NothingMissed /\ [Next]_vars => NothingMissed'
    BY SerialStep
  <1>3. IInv /\ NothingMissed => NoDoubleBooking
    BY DEF IInv, ClashOnlyWhenUnseen, NothingMissed, NoDoubleBooking
  <1>4. IInv => TypeInv
    BY DEF IInv
  <1> QED BY <1>1, <1>2, <1>3, <1>4, ClashInit, ClashStep, PTL DEF Spec

-----------------------------------------------------------------------------
(* The abstract timetable *)

(* The row that an update was sent for is still in the table. *)
RowStillThere ==
    \A r \in Requests : pc[r] \in {"merged", "save"} => replaces[r] \subseteq DOMAIN rows

LEMMA StillThereStep ==
    ASSUME \A q, r \in Requests : q = r, TypeInv, RowStillThere, [Next]_vars
    PROVE  RowStillThere'
  <1> USE DEF TypeInv
  <1>1. ASSUME NEW r \in Requests, Insert(r) \/ Save(r) \/ ReplaceClassTimetable(r)
        PROVE  RowStillThere'
    <2>1. Answer(r)
      BY <1>1 DEF Insert, Save, ReplaceClassTimetable, Write
    <2>2. \A q \in Requests : pc'[q] = "idle"
      BY <2>1 DEF Answer, TypeOK
    <2> QED BY <2>2 DEF RowStillThere
  <1>2. ASSUME NEW r \in Requests, UpdateTimetable(r) PROVE RowStillThere'
    <2>1. PICK i \in DOMAIN rows : replaces' = [replaces EXCEPT ![r] = {i}]
      BY <1>2 DEF UpdateTimetable
    <2>2. rows' = rows /\ replaces'[r] = {i}
      BY <1>2, <2>1 DEF UpdateTimetable, TypeOK
    <2> QED BY <2>2 DEF RowStillThere
  <1>3. ASSUME NEW r \in Requests, ValidateUpdate(r) PROVE RowStillThere'
    <2>1. pc[r] = "merged" /\ rows' = rows
      BY <1>3 DEF ValidateUpdate
    <2>2. pc'[r] = "idle" \/ (pc'[r] = "save" /\ replaces'[r] = replaces[r])
      BY <1>3 DEF ValidateUpdate, Answer, TypeOK
    <2> QED BY <2>1, <2>2 DEF RowStillThere
  <1>4. ASSUME NEW r \in Requests,
               \/ CreateTimetable(r) \/ GenerateGreedy(r) \/ GenerateWithSolver(r)
               \/ ScheduleSession(r) \/ Infeasible(r) \/ BeginReplace(r)
               \/ \E i \in 1..MaxRequests : DeleteTimetable(r, i)
        PROVE  RowStillThere'
    <2>1. pc'[r] \notin {"merged", "save"}
      BY <1>4 DEF CreateTimetable, GenerateGreedy, GenerateWithSolver, ScheduleSession,
                  Infeasible, BeginReplace, DeleteTimetable, Accept, Answer, TypeOK
    <2> QED BY <2>1 DEF RowStillThere
  <1>5. CASE UNCHANGED vars
    BY <1>5 DEF vars, RowStillThere
  <1> QED BY <1>1, <1>2, <1>3, <1>4, <1>5 DEF Next, Arrive, Step

(* A table without double bookings is conflict-free in the abstract sense. *)
LEMMA AbstractlyFree == NoDoubleBooking' => Abstract!ConflictFree(rows')
  BY DEF NoDoubleBooking, Abstract!ConflictFree, DoubleBooked, Abstract!DoubleBooked,
         Overlaps, Abstract!Overlaps, SharesResource, Abstract!SharesResource

LEMMA InsertBooks ==
    ASSUME TypeInv, NEW r \in Requests, Insert(r)
    PROVE  Abstract!Book
  <1> USE DEF TypeInv
  <1>1. Write(r, {}, FreshRows(r)) /\ Len(plan[r]) = 1 /\ nextId \in Nat
    BY DEF Insert, PhaseOK, Phase, TypeOK
  <1>2. DOMAIN FreshRows(r) = {nextId} /\ nextId \notin DOMAIN rows
    <2>1. DOMAIN FreshRows(r) = nextId..(nextId + Len(plan[r]) - 1)
          /\ \A i \in DOMAIN FreshRows(r) : i \notin DOMAIN rows
      BY FreshRowsType
    <2> QED BY <1>1, <2>1
  <1>3. DOMAIN rows' = DOMAIN rows \cup {nextId}
        /\ \A i \in DOMAIN rows : rows'[i] = rows[i]
    BY <1>1, <1>2 DEF Write
  <1> QED BY <1>2, <1>3 DEF Abstract!Book, Abstract!Kept

LEMMA SaveMoves ==
    ASSUME TypeInv, RowStillThere, NEW r \in Requests, Save(r)
    PROVE  Abstract!Move
  <1> USE DEF TypeInv
  <1>1. PICK i \in 1..(nextId - 1) : replaces[r] = {i}
    BY DEF Save, PhaseOK, Phase
  <1>2. i \in DOMAIN rows
    BY <1>1 DEF Save, RowStillThere
  <1>3. DOMAIN rows' = DOMAIN rows /\ \A j \in DOMAIN rows \ {i} : rows'[j] = rows[j]
    BY <1>1, <1>2 DEF Save, Write
  <1> QED BY <1>2, <1>3 DEF Abstract!Move, Abstract!Kept

LEMMA DeleteCancels ==
    ASSUME TypeInv, NEW r \in Requests, NEW i \in 1..MaxRequests, DeleteTimetable(r, i)
    PROVE  Abstract!Cancel \/ rows' = rows
  <1>1. rows' = [j \in DOMAIN rows \ {i} |-> rows[j]]
    BY DEF DeleteTimetable
  <1>2. CASE i \in DOMAIN rows
    <2>1. DOMAIN rows' = DOMAIN rows \ {i} /\ \A j \in DOMAIN rows \ {i} : rows'[j] = rows[j]
      BY <1>1
    <2> QED BY <1>2, <2>1 DEF Abstract!Cancel, Abstract!Kept
  <1>3. CASE i \notin DOMAIN rows
    <2>1. DOMAIN rows \ {i} = DOMAIN rows
      BY <1>3
    <2>2. rows = [j \in DOMAIN rows |-> rows[j]]
      BY DEF TypeInv, TypeOK
    <2> QED BY <1>1, <2>1, <2>2
  <1> QED BY <1>2, <1>3

LEMMA ReplacementRegenerates ==
    ASSUME TypeInv, ClassRowsAccounted, NEW r \in Requests, ReplaceClassTimetable(r),
           missed[r] = {}
    PROVE  \E c \in Classes : Abstract!Regenerate(c)
  <1> USE DEF TypeInv
  <1> DEFINE c == cls[r]
             others == {i \in DOMAIN rows : rows[i].class # c}
  <1>1. pc[r] = "commit" /\ Write(r, replaces[r] \cap ClassRows(c), FreshRows(r))
    BY DEF ReplaceClassTimetable
  <1>2. c \in Classes /\ \A k \in DOMAIN plan[r] : plan[r][k].class = c
    BY <1>1 DEF PhaseOK, Phase
  <1>3. PICK new : new = FreshRows(r)
    OBVIOUS
  <1>4. DOMAIN rows \ (replaces[r] \cap ClassRows(c)) = others
    BY <1>1 DEF ClassRowsAccounted, ClassRows
  <1>5. DOMAIN rows' = others \cup DOMAIN new
        /\ \A i \in DOMAIN rows' : rows'[i] = IF i \in DOMAIN new THEN new[i] ELSE rows[i]
    BY <1>1, <1>3, <1>4 DEF Write
  <1>6. \A i \in DOMAIN new : i \notin DOMAIN rows /\ new[i].class = c
    BY <1>2, <1>3, FreshRowsType
  <1>7. \A i \in others : i \in DOMAIN rows' /\ rows'[i] = rows[i]
    BY <1>5, <1>6
  <1>8. \A i \in DOMAIN rows' \ others : i \notin DOMAIN rows /\ rows'[i].class = c
    BY <1>5, <1>6
  <1>9. Abstract!Regenerate(c)
    BY <1>7, <1>8 DEF Abstract!Regenerate, Abstract!Kept
  <1> QED BY <1>2, <1>9

(* Every step of the serial server is one operation on the abstract timetable. *)
LEMMA AbstractStep ==
    ASSUME TypeInv, ClassRowsAccounted, RowStillThere, NothingMissed, NoDoubleBooking',
           [Next]_vars
    PROVE  [Abstract!Next]_rows
  <1>1. Abstract!ConflictFree(rows')
    BY AbstractlyFree
  <1>2. ASSUME NEW r \in Requests, Insert(r) PROVE Abstract!Next
    BY <1>1, <1>2, InsertBooks DEF Abstract!Next
  <1>3. ASSUME NEW r \in Requests, Save(r) PROVE Abstract!Next
    BY <1>1, <1>3, SaveMoves DEF Abstract!Next
  <1>4. ASSUME NEW r \in Requests, NEW i \in 1..MaxRequests, DeleteTimetable(r, i)
        PROVE  Abstract!Next \/ rows' = rows
    BY <1>1, <1>4, DeleteCancels DEF Abstract!Next
  <1>5. ASSUME NEW r \in Requests, ReplaceClassTimetable(r) PROVE Abstract!Next
    <2>1. missed[r] = {}
      BY DEF NothingMissed
    <2> QED BY <1>1, <1>5, <2>1, ReplacementRegenerates DEF Abstract!Next
  <1>6. ASSUME NEW r \in Requests,
               \/ CreateTimetable(r) \/ UpdateTimetable(r) \/ ValidateUpdate(r)
               \/ GenerateGreedy(r) \/ GenerateWithSolver(r) \/ ScheduleSession(r)
               \/ Infeasible(r) \/ BeginReplace(r)
        PROVE  rows' = rows
    BY <1>6 DEF CreateTimetable, UpdateTimetable, ValidateUpdate, GenerateGreedy,
                GenerateWithSolver, ScheduleSession, Infeasible, BeginReplace
  <1>7. CASE UNCHANGED vars
    BY <1>7 DEF vars
  <1> QED BY <1>2, <1>3, <1>4, <1>5, <1>6, <1>7 DEF Next, Arrive, Step

(***************************************************************************)
(* Under the hypotheses of SerialBookingIsSafe the server implements the   *)
(* abstract timetable, with the same table: every write of a request is    *)
(* one booking, move, cancellation or regeneration, and none leaves a      *)
(* conflict behind.                                                        *)
(***************************************************************************)
THEOREM SerialServerImplements ==
    ASSUME \A q, r \in Requests : q = r, \A c \in Classes : SolverPlans(c) = {},
           TimePatchesOnly
    PROVE  Spec => ImplementsConflictFreeTimetable
  <1> DEFINE SInv == IInv /\ NothingMissed /\ ClassRowsAccounted /\ RowStillThere
  <1>1. Init => SInv /\ Abstract!Init
    <2>1. Init => NothingMissed /\ RowStillThere /\ Abstract!Init
      BY DEF Init, NothingMissed, RowStillThere, Abstract!Init
    <2> QED BY <2>1, ClashInit, AccountedInit
  <1>2. IInv => TypeInv
    BY DEF IInv
  <1>3. SInv /\ [Next]_vars => SInv'
    BY <1>2, ClashStep, SerialStep, AccountedStep, StillThereStep
  <1>4. SInv => NoDoubleBooking
    BY DEF IInv, ClashOnlyWhenUnseen, NothingMissed, NoDoubleBooking
  <1>5. SInv /\ NoDoubleBooking' /\ [Next]_vars => [Abstract!Next]_rows
    BY <1>2, AbstractStep
  <1> HIDE DEF SInv
  <1> QED BY <1>1, <1>3, <1>4, <1>5, PTL
          DEF Spec, ImplementsConflictFreeTimetable, Abstract!Spec
=============================================================================
