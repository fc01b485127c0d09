------------------------- MODULE ModeReport_proofs -------------------------
(***************************************************************************)
(* Proofs about ModeReport, for any clock bound, tick length and TTLs: no  *)
(* gate reads more authority than was granted, what it reads only lapses   *)
(* between two grants, and the report shows it and how long it lasts.      *)
(***************************************************************************)
EXTENDS ModeReport, TLAPS

IInv == TypeOK /\ FileIsTheGrant

LEMMA InitIInv == Init => IInv
BY MaxTimeAssumption
   DEF Init, IInv, TypeOK, FileIsTheGrant, Nothing, ModeFiles, Forms, Ttls, Modes,
       Never, Gate, Report, ReadMode, ReportedMode, Stated, Expired

\* Both readers answer with a mode whatever they are given.
LEMMA ReadersAnswer ==
    ASSUME NEW f \in ModeFiles, NEW t
    PROVE  ReadMode(f, t) \in Modes /\ ReportedMode(f, t) \in Modes
BY DEF ReadMode, ReportedMode, Stated, Modes

\* What the writers leave behind is a mode file.
LEMMA ContentsTyped ==
    /\ \A form \in Forms : Nothing(form) \in ModeFiles
    /\ \A m \in Modes \union {"other"} : Word(m) \in ModeFiles
    /\ \A m \in Modes \union {"other"}, ttl \in Ttls, until \in Nat :
         Object(m, ttl, until) \in ModeFiles
BY DEF Nothing, Word, Object, ModeFiles, Forms, Ttls

LEMMA NextIInv == IInv /\ [Next]_vars => IInv'
<1> SUFFICES ASSUME IInv, [Next]_vars
             PROVE  IInv'
  OBVIOUS
<1>1. ASSUME file' \in ModeFiles, now' \in 0 .. MaxTime,
             grant' \in [mode : Modes, until : Nat], FileIsTheGrant'
      PROVE  IInv'
  BY <1>1, ReadersAnswer DEF IInv, TypeOK, Gate, Report
<1>2. ASSUME NEW m \in Modes, NEW lifetime \in Lifetimes, GrantWithTtl(m, lifetime)
      PROVE  IInv'
  <2>1. now + lifetime \in Nat /\ now' \in 0 .. MaxTime
    BY <1>2, LifetimesAssumption, MaxTimeAssumption DEF GrantWithTtl, IInv, TypeOK
  <2>2. file' \in ModeFiles /\ grant' \in [mode : Modes, until : Nat]
    BY <1>2, <2>1, ContentsTyped DEF GrantWithTtl, Ttls
  <2>3. FileIsTheGrant'
    BY <1>2 DEF GrantWithTtl, FileIsTheGrant, Object
  <2>4. QED
    BY <1>1, <2>1, <2>2, <2>3
<1>3. ASSUME NEW m \in Modes, GrantWithoutTtl(m)
      PROVE  IInv'
  <2>1. now' \in 0 .. MaxTime /\ grant' \in [mode : Modes, until : Nat]
    BY <1>3, MaxTimeAssumption DEF GrantWithoutTtl, IInv, TypeOK, Never
  <2>2. file' \in ModeFiles
    BY <1>3, ContentsTyped DEF GrantWithoutTtl, Ttls
  <2>3. FileIsTheGrant'
    BY <1>3 DEF GrantWithoutTtl, FileIsTheGrant, Object, Word, Never
  <2>4. QED
    BY <1>1, <2>1, <2>2, <2>3
<1>4. CASE Damage
  <2>1. now' \in 0 .. MaxTime /\ grant' \in [mode : Modes, until : Nat]
    BY <1>4 DEF Damage, IInv, TypeOK
  <2>2. file' \in ModeFiles /\ FileIsTheGrant'
    <3>1. CASE \E form \in {"unreadable", "empty", "nonobject"} : file' = Nothing(form)
      <4>1. file' \in ModeFiles
        BY <3>1, ContentsTyped DEF Forms
      <4>2. file'.mode = "other"
        BY <3>1 DEF Nothing
      <4>3. QED
        BY <4>1, <4>2 DEF FileIsTheGrant, Modes
    <3>2. CASE file' \in {Word("other"), Object("other", "none", 0)}
      <4>1. file' \in ModeFiles
        BY <3>2, ContentsTyped DEF Ttls
      <4>2. file'.mode = "other"
        BY <3>2 DEF Word, Object
      <4>3. QED
        BY <4>1, <4>2 DEF FileIsTheGrant, Modes
    <3>3. CASE \E ttl \in {"naive", "malformed", "nonstring"} :
                 file' = Object(file.mode, ttl, 0)
      <4>1. file.mode \in Modes \union {"other"}
        BY DEF IInv, TypeOK, ModeFiles
      <4>2. QED
        BY <3>3, <4>1, ContentsTyped DEF Object, FileIsTheGrant, Ttls
    <3>4. QED
      BY <1>4, <3>1, <3>2, <3>3 DEF Damage
  <2>3. QED
    BY <1>1, <2>1, <2>2
<1>5. CASE Tick
  <2>1. now' \in 0 .. MaxTime
    BY <1>5, MaxTimeAssumption DEF Tick, IInv, TypeOK
  <2>2. FileIsTheGrant'
    BY <1>5 DEF Tick, IInv, FileIsTheGrant, Never
  <2>3. QED
    BY <1>1, <1>5, <2>1, <2>2 DEF Tick, IInv, TypeOK
<1>6. CASE UNCHANGED vars
  BY <1>6 DEF vars, IInv, TypeOK, FileIsTheGrant, Gate, Report, Never
<1>7. QED
  BY <1>2, <1>3, <1>4, <1>5, <1>6 DEF Next, Grants

\* The variables and both readings always have their types.
THEOREM TypeCorrect == Spec => []TypeOK
<1>1. IInv => TypeOK
  BY DEF IInv
<1>2. QED
  BY <1>1, InitIInv, NextIInv, PTL DEF Spec

\* No gate of any tool acts on more authority than the runner granted last, or
\* after its end.
THEOREM GatesStayWithinGrants == Spec => []GateWithinGrant
<1>1. IInv => GateWithinGrant
  BY MaxTimeAssumption
     DEF IInv, TypeOK, FileIsTheGrant, GateWithinGrant, Gate, ReadMode, Stated, Never,
         Modes, ModeFiles
<1>2. QED
  BY <1>1, InitIInv, NextIInv, PTL DEF Spec

\* Between two grants a reading only ever goes to READ.
THEOREM AuthorityLapsesOnly == Spec => AuthorityOnlyLapses
<1>1. IInv /\ [Next]_vars => [~Grants => Gate' \in {Gate, "READ"}]_vars
  <2> SUFFICES ASSUME IInv, Next, ~Grants
               PROVE  Gate' \in {Gate, "READ"}
    BY DEF vars
  <2>1. CASE Damage
    BY <2>1 DEF Damage, Gate, ReadMode, Stated, Nothing, Word, Object, Modes
  <2>2. CASE Tick
    BY <2>2 DEF Tick, IInv, TypeOK, ModeFiles, Gate, ReadMode, Stated
  <2>3. QED
    BY <2>1, <2>2 DEF Next
<1>2. QED
  BY <1>1, InitIInv, NextIInv, PTL DEF Spec, AuthorityOnlyLapses

\* Whenever a gate reads BUILD or RUN, get_mode_state reports it, and as verified.
THEOREM AuthorityIsShown == Spec => []ReportShowsAuthority
<1>1. IInv => ReportShowsAuthority
  BY DEF IInv, TypeOK, ReportShowsAuthority, Gate, Report, ReadMode, ReportedMode, Stated,
         Verified, Expired, ModeFiles, Modes
<1>2. QED
  BY <1>1, InitIInv, NextIInv, PTL DEF Spec

\* int() of the remaining time: so many whole seconds fit, and not one more.
LEMMA WholeSeconds ==
    ASSUME NEW d \in Nat, NEW s \in Nat \ {0}
    PROVE  /\ d \div s \in Nat
           /\ (d \div s) * s <= d
           /\ d < ((d \div s) + 1) * s
  OBVIOUS

\* ttl_seconds_remaining is right in both directions for every length of a second.
THEOREM CountdownsAreKept == Spec => []CountdownIsKept
<1>1. ASSUME IInv PROVE CountdownIsKept
  <2> DEFINE left == Countdown(file, now, Second)
  <2> SUFFICES ASSUME left # NoCountdown
               PROVE  /\ \A t \in now .. now + left * Second - 1 : ReadMode(file, t) = Report
                      /\ ReadMode(file, now + (left + 1) * Second) = "READ"
    BY DEF CountdownIsKept
  <2>1. file.form = "object" /\ file.ttl = "aware" /\ now < file.until
        /\ left = (file.until - now) \div Second
    BY DEF Countdown
  <2>2. file.until \in Nat /\ now \in Nat /\ Second \in Nat \ {0}
    BY <1>1, SecondAssumption DEF IInv, TypeOK, ModeFiles
  <2> HIDE DEF left
  <2>3. /\ left \in Nat
        /\ left * Second <= file.until - now
        /\ file.until - now < (left + 1) * Second
    <3>1. file.until - now \in Nat
      BY <2>1, <2>2
    <3> QED BY <2>1, <2>2, <3>1, WholeSeconds
  <2>4. left * Second \in Int /\ (left + 1) * Second \in Int
    BY <2>2, <2>3
  <2>5. \A t \in now .. now + left * Second - 1 : t < file.until
    BY <2>2, <2>3, <2>4
  <2>6. ~ (now + (left + 1) * Second < file.until)
    BY <2>2, <2>3, <2>4
  <2>7. Report = Stated(file)
    BY <2>1, <2>2 DEF Report, ReportedMode, Expired
  <2> QED BY <2>1, <2>5, <2>6, <2>7 DEF ReadMode
<1>2. QED
  BY <1>1, InitIInv, NextIInv, PTL DEF Spec

=============================================================================
