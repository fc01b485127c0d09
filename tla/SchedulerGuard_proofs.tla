----------------------- MODULE SchedulerGuard_proofs -----------------------
(***************************************************************************)
(* What holds of run_scheduled_task for any number of processes, jobs and  *)
(* ticks, and what holds for one turn at a time.                           *)
(***************************************************************************)
EXTENDS SchedulerGuard, TLAPS

Past == {"clock", "guard", "truncate", "stamp", "post"}

\* A call past the gate was let through by a mode it saw, and a call in progress
\* has seen the mode in force now.
CallAllowed(c) ==
    /\ c.step # "idle" => c.job \in Jobs /\ Rank(mode) <= Rank(c.best)
    /\ c.step \in Past =>
         /\ c.best # "READ"
         /\ JOB_REGISTRY[c.job] = DESTRUCTIVE => c.confirm /\ c.best = "RUN"

\* No call has taken a time that is still to come, and one that was let through
\* is remembered as such.
CallDated(c) ==
    /\ c.at <= now
    /\ c.step \in {"truncate", "stamp", "post"} =>
         passed[c.job] # Never /\ c.at <= passed[c.job]

CallsInOrder == \A p \in Proc : CallAllowed(call[p]) /\ CallDated(call[p])

\* A marker is never younger than the last call let through.
MarkersInOrder ==
    \A job \in Jobs :
        /\ passed[job] <= now
        /\ marker[job].form = "stamp" =>
             passed[job] # Never /\ marker[job].at <= passed[job]

IInv == TypeOK /\ CallsInOrder /\ MarkersInOrder

-----------------------------------------------------------------------------
\* Ranks are numbers, and the higher of two modes is not below either.
LEMMA RankFacts ==
    ASSUME NEW m \in Modes, NEW n \in Modes
    PROVE  /\ Rank(m) \in 0 .. 2
           /\ Higher(m, n) \in Modes
           /\ Rank(m) <= Rank(Higher(m, n)) /\ Rank(n) <= Rank(Higher(m, n))
           /\ m # "READ" => Rank(m) >= 1
           /\ m = "RUN" <=> Rank(m) = 2
           /\ m = "READ" <=> Rank(m) = 0
  BY DEF Modes, Rank, Higher

LEMMA InitIInv == Init => IInv
  <1> SUFFICES ASSUME Init PROVE IInv
    OBVIOUS
  <1>1. TypeOK
    <2>1. overlapped \in BOOLEAN
      BY Zenon DEF Init
    <2>2. /\ mode \in Modes /\ now \in 0 .. MaxTime
          /\ passed \in [Jobs -> Never .. MaxTime]
          /\ sent \in SUBSET [job : Jobs, at : 0 .. MaxTime]
      BY MaxTimeAssumption DEF Init, Modes, Never
    <2>3. marker \in [Jobs -> {Missing, Empty} \union {Stamp(t) : t \in 0 .. MaxTime}]
      BY DEF Init
    <2>4. call \in [Proc -> [step : Steps, job : Jobs \union {"none"}, confirm : BOOLEAN,
                            at : 0 .. MaxTime, best : Modes]]
      BY MaxTimeAssumption DEF Init, NoCall, Steps, Modes
    <2> QED BY <2>1, <2>2, <2>3, <2>4 DEF TypeOK
  <1>2. CallsInOrder
    BY DEF Init, CallsInOrder, CallAllowed, CallDated, NoCall, Past
  <1>3. MarkersInOrder
    BY DEF Init, MarkersInOrder, Missing, Never
  <1> QED BY <1>1, <1>2, <1>3 DEF IInv

-----------------------------------------------------------------------------
(* One lemma per action; a step of one process changes its own call alone. *)

\* What a step that touches the call of p alone has to establish.
LEMMA OwnCallKeeps ==
    ASSUME IInv, NEW p \in Proc,
           NEW c \in [step : Steps, job : Jobs \union {"none"}, confirm : BOOLEAN,
                      at : 0 .. MaxTime, best : Modes],
           call' = [call EXCEPT ![p] = c],
           CallAllowed(c), CallDated(c),
           UNCHANGED <<mode, now, marker, passed>>,
           sent' \in SUBSET [job : Jobs, at : 0 .. MaxTime], overlapped' \in BOOLEAN
    PROVE  IInv'
  <1>1. TypeOK'
    BY DEF IInv, TypeOK
  <1>2. CallsInOrder'
    <2> SUFFICES ASSUME NEW q \in Proc
                 PROVE  (CallAllowed(call[q]) /\ CallDated(call[q]))'
      BY DEF CallsInOrder
    <2>1. CASE q = p
      <3>1. call'[q] = c
        BY <2>1 DEF IInv, TypeOK
      <3> QED BY <3>1 DEF CallAllowed, CallDated, Rank
    <2>2. CASE q # p
      <3>1. call'[q] = call[q]
        BY <2>2 DEF IInv, TypeOK
      <3> QED BY <3>1 DEF IInv, CallsInOrder, CallAllowed, CallDated, Rank
    <2> QED BY <2>1, <2>2
  <1>3. MarkersInOrder'
    BY DEF IInv, MarkersInOrder
  <1> QED BY <1>1, <1>2, <1>3 DEF IInv

\* Returning is always in order.
LEMMA ReturnKeeps ==
    ASSUME IInv, NEW p \in Proc, Return(p),
           UNCHANGED <<mode, now, marker, passed>>,
           sent' \in SUBSET [job : Jobs, at : 0 .. MaxTime], overlapped' \in BOOLEAN
    PROVE  IInv'
  <1>1. /\ NoCall \in [step : Steps, job : Jobs \union {"none"}, confirm : BOOLEAN,
                       at : 0 .. MaxTime, best : Modes]
        /\ CallAllowed(NoCall) /\ CallDated(NoCall)
    BY MaxTimeAssumption
    DEF NoCall, Steps, Modes, CallAllowed, CallDated, Past, IInv, TypeOK
  <1> QED BY <1>1, OwnCallKeeps DEF Return

LEMMA TickKeeps ==
    ASSUME IInv, Tick PROVE IInv'
  <1>1. TypeOK'
    BY MaxTimeAssumption DEF IInv, TypeOK, Tick
  <1>2. CallsInOrder'
    BY MaxTimeAssumption
    DEF IInv, TypeOK, Tick, CallsInOrder, CallAllowed, CallDated, Rank
  <1>3. MarkersInOrder'
    BY MaxTimeAssumption DEF IInv, TypeOK, Tick, MarkersInOrder, Never
  <1> QED BY <1>1, <1>2, <1>3 DEF IInv

LEMMA SwitchModeKeeps ==
    ASSUME IInv, SwitchMode PROVE IInv'
  <1> USE DEF IInv
  <1>1. PICK m \in Modes \ {mode} :
          /\ mode' = m
          /\ call' = [p \in Proc |->
                        IF Active(p) THEN [call[p] EXCEPT !.best = Higher(@, m)]
                        ELSE call[p]]
    BY DEF SwitchMode
  <1>2. UNCHANGED <<now, marker, passed, sent, overlapped>>
    BY DEF SwitchMode
  <1>3. ASSUME NEW p \in Proc
        PROVE  /\ Higher(call[p].best, m) \in Modes
               /\ Rank(call[p].best) <= Rank(Higher(call[p].best, m))
               /\ Rank(m) <= Rank(Higher(call[p].best, m))
               /\ call[p].best # "READ" => Higher(call[p].best, m) # "READ"
               /\ call[p].best = "RUN" => Higher(call[p].best, m) = "RUN"
    <2>1. call[p].best \in Modes
      BY DEF TypeOK
    <2> QED BY <2>1 DEF Modes, Rank, Higher
  <1>4. TypeOK'
    <2>1. call' \in [Proc -> [step : Steps, job : Jobs \union {"none"},
                              confirm : BOOLEAN, at : 0 .. MaxTime, best : Modes]]
      BY <1>1, <1>3 DEF TypeOK
    <2> QED BY <2>1, <1>1, <1>2 DEF TypeOK
  <1>5. CallsInOrder'
    <2> SUFFICES ASSUME NEW p \in Proc
                 PROVE  (CallAllowed(call[p]) /\ CallDated(call[p]))'
      BY DEF CallsInOrder
    <2>1. call'[p] = IF Active(p) THEN [call[p] EXCEPT !.best = Higher(@, m)]
                     ELSE call[p]
      BY <1>1
    <2>2. CallAllowed(call[p]) /\ CallDated(call[p])
      BY DEF CallsInOrder
    <2>3. CASE Active(p)
      <3>1. /\ call'[p].step = call[p].step /\ call'[p].job = call[p].job
            /\ call'[p].confirm = call[p].confirm /\ call'[p].at = call[p].at
            /\ call'[p].best = Higher(call[p].best, m)
        BY <2>1, <2>3 DEF TypeOK
      <3> QED BY <3>1, <2>2, <1>1, <1>2, <1>3 DEF CallAllowed, CallDated, Rank
    <2>4. CASE ~Active(p)
      BY <2>1, <2>2, <2>4, <1>2 DEF CallAllowed, CallDated, Active, Past
    <2> QED BY <2>3, <2>4
  <1>6. MarkersInOrder'
    BY <1>2 DEF MarkersInOrder
  <1> QED BY <1>4, <1>5, <1>6

LEMMA CallKeeps ==
    ASSUME IInv, NEW p \in Proc, Call(p) PROVE IInv'
  <1>1. PICK job \in Jobs, confirm \in BOOLEAN :
          call' = [call EXCEPT ![p] =
             [step |-> "mode", job |-> job, confirm |-> confirm, at |-> 0,
              best |-> mode]]
    BY DEF Call
  <1> DEFINE c == [step |-> "mode", job |-> job, confirm |-> confirm,
                   at |-> 0, best |-> mode]
  <1>2. c \in [step : Steps, job : Jobs \union {"none"}, confirm : BOOLEAN,
               at : 0 .. MaxTime, best : Modes]
    BY MaxTimeAssumption DEF Steps, IInv, TypeOK
  <1>3. CallAllowed(c) /\ CallDated(c)
    <2>1. Rank(mode) <= Rank(mode)
      BY RankFacts DEF IInv, TypeOK
    <2> QED BY <2>1 DEF CallAllowed, CallDated, Past, IInv, TypeOK
  <1>4. UNCHANGED <<mode, now, marker, passed>>
        /\ sent' \in SUBSET [job : Jobs, at : 0 .. MaxTime] /\ overlapped' \in BOOLEAN
    BY DEF Call, IInv, TypeOK
  <1>5. call' = [call EXCEPT ![p] = c]
    BY <1>1
  <1> HIDE DEF c
  <1> QED BY <1>2, <1>3, <1>4, <1>5, OwnCallKeeps

\* The gate lets a call through only in a mode it has seen.
LEMMA PassGateKeeps ==
    ASSUME IInv, NEW p \in Proc, PassGate(p) PROVE IInv'
  <1>1. UNCHANGED <<mode, now, marker, passed>>
        /\ sent' \in SUBSET [job : Jobs, at : 0 .. MaxTime] /\ overlapped' \in BOOLEAN
    BY DEF PassGate, IInv, TypeOK
  <1>2. CASE TierAllows(call[p].job, call[p].confirm)
    <2> DEFINE c == [call[p] EXCEPT !.step = "clock"]
    <2>1. call' = [call EXCEPT ![p] = c]
      BY <1>2 DEF PassGate
    <2>2. call[p] \in [step : Steps, job : Jobs \union {"none"}, confirm : BOOLEAN,
                       at : 0 .. MaxTime, best : Modes]
      BY DEF IInv, TypeOK
    <2>3. /\ c.step = "clock" /\ c.job = call[p].job /\ c.confirm = call[p].confirm
          /\ c.at = call[p].at /\ c.best = call[p].best
      BY <2>2
    <2>4. c \in [step : Steps, job : Jobs \union {"none"}, confirm : BOOLEAN,
                 at : 0 .. MaxTime, best : Modes]
      BY <2>2 DEF Steps
    <2>5. call[p].step = "mode" /\ CallAllowed(call[p]) /\ CallDated(call[p])
      BY DEF PassGate, IInv, CallsInOrder
    <2>6. CallDated(c)
      BY <2>3, <2>5 DEF CallDated
    <2>7. mode \in Modes /\ call[p].best \in Modes /\ Rank(mode) <= Rank(call[p].best)
      BY <2>2, <2>5 DEF CallAllowed, IInv, TypeOK
    <2>8. CallAllowed(c)
      <3>1. mode # "READ" => call[p].best # "READ"
        BY <2>7 DEF Modes, Rank
      <3>2. mode = "RUN" => call[p].best = "RUN"
        BY <2>7 DEF Modes, Rank
      <3> HIDE DEF c
      <3> QED BY <1>2, <2>3, <2>5, <2>7, <3>1, <3>2 DEF CallAllowed, TierAllows
    <2> HIDE DEF c
    <2> QED BY <1>1, <2>1, <2>4, <2>6, <2>8, OwnCallKeeps
  <1>3. CASE ~TierAllows(call[p].job, call[p].confirm)
    BY <1>1, <1>3, ReturnKeeps DEF PassGate
  <1> QED BY <1>2, <1>3

LEMMA ReadClockKeeps ==
    ASSUME IInv, NEW p \in Proc, ReadClock(p) PROVE IInv'
  <1> DEFINE c == [call[p] EXCEPT !.step = "guard", !.at = now]
  <1>1. call[p] \in [step : Steps, job : Jobs \union {"none"}, confirm : BOOLEAN,
                     at : 0 .. MaxTime, best : Modes]
    BY DEF IInv, TypeOK
  <1>2. call' = [call EXCEPT ![p] = c]
    BY <1>1 DEF ReadClock, IInv, TypeOK
  <1>3. /\ c.step = "guard" /\ c.job = call[p].job /\ c.confirm = call[p].confirm
        /\ c.at = now /\ c.best = call[p].best
    BY <1>1
  <1>4. c \in [step : Steps, job : Jobs \union {"none"}, confirm : BOOLEAN,
               at : 0 .. MaxTime, best : Modes]
    BY <1>1 DEF Steps, IInv, TypeOK
  <1>5. call[p].step = "clock" /\ CallAllowed(call[p]) /\ now <= now
    BY MaxTimeAssumption DEF ReadClock, IInv, CallsInOrder, TypeOK
  <1>6. UNCHANGED <<mode, now, marker, passed>>
        /\ sent' \in SUBSET [job : Jobs, at : 0 .. MaxTime] /\ overlapped' \in BOOLEAN
    BY DEF ReadClock, IInv, TypeOK
  <1> HIDE DEF c
  <1>7. CallAllowed(c) /\ CallDated(c)
    BY <1>3, <1>5 DEF CallAllowed, CallDated, Past
  <1> QED BY <1>2, <1>4, <1>6, <1>7, OwnCallKeeps

LEMMA DenyKeeps ==
    ASSUME IInv, NEW p \in Proc, Deny(p) PROVE IInv'
  BY ReturnKeeps DEF Deny, IInv, TypeOK

LEMMA CrashKeeps ==
    ASSUME IInv, NEW p \in Proc, Crash(p) PROVE IInv'
  BY ReturnKeeps DEF Crash, Return, IInv, TypeOK

LEMMA PostFailedKeeps ==
    ASSUME IInv, NEW p \in Proc, PostFailed(p) PROVE IInv'
  BY ReturnKeeps DEF PostFailed, IInv, TypeOK

LEMMA PostServedKeeps ==
    ASSUME IInv, NEW p \in Proc, PostServed(p) PROVE IInv'
  <1>1. call[p].job \in Jobs /\ call[p].at \in 0 .. MaxTime
    BY DEF PostServed, IInv, TypeOK, CallsInOrder, CallAllowed
  <1>2. sent' \in SUBSET [job : Jobs, at : 0 .. MaxTime]
    BY <1>1 DEF PostServed, IInv, TypeOK
  <1> QED BY <1>2, ReturnKeeps DEF PostServed, IInv, TypeOK

\* A call let through is remembered, and nothing remembered is forgotten.
LEMMA AdmitKeeps ==
    ASSUME IInv, NEW p \in Proc, Admit(p) PROVE IInv'
  <1> DEFINE j == call[p].job
             t == call[p].at
             last == IF passed[j] < t THEN t ELSE passed[j]
  <1>1. call[p] \in [step : Steps, job : Jobs \union {"none"}, confirm : BOOLEAN,
                     at : 0 .. MaxTime, best : Modes]
    BY DEF IInv, TypeOK
  <1>2. call[p].step = "guard" /\ CallAllowed(call[p]) /\ CallDated(call[p])
    BY DEF Admit, IInv, CallsInOrder
  <1>3. j \in Jobs /\ t \in 0 .. MaxTime /\ t <= now
    BY <1>1, <1>2 DEF CallAllowed, CallDated
  <1>4. passed \in [Jobs -> Never .. MaxTime] /\ now \in 0 .. MaxTime
        /\ \A job \in Jobs : passed[job] <= now
    BY DEF IInv, TypeOK, MarkersInOrder
  <1>5. last \in Never .. MaxTime /\ last # Never /\ t <= last /\ passed[j] <= last
        /\ last <= now
    BY <1>3, <1>4, MaxTimeAssumption DEF Never
  <1>6. /\ passed' = [passed EXCEPT ![j] = last]
        /\ call' = [call EXCEPT ![p].step = "truncate"]
        /\ UNCHANGED <<mode, now, marker, sent, overlapped>>
    BY DEF Admit
  <1>7. /\ call'[p].step = "truncate" /\ call'[p].job = j
        /\ call'[p].confirm = call[p].confirm /\ call'[p].at = t
        /\ call'[p].best = call[p].best
    BY <1>1, <1>6 DEF IInv, TypeOK
  <1>8. passed'[j] = last /\ \A job \in Jobs : job # j => passed'[job] = passed[job]
    BY <1>3, <1>4, <1>6
  <1> HIDE DEF j, t, last
  <1>9. TypeOK'
    <2>1. passed' \in [Jobs -> Never .. MaxTime]
      BY <1>4, <1>5, <1>6
    <2>2. call' \in [Proc -> [step : Steps, job : Jobs \union {"none"},
                              confirm : BOOLEAN, at : 0 .. MaxTime, best : Modes]]
      BY <1>6 DEF IInv, TypeOK, Steps
    <2> QED BY <2>1, <2>2, <1>6 DEF IInv, TypeOK
  <1>10. CallsInOrder'
    <2> SUFFICES ASSUME NEW q \in Proc
                 PROVE  (CallAllowed(call[q]) /\ CallDated(call[q]))'
      BY DEF CallsInOrder
    <2>1. CASE q = p
      <3>1. CallAllowed(call[p])'
        BY <1>2, <1>3, <1>6, <1>7 DEF CallAllowed, Past, Rank, j
      <3>2. CallDated(call[p])'
        BY <1>3, <1>5, <1>6, <1>7, <1>8 DEF CallDated
      <3> QED BY <2>1, <3>1, <3>2
    <2>2. CASE q # p
      <3>1. call'[q] = call[q]
        BY <2>2, <1>6 DEF IInv, TypeOK
      <3>2. CallAllowed(call[q]) /\ CallDated(call[q]) /\ call[q].at \in 0 .. MaxTime
        BY DEF IInv, CallsInOrder, TypeOK
      <3>3. CallAllowed(call[q])'
        BY <3>1, <3>2, <1>6 DEF CallAllowed, Past, Rank
      <3>4. CASE call[q].step \in {"truncate", "stamp", "post"}
        <4>1. call[q].job \in Jobs
          BY <3>2, <3>4 DEF CallAllowed
        <4>2. CASE call[q].job = j
          BY <3>1, <3>2, <3>3, <3>4, <4>2, <1>3, <1>4, <1>5, <1>6, <1>8, MaxTimeAssumption
          DEF CallDated, Never
        <4>3. CASE call[q].job # j
          BY <3>1, <3>2, <3>3, <3>4, <4>1, <4>3, <1>6, <1>8 DEF CallDated
        <4> QED BY <3>3, <4>2, <4>3
      <3>5. CASE call[q].step \notin {"truncate", "stamp", "post"}
        BY <3>1, <3>2, <3>3, <3>5, <1>6 DEF CallDated
      <3> QED BY <3>4, <3>5
    <2> QED BY <2>1, <2>2
  <1>11. MarkersInOrder'
    <2> SUFFICES ASSUME NEW job \in Jobs
                 PROVE  /\ passed'[job] <= now
                        /\ marker[job].form = "stamp" =>
                             passed'[job] # Never /\ marker[job].at <= passed'[job]
      BY <1>6 DEF MarkersInOrder
    <2>1. /\ passed[job] <= now
          /\ marker[job].form = "stamp" =>
               passed[job] # Never /\ marker[job].at <= passed[job]
      BY DEF IInv, MarkersInOrder
    <2>2. CASE job # j
      BY <2>1, <2>2, <1>8
    <2>3. CASE job = j
      <3>1. marker[j].at \in 0 .. MaxTime
        BY <1>3, MaxTimeAssumption DEF IInv, TypeOK, Missing, Empty, Stamp
      <3> QED BY <2>1, <2>3, <3>1, <1>3, <1>4, <1>5, <1>8, MaxTimeAssumption DEF Never
    <2> QED BY <2>2, <2>3
  <1> QED BY <1>9, <1>10, <1>11 DEF IInv

\* The two writes to the marker: the call stays a call let through, and the marker
\* that results is empty or dated as the call is.
LEMMA MarkerWriteKeeps ==
    ASSUME IInv, NEW p \in Proc, NEW step \in {"stamp", "post"},
           call[p].step \in {"truncate", "stamp"},
           NEW m \in {Empty, Stamp(call[p].at)},
           marker' = [marker EXCEPT ![call[p].job] = m],
           call' = [call EXCEPT ![p].step = step],
           UNCHANGED <<mode, now, passed, sent, overlapped>>
    PROVE  IInv'
  <1> DEFINE j == call[p].job
             t == call[p].at
  <1>1. call[p] \in [step : Steps, job : Jobs \union {"none"}, confirm : BOOLEAN,
                     at : 0 .. MaxTime, best : Modes]
    BY DEF IInv, TypeOK
  <1>2. CallAllowed(call[p]) /\ CallDated(call[p])
    BY DEF IInv, CallsInOrder
  <1>3. j \in Jobs /\ t \in 0 .. MaxTime /\ passed[j] # Never /\ t <= passed[j]
    BY <1>1, <1>2 DEF CallAllowed, CallDated
  <1>4. /\ call'[p].step = step /\ call'[p].job = j
        /\ call'[p].confirm = call[p].confirm /\ call'[p].at = t
        /\ call'[p].best = call[p].best
    BY <1>1 DEF IInv, TypeOK
  <1>5. TypeOK'
    <2>1. marker' \in [Jobs -> {Missing, Empty} \union {Stamp(u) : u \in 0 .. MaxTime}]
      BY <1>3 DEF IInv, TypeOK
    <2>2. call' \in [Proc -> [step : Steps, job : Jobs \union {"none"},
                              confirm : BOOLEAN, at : 0 .. MaxTime, best : Modes]]
      BY DEF IInv, TypeOK, Steps
    <2> QED BY <2>1, <2>2 DEF IInv, TypeOK
  <1>6. CallsInOrder'
    <2> SUFFICES ASSUME NEW q \in Proc
                 PROVE  (CallAllowed(call[q]) /\ CallDated(call[q]))'
      BY DEF CallsInOrder
    <2>1. CASE q = p
      BY <2>1, <1>2, <1>3, <1>4 DEF CallAllowed, CallDated, Past, Rank
    <2>2. CASE q # p
      <3>1. call'[q] = call[q]
        BY <2>2 DEF IInv, TypeOK
      <3> QED BY <3>1 DEF IInv, CallsInOrder, CallAllowed, CallDated, Rank
    <2> QED BY <2>1, <2>2
  <1>7. MarkersInOrder'
    <2> SUFFICES ASSUME NEW job \in Jobs
                 PROVE  /\ passed[job] <= now
                        /\ marker'[job].form = "stamp" =>
                             passed[job] # Never /\ marker'[job].at <= passed[job]
      BY DEF MarkersInOrder
    <2>1. CASE job # j
      BY <2>1 DEF IInv, TypeOK, MarkersInOrder
    <2>2. CASE job = j
      <3>1. marker'[j] = m
        BY <1>3 DEF IInv, TypeOK
      <3>2. m.form = "stamp" => m.at = t
        BY DEF Empty, Stamp
      <3> QED BY <2>2, <3>1, <3>2, <1>3 DEF IInv, MarkersInOrder
    <2> QED BY <2>1, <2>2
  <1> QED BY <1>5, <1>6, <1>7 DEF IInv

LEMMA TruncateKeeps ==
    ASSUME IInv, NEW p \in Proc, Truncate(p) PROVE IInv'
  BY MarkerWriteKeeps DEF Truncate

LEMMA WriteStampKeeps ==
    ASSUME IInv, NEW p \in Proc, WriteStamp(p) PROVE IInv'
  BY MarkerWriteKeeps DEF WriteStamp

LEMMA NextIInv == IInv /\ [Next]_vars => IInv'
  <1> SUFFICES ASSUME IInv, [Next]_vars PROVE IInv'
    OBVIOUS
  <1>1. CASE Tick
    BY <1>1, TickKeeps
  <1>2. CASE SwitchMode
    BY <1>2, SwitchModeKeeps
  <1>3. ASSUME NEW p \in Proc, Call(p) PROVE IInv'
    BY <1>3, CallKeeps
  <1>4. ASSUME NEW p \in Proc, Crash(p) PROVE IInv'
    BY <1>4, CrashKeeps
  <1>5. ASSUME NEW p \in Proc, Advance(p) PROVE IInv'
    <2>1. CASE PassGate(p)
      BY <2>1, PassGateKeeps
    <2>2. CASE ReadClock(p)
      BY <2>2, ReadClockKeeps
    <2>3. CASE Deny(p)
      BY <2>3, DenyKeeps
    <2>4. CASE Admit(p)
      BY <2>4, AdmitKeeps
    <2>5. CASE Truncate(p)
      BY <2>5, TruncateKeeps
    <2>6. CASE WriteStamp(p)
      BY <2>6, WriteStampKeeps
    <2>7. CASE PostServed(p)
      BY <2>7, PostServedKeeps
    <2>8. CASE PostFailed(p)
      BY <2>8, PostFailedKeeps
    <2> QED BY <1>5, <2>1, <2>2, <2>3, <2>4, <2>5, <2>6, <2>7, <2>8 DEF Advance
  <1>6. CASE UNCHANGED vars
    BY <1>6 DEF vars, IInv, TypeOK, CallsInOrder, CallAllowed, CallDated,
                MarkersInOrder, Rank
  <1> QED BY <1>1, <1>2, <1>3, <1>4, <1>5, <1>6 DEF Next

-----------------------------------------------------------------------------
(* What follows. *)

\* The calls and the markers stay in order in every behaviour of run_scheduled_task.
THEOREM Invariance == Spec => []IInv
  BY InitIInv, NextIInv, PTL DEF Spec

\* Every state of run_scheduled_task has the types declared.
THEOREM TypeCorrect == Spec => []TypeOK
  <1>1. IInv => TypeOK
    BY DEF IInv
  <1> QED BY <1>1, Invariance, PTL

\* However many turns overlap, a marker that still denies goes back to a call let
\* through within the window: no crash between truncate and write, and no denied
\* call, keeps a job denied.
THEOREM DenialsHaveACause == Spec => []DenialHasACause
  <1>1. IInv => DenialHasACause
    <2> SUFFICES ASSUME IInv, NEW job \in Jobs, Fresh(marker[job], now)
                 PROVE  passed[job] # Never /\ now - passed[job] < Window
      BY DEF DenialHasACause
    <2>1. marker[job].form = "stamp" /\ now - marker[job].at < Window
      BY DEF Fresh
    <2>2. passed[job] # Never /\ marker[job].at <= passed[job]
      BY <2>1 DEF IInv, MarkersInOrder
    <2>3. marker[job].at \in Int /\ passed[job] \in Int /\ now \in Int
      BY <2>1, MaxTimeAssumption DEF IInv, TypeOK, Missing, Empty, Stamp, Never
    <2> QED BY <2>1, <2>2, <2>3, WindowAssumption
  <1> QED BY <1>1, Invariance, PTL

\* Whatever other turns and the operator's mode switches do meanwhile, a trigger
\* goes out only of a call that saw a mode which allows it, and a DESTRUCTIVE job
\* only out of a confirmed call that saw RUN.
THEOREM TriggersAreAuthorised == Spec => TriggerIsAuthorised
  <1>1. IInv /\ [Next]_vars =>
          [\A p \in Proc : PostServed(p) =>
             /\ call[p].best # "READ"
             /\ JOB_REGISTRY[call[p].job] = DESTRUCTIVE =>
                  call[p].confirm /\ call[p].best = "RUN"]_vars
    BY DEF IInv, CallsInOrder, CallAllowed, Past, PostServed
  <1> QED BY <1>1, Invariance, PTL DEF Spec, TriggerIsAuthorised

-----------------------------------------------------------------------------
(* For as long as no two turns overlap. *)

OneActive == \A p, q \in Proc : Active(p) /\ Active(q) => p = q

\* At t the marker still stands for the trigger s, or the window of s is over.
Covered(s, t) ==
    \/ marker[s.job].form = "stamp" /\ s.at <= marker[s.job].at
    \/ t - s.at >= Window

\* What a call knows of the triggers sent before it: at the guard, that the marker
\* will tell; past it, that their window is over; at the post, that the marker is
\* its own.
Informed(c) ==
    /\ c.step = "guard" => \A s \in sent : Covered(s, c.at)
    /\ c.step \in {"truncate", "stamp", "post"} =>
         \A s \in sent : s.job = c.job => c.at - s.at >= Window
    /\ c.step = "post" => marker[c.job] = Stamp(c.at)

TriggersCovered == \A s \in sent : Covered(s, now)
CallsInformed == \A p \in Proc : Informed(call[p])

\* Every call but one is idle, before a step and after it: then the one is all
\* that CallsInformed speaks of.
LEMMA OneActiveKeeps ==
    ASSUME IInv, OneActive, [Next]_vars, ~overlapped'
    PROVE  /\ ~overlapped
           /\ OneActive'
           /\ \A p \in Proc : Call(p) \/ Active(p) =>
                \A q \in Proc : q # p => call'[q].step = "idle"
  <1>1. call \in [Proc -> [step : Steps, job : Jobs \union {"none"}, confirm : BOOLEAN,
                          at : 0 .. MaxTime, best : Modes]]
    BY DEF IInv, TypeOK
  <1>2. ASSUME UNCHANGED overlapped,
               \A p \in Proc : call'[p].step # "idle" => Active(p)
        PROVE  /\ ~overlapped /\ OneActive'
               /\ \A p \in Proc : Active(p) =>
                    \A q \in Proc : q # p => call'[q].step = "idle"
    BY <1>2 DEF OneActive, Active
  <1>3. CASE \E p \in Proc : Call(p)
    <2>1. PICK p \in Proc : Call(p)
      BY <1>3
    <2>2. \A q \in Proc : call[q].step = "idle"
      BY <2>1 DEF Call, Active
    <2>3. ~overlapped /\ \A q \in Proc : q # p => call'[q].step = "idle"
      BY <1>1, <2>1, <2>2 DEF Call
    <2>4. \A q \in Proc : Call(q) => call'[q].step = "mode"
      BY <1>1 DEF Call
    <2>5. \A q \in Proc : Call(q) \/ Active(q) => q = p
      BY <2>2, <2>3, <2>4 DEF Active
    <2> QED BY <2>3, <2>5 DEF OneActive, Active
  <1>4. CASE ~\E p \in Proc : Call(p)
    <2>1. UNCHANGED overlapped
      BY <1>4 DEF Next, vars, Tick, SwitchMode, Crash, Advance, PassGate, ReadClock,
                  Deny, Admit, Truncate, WriteStamp, PostServed, PostFailed
    <2>2. ASSUME NEW p \in Proc, call'[p].step # "idle" PROVE Active(p)
      BY <1>1, <1>4, <2>2
      DEF Next, vars, Tick, SwitchMode, Crash, Advance, PassGate, ReadClock, Deny,
          Admit, Truncate, WriteStamp, PostServed, PostFailed, Return, NoCall, Active
    <2> QED BY <1>2, <1>4, <2>1, <2>2
  <1> QED BY <1>3, <1>4

LEMMA NextCovered ==
    ASSUME OneActive, ~overlapped', IInv, TriggersCovered, CallsInformed, [Next]_vars
    PROVE  TriggersCovered' /\ CallsInformed'
  <1> DEFINE Alone(p) == \A q \in Proc : q # p => call'[q].step = "idle"
  <1>0. ASSUME NEW p \in Proc, Call(p) \/ Active(p) PROVE Alone(p)
    BY <1>0, OneActiveKeeps
  <1>1. ASSUME NEW s \in sent
        PROVE  s.job \in Jobs /\ s.at \in 0 .. MaxTime
    BY DEF IInv, TypeOK
  <1>2. now \in 0 .. MaxTime /\ Window \in Int /\ MaxTime \in Int
    BY WindowAssumption, MaxTimeAssumption DEF IInv, TypeOK
  <1>3. ASSUME NEW p \in Proc
        PROVE  /\ call[p] \in [step : Steps, job : Jobs \union {"none"},
                               confirm : BOOLEAN, at : 0 .. MaxTime, best : Modes]
               /\ call[p].at \in 0 .. MaxTime /\ call[p].at <= now
               /\ call[p].step # "idle" => call[p].job \in Jobs
               /\ Informed(call[p])
    BY DEF IInv, TypeOK, CallsInOrder, CallAllowed, CallDated, CallsInformed
  <1>4. ASSUME UNCHANGED <<marker, sent>>, now <= now', now' \in 0 .. MaxTime
        PROVE  TriggersCovered'
    BY <1>1, <1>2, <1>4 DEF TriggersCovered, Covered
  <1>5. ASSUME UNCHANGED <<marker, sent>>,
               \A p \in Proc : call'[p].step = call[p].step
                               /\ call'[p].job = call[p].job
                               /\ call'[p].at = call[p].at
        PROVE  CallsInformed'
    BY <1>5 DEF CallsInformed, Informed, Covered
  <1>6. ASSUME NEW p \in Proc, Alone(p), call'[p].step \in {"idle", "mode", "clock"}
        PROVE  CallsInformed'
    BY <1>6 DEF CallsInformed, Informed
  <1>7. CASE Tick
    BY <1>2, <1>4, <1>5, <1>7 DEF Tick, IInv, TypeOK
  <1>8. CASE SwitchMode
    <2>1. UNCHANGED <<now, marker, sent>>
      BY <1>8 DEF SwitchMode
    <2>2. ASSUME NEW p \in Proc
          PROVE  /\ call'[p].step = call[p].step /\ call'[p].job = call[p].job
                 /\ call'[p].at = call[p].at
      BY <1>3, <1>8 DEF SwitchMode
    <2> QED BY <2>1, <2>2, <1>2, <1>4, <1>5
  <1>9. ASSUME NEW p \in Proc,
               Call(p) \/ Crash(p) \/ PassGate(p) \/ Deny(p) \/ PostFailed(p)
        PROVE  TriggersCovered' /\ CallsInformed'
    <2>1. UNCHANGED <<now, marker, sent>>
      BY <1>9 DEF Call, Crash, PassGate, Deny, PostFailed
    <2>2. call'[p].step \in {"idle", "mode", "clock"}
      BY <1>3, <1>9
      DEF Call, Crash, PassGate, Deny, PostFailed, Return, NoCall, IInv, TypeOK
    <2>3. Alone(p)
      BY <1>0, <1>9 DEF Crash, PassGate, Deny, PostFailed, Active
    <2> HIDE DEF Alone
    <2> QED BY <2>1, <2>2, <2>3, <1>2, <1>4, <1>6
  <1>10. ASSUME NEW p \in Proc, ReadClock(p)
         PROVE  TriggersCovered' /\ CallsInformed'
    <2>1. UNCHANGED <<now, marker, sent>>
      BY <1>10 DEF ReadClock
    <2>2. call'[p].step = "guard" /\ call'[p].at = now
      BY <1>3, <1>10 DEF ReadClock, IInv, TypeOK
    <2>4. Alone(p)
      BY <1>0, <1>10 DEF ReadClock, Active
    <2>3. CallsInformed'
      BY <2>1, <2>2, <2>4
      DEF CallsInformed, Informed, TriggersCovered, Covered
    <2> QED BY <2>1, <2>3, <1>2, <1>4
  <1>11. ASSUME NEW p \in Proc, Admit(p)
         PROVE  TriggersCovered' /\ CallsInformed'
    <2>1. UNCHANGED <<now, marker, sent>>
      BY <1>11 DEF Admit
    <2>2. call'[p].step = "truncate" /\ call'[p].job = call[p].job
          /\ call'[p].at = call[p].at
      BY <1>3, <1>11 DEF Admit, IInv, TypeOK
    <2>3. ASSUME NEW s \in sent, s.job = call[p].job
          PROVE  call[p].at - s.at >= Window
      <3>1. Covered(s, call[p].at) /\ ~Fresh(marker[s.job], call[p].at)
        BY <1>3, <1>11, <2>3 DEF Admit, Informed
      <3>2. marker[s.job].at \in 0 .. MaxTime
        BY <1>1, <1>2 DEF IInv, TypeOK, Missing, Empty, Stamp
      <3> QED BY <3>1, <3>2, <1>1, <1>2, <1>3 DEF Covered, Fresh
    <2>5. Alone(p)
      BY <1>0, <1>11 DEF Admit, Active
    <2>4. CallsInformed'
      BY <2>1, <2>2, <2>3, <2>5 DEF CallsInformed, Informed
    <2> QED BY <2>1, <2>4, <1>2, <1>4
  <1>12. ASSUME NEW p \in Proc, Truncate(p) \/ WriteStamp(p)
         PROVE  TriggersCovered' /\ CallsInformed'
    <2>1. UNCHANGED <<now, sent>>
      BY <1>12 DEF Truncate, WriteStamp
    <2>2. /\ call'[p].step \in {"stamp", "post"} /\ call'[p].job = call[p].job
          /\ call'[p].at = call[p].at
          /\ call[p].step \in {"truncate", "stamp"} /\ call[p].job \in Jobs
      BY <1>3, <1>12 DEF Truncate, WriteStamp, IInv, TypeOK
    <2>3. /\ call'[p].step = "post" => marker'[call[p].job] = Stamp(call[p].at)
          /\ \A job \in Jobs : job # call[p].job => marker'[job] = marker[job]
      BY <1>3, <1>12, <2>2 DEF Truncate, WriteStamp, IInv, TypeOK
    <2>4. TriggersCovered'
      <3> SUFFICES ASSUME NEW s \in sent PROVE Covered(s, now)'
        BY <2>1 DEF TriggersCovered
      <3>1. CASE s.job # call[p].job
        BY <3>1, <2>1, <2>3, <1>1 DEF TriggersCovered, Covered
      <3>2. CASE s.job = call[p].job
        <4>1. call[p].at - s.at >= Window /\ call[p].at <= now
          BY <3>2, <2>2, <1>3 DEF Informed
        <4> QED BY <4>1, <2>1, <1>1, <1>2, <1>3 DEF Covered
      <3> QED BY <3>1, <3>2
    <2>6. Alone(p)
      BY <1>0, <1>12 DEF Truncate, WriteStamp, Active
    <2>5. CallsInformed'
      BY <1>3, <2>1, <2>2, <2>3, <2>6 DEF CallsInformed, Informed
    <2> QED BY <2>4, <2>5
  <1>13. ASSUME NEW p \in Proc, PostServed(p)
         PROVE  TriggersCovered' /\ CallsInformed'
    <2>1. UNCHANGED <<now, marker>> /\ call'[p].step = "idle"
      BY <1>3, <1>13 DEF PostServed, Return, NoCall, IInv, TypeOK
    <2>2. marker[call[p].job] = Stamp(call[p].at)
      BY <1>3, <1>13 DEF PostServed, Informed
    <2>3. ASSUME NEW s \in sent' PROVE Covered(s, now)'
      <3>1. CASE s \in sent
        BY <3>1, <2>1 DEF TriggersCovered, Covered
      <3>2. CASE s = [job |-> call[p].job, at |-> call[p].at]
        BY <3>2, <2>1, <2>2, <1>2, <1>3 DEF Covered, Stamp
      <3> QED BY <3>1, <3>2, <1>13 DEF PostServed
    <2>4. Alone(p)
      BY <1>0, <1>13 DEF PostServed, Active
    <2>5. CallsInformed'
      <3> HIDE DEF Alone
      <3> QED BY <2>1, <2>4, <1>6
    <2> QED BY <2>3, <2>5 DEF TriggersCovered
  <1>14. CASE UNCHANGED vars
    BY <1>2, <1>4, <1>5, <1>14 DEF vars
  <1> QED BY <1>7, <1>8, <1>9, <1>10, <1>11, <1>12, <1>13, <1>14 DEF Next, Advance

\* For as long as no two turns have overlapped, for any window and any number of
\* crashes, lost answers and retries, no call is let through while its job was
\* triggered within the window.
THEOREM RetriesAreDenied == Spec => TriggeredMeansDenial
  <1> DEFINE Alone == ~overlapped => OneActive /\ TriggersCovered /\ CallsInformed
  <1>1. Init => Alone
    BY DEF Init, OneActive, Active, TriggersCovered, CallsInformed, Informed, NoCall
  <1>2. IInv /\ Alone /\ [Next]_vars => Alone'
    <2> SUFFICES ASSUME IInv, Alone, [Next]_vars, ~overlapped' PROVE Alone'
      OBVIOUS
    <2>1. ~overlapped
      BY DEF Next, vars, Tick, SwitchMode, Call, Crash, Advance, PassGate, ReadClock,
             Deny, Admit, Truncate, WriteStamp, PostServed, PostFailed, IInv, TypeOK
    <2>2. OneActive /\ TriggersCovered /\ CallsInformed
      BY <2>1
    <2>3. OneActive'
      BY <2>2, OneActiveKeeps
    <2> QED BY <2>2, <2>3, NextCovered
  <1>3. IInv /\ Alone /\ [Next]_vars =>
          [~overlapped => \A p \in Proc :
             Admit(p) => ~Triggered(call[p].job, call[p].at)]_vars
    <2> SUFFICES ASSUME IInv, CallsInformed, NEW p \in Proc, Admit(p),
                        NEW s \in sent, s.job = call[p].job,
                        call[p].at - s.at < Window
                 PROVE  FALSE
      BY DEF Triggered
    <2>1. Covered(s, call[p].at) /\ ~Fresh(marker[s.job], call[p].at)
      BY DEF Admit, CallsInformed, Informed
    <2>2. /\ s.job \in Jobs /\ s.at \in Int /\ call[p].at \in Int
          /\ marker[s.job].at \in Int
      BY DEF IInv, TypeOK, Missing, Empty, Stamp
    <2> QED BY <2>1, <2>2, WindowAssumption DEF Covered, Fresh
  <1> HIDE DEF Alone
  <1> QED BY <1>1, <1>2, <1>3, Invariance, PTL DEF Spec, TriggeredMeansDenial

=============================================================================
