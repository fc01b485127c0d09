----------------------- MODULE ConfirmedChanges_proofs -----------------------
(***************************************************************************)
(* What holds of the confirmed changes for any rows, tools and number of   *)
(* calls.                                                                  *)
(***************************************************************************)
EXTENDS ConfirmedChanges, FiniteSetTheorems, TLAPS

Calls ==
    [step : {"new", "mode", "post", "over"},
     tool : AllTools \union {"none"},
     item : Item \union {NoItem}, confirm : BOOLEAN, flying : BOOLEAN,
     answer : Answers, run : BOOLEAN, served : 0 .. 2]

\* A call makes its change once at most, never before it is sent, and it is sent only
\* confirmed and after RUN was seen.
CallFits(c) ==
    /\ c.tool \in ReviewTools => c.item \in Item
    /\ c.step # "over" => c.served = 0 /\ ~c.flying /\ c.answer = "none"
    /\ c.step = "post" \/ c.served > 0 \/ c.flying => c.confirm /\ c.run
    /\ c.served <= 1
    /\ c.flying => c.served = 0
    /\ c.answer = "ok" => c.served = 1
    /\ c.answer = "denied" => c.served = 0 /\ ~c.flying

\* A call in progress remembers the mode in force now.
CallIsFresh(c) == c.step \in {"mode", "post"} /\ mode = "RUN" => c.run

CallsFit == \A n \in Numbers : CallFits(call[n]) /\ CallIsFresh(call[n])

\* A row shows for good what a served call decided.
RowShows(c) ==
    c.served > 0 =>
      /\ c.tool \in ApproveTools => item[c.item] = "approved"
      /\ c.tool \in RejectTools => item[c.item] = "rejected"

RowsShowDecisions == \A n \in Numbers : RowShows(call[n])

\* Call c approved row i.
Approves(c, i) == c.item = i /\ c.tool \in ApproveTools /\ c.served > 0

\* Nobody approves a row that somebody has approved.
ApprovedOnce(i) ==
    /\ byHand[i] = 1 =>
         item[i] = "approved" /\ \A n \in Numbers : ~Approves(call[n], i)
    /\ \A m, n \in Numbers : Approves(call[m], i) /\ Approves(call[n], i) => m = n
    /\ item[i] = "approved" =>
         byHand[i] = 1 \/ \E n \in Numbers : Approves(call[n], i)

RowsApprovedOnce == \A i \in Item : ApprovedOnce(i)

IInv == TypeOK /\ CallsFit /\ RowsShowDecisions /\ RowsApprovedOnce /\ SentMeansSent

-----------------------------------------------------------------------------
LEMMA InitIInv == Init => IInv
  <1> SUFFICES ASSUME Init PROVE IInv
    OBVIOUS
  <1>1. NotMade \in Calls /\ CallFits(NotMade) /\ CallIsFresh(NotMade)
        /\ ~(NotMade.served > 0)
    BY DEF NotMade, Calls, CallFits, CallIsFresh, Answers, ReviewTools, ApproveTools,
           RejectTools
  <1>2. /\ call = [n \in Numbers |-> NotMade]
        /\ byHand = [i \in Item |-> 0]
        /\ item = [i \in Item |-> IF i[1] = "reply draft" THEN "absent" ELSE "pending"]
        /\ outbound = [n \in Numbers |-> "none"]
        /\ told = [n \in Numbers |-> "none"]
        /\ mode = "READ"
    BY DEF Init
  <1> HIDE DEF NotMade
  <1>0. \A n \in Numbers : call[n] = NotMade /\ ~(call[n].served > 0)
    BY <1>1, <1>2
  <1>3. TypeOK
    BY <1>1, <1>2 DEF TypeOK, Calls, Modes, Deliveries
  <1>4. CallsFit
    BY <1>0, <1>1 DEF CallsFit
  <1>5. RowsShowDecisions
    BY <1>0 DEF RowsShowDecisions, RowShows
  <1>6. RowsApprovedOnce
    <2>1. \A i \in Item : byHand[i] = 0 /\ item[i] # "approved"
      BY <1>2
    <2> QED BY <1>0, <2>1 DEF RowsApprovedOnce, ApprovedOnce, Approves
  <1>7. SentMeansSent
    BY <1>2 DEF SentMeansSent
  <1> QED BY <1>3, <1>4, <1>5, <1>6, <1>7 DEF IInv

-----------------------------------------------------------------------------
(* The two kinds of step a call takes. *)

\* A step that changes nothing but its own call, and leaves what the call changed.
LEMMA LocalStepKeeps ==
    ASSUME IInv, NEW n \in Numbers, NEW CONSTANT c \in Calls,
           call' = [call EXCEPT ![n] = c],
           UNCHANGED <<mode, item, byHand, outbound, told>>,
           CallFits(c), CallIsFresh(c),
           c.served = call[n].served,
           c.served > 0 => c.tool = call[n].tool /\ c.item = call[n].item
    PROVE  IInv'
  <1>1. call \in [Numbers -> Calls]
    BY DEF IInv, TypeOK, Calls
  <1>2. call'[n] = c /\ \A m \in Numbers \ {n} : call'[m] = call[m]
    BY <1>1
  <1>3. TypeOK'
    <2>1. call' \in [Numbers -> Calls]
      BY <1>1
    <2> QED BY <2>1 DEF IInv, TypeOK, Calls
  <1>4. CallsFit'
    BY <1>2 DEF IInv, CallsFit, CallIsFresh
  <1>5. RowsShowDecisions'
    BY <1>2 DEF IInv, RowsShowDecisions, RowShows
  <1>6. \A m \in Numbers, i \in Item : Approves(call'[m], i) <=> Approves(call[m], i)
    <2> SUFFICES ASSUME NEW m \in Numbers, NEW i \in Item
                 PROVE  Approves(call'[m], i) <=> Approves(call[m], i)
      OBVIOUS
    <2>1. CASE m = n
      <3>1. c.served \in Nat
        BY DEF Calls
      <3>2. call'[m] = c /\ call[m] = call[n]
        BY <1>2, <2>1
      <3> QED BY <3>1, <3>2 DEF Approves
    <2>2. CASE m # n
      BY <1>2, <2>2
    <2> QED BY <2>1, <2>2
  <1>7. RowsApprovedOnce'
    BY <1>6 DEF IInv, RowsApprovedOnce, ApprovedOnce
  <1>8. SentMeansSent'
    <2> SUFFICES ASSUME NEW m \in Numbers
                 PROVE  /\ told'[m] = "sent" => outbound'[m] = "sent"
                        /\ outbound'[m] # "none" =>
                             call'[m].served > 0 /\ call'[m].tool \in SendingTools
      BY DEF SentMeansSent
    <2>1. /\ told[m] = "sent" => outbound[m] = "sent"
          /\ outbound[m] # "none" => call[m].served > 0 /\ call[m].tool \in SendingTools
      BY DEF IInv, SentMeansSent
    <2>2. CASE m = n
      BY <1>2, <2>1, <2>2
    <2>3. CASE m # n
      BY <1>2, <2>1, <2>3
    <2> QED BY <2>2, <2>3
  <1> QED BY <1>3, <1>4, <1>5, <1>7, <1>8 DEF IInv

LEMMA ToolFacts ==
    /\ ApproveTools \subseteq ReviewTools /\ RejectTools \subseteq ReviewTools
    /\ ApproveTools \intersect RejectTools = {}
    /\ "none" \notin ReviewTools
  BY DEF ReviewTools, ApproveTools, RejectTools

\* Serving decides the row of the call, if it reviews one, out of pending; every
\* other row, and every row decided before, stays as it is.
LEMMA ServeRows ==
    ASSUME TypeOK, NEW n \in Numbers, CallFits(call[n]), Serve(n)
    PROVE  /\ item' \in [Item -> {"absent", "pending", "approved", "rejected"}]
           /\ \A i \in Item : item[i] # "pending" => item'[i] = item[i]
           /\ \A i \in Item : item'[i] = "approved" /\ item[i] # "approved" =>
                call[n].tool \in ApproveTools /\ call[n].item = i
           /\ call[n].tool \in ApproveTools =>
                /\ call[n].item \in Item
                /\ item[call[n].item] = "pending" /\ item'[call[n].item] = "approved"
           /\ call[n].tool \in RejectTools =>
                call[n].item \in Item /\ item'[call[n].item] = "rejected"
  <1> DEFINE t == call[n].tool
             r == call[n].item
  <1>1. item \in [Item -> {"absent", "pending", "approved", "rejected"}]
    BY DEF TypeOK
  <1>2. t \in ReviewTools => r \in Item /\ item[r] = "pending"
    BY DEF Serve, Servable, CallFits
  <1>3. item' = IF t \in ApproveTools THEN [item EXCEPT ![r] = "approved"]
                ELSE IF t \in RejectTools THEN [item EXCEPT ![r] = "rejected"]
                ELSE item
    BY DEF Serve, ItemAfter
  <1> HIDE DEF t, r
  <1>4. CASE t \in ApproveTools
    <2>1. t \notin RejectTools /\ r \in Item /\ item[r] = "pending"
          /\ item' = [item EXCEPT ![r] = "approved"]
      BY <1>2, <1>3, <1>4, ToolFacts
    <2>2. item'[r] = "approved" /\ \A i \in Item \ {r} : item'[i] = item[i]
      BY <1>1, <2>1
    <2> QED BY <1>1, <1>4, <2>1, <2>2 DEF t, r
  <1>5. CASE t \in RejectTools
    <2>1. t \notin ApproveTools /\ r \in Item /\ item[r] = "pending"
          /\ item' = [item EXCEPT ![r] = "rejected"]
      BY <1>2, <1>3, <1>5, ToolFacts
    <2>2. item'[r] = "rejected" /\ \A i \in Item \ {r} : item'[i] = item[i]
      BY <1>1, <2>1
    <2> QED BY <1>1, <1>5, <2>1, <2>2 DEF t, r
  <1>6. CASE t \notin ApproveTools /\ t \notin RejectTools
    BY <1>1, <1>3, <1>6 DEF t, r
  <1> QED BY <1>4, <1>5, <1>6

\* A step that makes the change of its call: the only one of the call.
LEMMA ServeStepKeeps ==
    ASSUME IInv, NEW n \in Numbers, NEW CONSTANT c \in Calls,
           call' = [call EXCEPT ![n] = c], Serve(n),
           UNCHANGED <<mode, byHand>>,
           CallFits(c), CallIsFresh(c),
           call[n].served = 0, c.served = 1,
           c.tool = call[n].tool, c.item = call[n].item,
           NEW CONSTANT st \in {"queued", "none"},
           told' = told \/ told' = [told EXCEPT ![n] = st]
    PROVE  IInv'
  <1>1. call \in [Numbers -> Calls] /\ CallFits(call[n])
        /\ outbound \in [Numbers -> Deliveries]
        /\ told \in [Numbers -> Deliveries \union {"queued"}]
    BY DEF IInv, TypeOK, Calls, CallsFit
  <1>2. call'[n] = c /\ \A m \in Numbers \ {n} : call'[m] = call[m]
    BY <1>1
  <1>3. /\ item' \in [Item -> {"absent", "pending", "approved", "rejected"}]
        /\ \A i \in Item : item[i] # "pending" => item'[i] = item[i]
        /\ \A i \in Item : item'[i] = "approved" /\ item[i] # "approved" =>
             c.tool \in ApproveTools /\ c.item = i
        /\ c.tool \in ApproveTools =>
             c.item \in Item /\ item[c.item] = "pending" /\ item'[c.item] = "approved"
        /\ c.tool \in RejectTools => c.item \in Item /\ item'[c.item] = "rejected"
    BY <1>1, ServeRows DEF IInv
  <1>4. \/ c.tool \in SendingTools /\ outbound' = [outbound EXCEPT ![n] = "pending"]
        \/ outbound' = outbound
    BY DEF Serve
  <1>5. TypeOK'
    <2>1. call' \in [Numbers -> Calls]
      BY <1>1
    <2>2. outbound' \in [Numbers -> Deliveries]
      BY <1>1, <1>4 DEF Deliveries
    <2>3. told' \in [Numbers -> Deliveries \union {"queued"}]
      BY <1>1 DEF Deliveries
    <2> QED BY <1>3, <2>1, <2>2, <2>3 DEF IInv, TypeOK, Calls
  <1>6. CallsFit'
    BY <1>2 DEF IInv, CallsFit, CallIsFresh
  <1>7. RowsShowDecisions'
    <2> SUFFICES ASSUME NEW m \in Numbers PROVE RowShows(call[m])'
      BY DEF RowsShowDecisions
    <2>1. CASE m = n
      BY <1>2, <1>3, <2>1 DEF RowShows
    <2>2. CASE m # n
      <3>1. call'[m] = call[m] /\ RowShows(call[m]) /\ CallFits(call[m])
        BY <1>2, <2>2 DEF IInv, RowsShowDecisions, CallsFit
      <3>2. call[m].tool \in ApproveTools \union RejectTools => call[m].item \in Item
        BY <3>1, ToolFacts DEF CallFits
      <3> QED BY <1>3, <3>1, <3>2 DEF RowShows
    <2> QED BY <2>1, <2>2
  <1>8. RowsApprovedOnce'
    <2> SUFFICES ASSUME NEW i \in Item PROVE ApprovedOnce(i)'
      BY DEF RowsApprovedOnce
    <2>1. ApprovedOnce(i)
      BY DEF IInv, RowsApprovedOnce
    <2>2. \A m \in Numbers : Approves(call[m], i) => item[i] = "approved"
      BY DEF IInv, RowsShowDecisions, RowShows, Approves
    <2>3. \A m \in Numbers \ {n} : Approves(call'[m], i) <=> Approves(call[m], i)
      BY <1>2
    <2>4. ~Approves(call[n], i)
      BY DEF Approves
    <2>5. Approves(call'[n], i) <=> c.item = i /\ c.tool \in ApproveTools
      BY <1>2 DEF Approves
    <2>6. CASE c.item = i /\ c.tool \in ApproveTools
      <3>1. item[i] = "pending" /\ item'[i] = "approved"
        BY <1>3, <2>6
      <3>2. \A m \in Numbers : ~Approves(call[m], i)
        BY <2>2, <3>1
      <3>3. byHand'[i] # 1
        BY <2>1, <3>1 DEF ApprovedOnce
      <3> QED BY <2>3, <2>5, <2>6, <3>2, <3>3 DEF ApprovedOnce
    <2>7. CASE ~(c.item = i /\ c.tool \in ApproveTools)
      <3>1. \A m \in Numbers : Approves(call'[m], i) <=> Approves(call[m], i)
        BY <2>3, <2>4, <2>5, <2>7
      <3>2. item'[i] = "approved" <=> item[i] = "approved"
        BY <1>3, <2>7
      <3> QED BY <2>1, <3>1, <3>2 DEF ApprovedOnce
    <2> QED BY <2>6, <2>7
  <1>9. SentMeansSent'
    <2> SUFFICES ASSUME NEW m \in Numbers
                 PROVE  /\ told'[m] = "sent" => outbound'[m] = "sent"
                        /\ outbound'[m] # "none" =>
                             call'[m].served > 0 /\ call'[m].tool \in SendingTools
      BY DEF SentMeansSent
    <2>1. /\ told[m] = "sent" => outbound[m] = "sent"
          /\ outbound[m] # "none" => call[m].served > 0 /\ call[m].tool \in SendingTools
      BY DEF IInv, SentMeansSent
    <2>2. CASE m = n
      <3>1. outbound[n] = "none" /\ told[n] # "sent"
        BY <2>1, <2>2
      <3>2. told'[n] # "sent"
        BY <1>1, <3>1
      <3>3. outbound'[n] # "none" => c.tool \in SendingTools
        BY <1>1, <1>4, <3>1
      <3> QED BY <1>2, <2>2, <3>2, <3>3
    <2>3. CASE m # n
      BY <1>1, <1>2, <1>4, <2>1, <2>3
    <2> QED BY <2>2, <2>3
  <1> QED BY <1>5, <1>6, <1>7, <1>8, <1>9 DEF IInv

-----------------------------------------------------------------------------
(* One lemma per action. *)

\* What every step of call n starts from.
LEMMA OwnCall ==
    ASSUME IInv, NEW n \in Numbers
    PROVE  /\ call \in [Numbers -> Calls] /\ call[n] \in Calls
           /\ CallFits(call[n]) /\ CallIsFresh(call[n])
  BY DEF IInv, TypeOK, Calls, CallsFit

LEMMA BeginKeeps ==
    ASSUME IInv, NEW n \in Numbers, Begin(n) PROVE IInv'
  <1>1. PICK tool \in Tools, i \in Item \union {NoItem}, confirm \in BOOLEAN :
          /\ i \in Item <=> tool \in ReviewTools
          /\ i \in Item => i[1] = KindOf(tool)
          /\ call' = [call EXCEPT ![n] =
               [NotMade EXCEPT !.step = "mode", !.tool = tool, !.item = i,
                               !.confirm = confirm, !.run = mode = "RUN"]]
    BY Zenon DEF Begin
  <1>2. PICK run \in BOOLEAN : run = (mode = "RUN")
    BY Zenon
  <1> DEFINE c == [NotMade EXCEPT !.step = "mode", !.tool = tool, !.item = i,
                                  !.confirm = confirm, !.run = run]
  <1>3. call' = [call EXCEPT ![n] = c]
    BY <1>1, <1>2, Zenon
  <1>4. /\ c.step = "mode" /\ c.tool = tool /\ c.item = i /\ c.confirm = confirm
        /\ c.run = run /\ c.flying = FALSE /\ c.answer = "none" /\ c.served = 0
    BY DEF NotMade
  <1>5. c \in Calls
    <2>1. tool \in AllTools
      BY ToolsAssumption
    <2>2. NotMade \in Calls
      BY DEF NotMade, Calls, Answers
    <2> QED BY <2>1, <2>2 DEF Calls
  <1>6. call[n].step = "new" /\ call[n].served = 0
        /\ UNCHANGED <<mode, item, byHand, outbound, told>>
    BY OwnCall DEF Begin, CallFits
  <1> HIDE DEF c
  <1>7. mode = "RUN" => c.run
    BY <1>2, <1>4, Zenon
  <1>8. CallFits(c) /\ CallIsFresh(c)
    BY <1>1, <1>4, <1>7 DEF CallFits, CallIsFresh
  <1>9. c.served = call[n].served /\ ~(c.served > 0)
    BY <1>4, <1>6
  <1> QED BY <1>3, <1>5, <1>6, <1>8, <1>9, LocalStepKeeps

\* The gate: past it a call is confirmed and has seen RUN.
LEMMA PassGateKeeps ==
    ASSUME IInv, NEW n \in Numbers, PassGate(n) PROVE IInv'
  <1>1. CASE Gate(n)
    <2> DEFINE c == [call[n] EXCEPT !.step = "post"]
    <2>1. call' = [call EXCEPT ![n] = c]
      BY <1>1 DEF PassGate
    <2>2. /\ c.step = "post" /\ c.tool = call[n].tool /\ c.item = call[n].item
          /\ c.confirm = call[n].confirm /\ c.flying = call[n].flying
          /\ c.answer = call[n].answer /\ c.run = call[n].run /\ c.served = call[n].served
      BY OwnCall DEF Calls
    <2>3. c \in Calls
      BY OwnCall DEF Calls
    <2>4. call[n].step = "mode" /\ mode = "RUN" /\ call[n].confirm
      BY <1>1 DEF PassGate, Gate
    <2> HIDE DEF c
    <2>5. CallFits(c) /\ CallIsFresh(c)
      BY <2>2, <2>4, OwnCall DEF CallFits, CallIsFresh
    <2> QED BY <2>1, <2>2, <2>3, <2>5, LocalStepKeeps DEF PassGate
  <1>2. CASE ~Gate(n)
    <2> DEFINE c == [call[n] EXCEPT !.step = "over", !.answer = "denied"]
    <2>1. call' = [call EXCEPT ![n] = c]
      BY <1>2, OwnCall DEF PassGate, Finish
    <2>2. /\ c.step = "over" /\ c.tool = call[n].tool /\ c.item = call[n].item
          /\ c.confirm = call[n].confirm /\ c.flying = call[n].flying
          /\ c.answer = "denied" /\ c.run = call[n].run /\ c.served = call[n].served
      BY OwnCall DEF Calls
    <2>3. c \in Calls
      BY OwnCall DEF Calls, Answers
    <2>4. call[n].step = "mode"
      BY DEF PassGate
    <2> HIDE DEF c
    <2>5. CallFits(c) /\ CallIsFresh(c)
      BY <2>2, <2>4, OwnCall DEF CallFits, CallIsFresh
    <2> QED BY <2>1, <2>2, <2>3, <2>5, LocalStepKeeps DEF PassGate
  <1> QED BY <1>1, <1>2

LEMMA PostServedKeeps ==
    ASSUME IInv, NEW n \in Numbers, PostServed(n) PROVE IInv'
  <1>1. PICK answer \in {"ok", "error"} :
          /\ call' = [call EXCEPT ![n].step = "over", ![n].answer = answer,
                                  ![n].served = @ + 1]
          /\ told' = IF answer = "ok" THEN [told EXCEPT ![n] = Status(n)] ELSE told
    BY DEF PostServed
  <1> DEFINE c == [call[n] EXCEPT !.step = "over", !.answer = answer, !.served = @ + 1]
  <1>2. call[n].step = "post" /\ call[n].served = 0 /\ Status(n) \in {"queued", "none"}
    BY OwnCall DEF PostServed, CallFits, Status
  <1>3. call' = [call EXCEPT ![n] = c]
    BY <1>1, <1>2, OwnCall
  <1>4. /\ c.step = "over" /\ c.tool = call[n].tool /\ c.item = call[n].item
        /\ c.confirm = call[n].confirm /\ c.flying = call[n].flying
        /\ c.answer = answer /\ c.run = call[n].run /\ c.served = 1
    BY <1>2, OwnCall DEF Calls
  <1>5. c \in Calls
    <2>1. call[n].served + 1 \in 0 .. 2
      BY <1>2
    <2> QED BY <2>1, OwnCall DEF Calls, Answers
  <1> HIDE DEF c
  <1>6. CallFits(c) /\ CallIsFresh(c)
    BY <1>2, <1>4, OwnCall DEF CallFits, CallIsFresh
  <1>7. told' = told \/ told' = [told EXCEPT ![n] = Status(n)]
    BY <1>1
  <1> QED BY <1>2, <1>3, <1>4, <1>5, <1>6, <1>7, ServeStepKeeps DEF PostServed

LEMMA PostRefusedKeeps ==
    ASSUME IInv, NEW n \in Numbers, PostRefused(n) PROVE IInv'
  <1> DEFINE c == [call[n] EXCEPT !.step = "over", !.answer = "error"]
  <1>1. call' = [call EXCEPT ![n] = c]
    BY OwnCall DEF PostRefused, Finish
  <1>2. /\ c.step = "over" /\ c.tool = call[n].tool /\ c.item = call[n].item
        /\ c.confirm = call[n].confirm /\ c.flying = call[n].flying
        /\ c.answer = "error" /\ c.run = call[n].run /\ c.served = call[n].served
    BY OwnCall DEF Calls
  <1>3. c \in Calls
    BY OwnCall DEF Calls, Answers
  <1> HIDE DEF c
  <1>4. CallFits(c) /\ CallIsFresh(c)
    BY <1>2, OwnCall DEF CallFits, CallIsFresh
  <1> QED BY <1>1, <1>2, <1>3, <1>4, LocalStepKeeps DEF PostRefused

\* Ending a call with its request on its way, or not: what PostLate and Crash do.
LEMMA EndKeeps ==
    ASSUME IInv, NEW n \in Numbers, Active(n),
           NEW flying \in BOOLEAN, flying => call[n].step = "post",
           NEW answer \in {"none", "error"},
           call' = [call EXCEPT ![n] = [call[n] EXCEPT !.step = "over", !.answer = answer,
                                                       !.flying = flying]],
           UNCHANGED <<mode, item, byHand, outbound, told>>
    PROVE  IInv'
  <1> DEFINE c == [call[n] EXCEPT !.step = "over", !.answer = answer, !.flying = flying]
  <1>1. /\ c.step = "over" /\ c.tool = call[n].tool /\ c.item = call[n].item
        /\ c.confirm = call[n].confirm /\ c.flying = flying
        /\ c.answer = answer /\ c.run = call[n].run /\ c.served = call[n].served
    BY OwnCall DEF Calls
  <1>2. c \in Calls
    BY OwnCall DEF Calls, Answers
  <1>3. call' = [call EXCEPT ![n] = c]
    OBVIOUS
  <1>4. call[n].served = 0
    BY OwnCall DEF Active, CallFits
  <1> HIDE DEF c
  <1>5. CallFits(c) /\ CallIsFresh(c)
    BY <1>1, <1>4, OwnCall DEF CallFits, CallIsFresh
  <1> QED BY <1>1, <1>2, <1>3, <1>5, LocalStepKeeps

LEMMA PostLateKeeps ==
    ASSUME IInv, NEW n \in Numbers, PostLate(n) PROVE IInv'
  <1>1. call' = [call EXCEPT ![n] = [call[n] EXCEPT !.step = "over", !.answer = "error",
                                                    !.flying = TRUE]]
    BY OwnCall DEF PostLate
  <1> QED BY <1>1, EndKeeps DEF PostLate, Active

LEMMA CrashKeeps ==
    ASSUME IInv, NEW n \in Numbers, Crash(n) PROVE IInv'
  <1>1. PICK flying \in BOOLEAN :
          /\ flying => call[n].step = "post"
          /\ call' = [call EXCEPT ![n].step = "over", ![n].flying = flying]
    BY DEF Crash
  <1>2. call[n].answer = "none"
    BY OwnCall DEF Crash, Active, CallFits
  <1>3. call' = [call EXCEPT ![n] = [call[n] EXCEPT !.step = "over", !.answer = "none",
                                                    !.flying = flying]]
    BY <1>1, <1>2, OwnCall DEF Calls
  <1> QED BY <1>1, <1>3, EndKeeps DEF Crash

LEMMA ServeLateKeeps ==
    ASSUME IInv, NEW n \in Numbers, ServeLate(n) PROVE IInv'
  <1> DEFINE c == [call[n] EXCEPT !.flying = FALSE, !.served = @ + 1]
  <1>1. call[n].flying /\ call[n].served = 0 /\ call[n].confirm /\ call[n].run
        /\ call[n].step = "over"
    BY OwnCall DEF ServeLate, CallFits
  <1>2. call' = [call EXCEPT ![n] = c]
    BY <1>1, OwnCall DEF ServeLate
  <1>3. /\ c.step = "over" /\ c.tool = call[n].tool /\ c.item = call[n].item
        /\ c.confirm = call[n].confirm /\ c.flying = FALSE
        /\ c.answer = call[n].answer /\ c.run = call[n].run /\ c.served = 1
    <2>1. /\ c.step = call[n].step /\ c.tool = call[n].tool /\ c.item = call[n].item
          /\ c.confirm = call[n].confirm /\ c.flying = FALSE
          /\ c.answer = call[n].answer /\ c.run = call[n].run
          /\ c.served = call[n].served + 1
      BY OwnCall DEF Calls
    <2> HIDE DEF c
    <2> QED BY <1>1, <2>1
  <1>4. c \in Calls
    <2>1. call[n].served + 1 \in 0 .. 2
      BY <1>1
    <2> QED BY <2>1, OwnCall DEF Calls
  <1> HIDE DEF c
  <1>5. CallFits(c) /\ CallIsFresh(c)
    BY <1>1, <1>3, OwnCall DEF CallFits, CallIsFresh
  <1> QED BY <1>1, <1>2, <1>3, <1>4, <1>5, ServeStepKeeps DEF ServeLate

LEMMA RefuseLateKeeps ==
    ASSUME IInv, NEW n \in Numbers, RefuseLate(n) PROVE IInv'
  <1> DEFINE c == [call[n] EXCEPT !.flying = FALSE]
  <1>1. call' = [call EXCEPT ![n] = c]
    BY OwnCall DEF RefuseLate
  <1>2. /\ c.step = call[n].step /\ c.tool = call[n].tool /\ c.item = call[n].item
        /\ c.confirm = call[n].confirm /\ c.flying = FALSE
        /\ c.answer = call[n].answer /\ c.run = call[n].run /\ c.served = call[n].served
    BY OwnCall DEF Calls
  <1>3. c \in Calls
    BY OwnCall DEF Calls
  <1> HIDE DEF c
  <1>4. CallFits(c) /\ CallIsFresh(c)
    BY <1>2, OwnCall DEF CallFits, CallIsFresh
  <1> QED BY <1>1, <1>2, <1>3, <1>4, LocalStepKeeps DEF RefuseLate

\* RUN comes into force: every call in progress has seen it.
LEMMA SwitchModeKeeps ==
    ASSUME IInv, SwitchMode PROVE IInv'
  <1>1. PICK m \in Modes \ {mode} :
          /\ mode' = m
          /\ call' = [n \in Numbers |->
                        IF Active(n) THEN [call[n] EXCEPT !.run = @ \/ m = "RUN"]
                        ELSE call[n]]
    BY Zenon DEF SwitchMode
  <1>2. UNCHANGED <<item, byHand, outbound, told>>
    BY DEF SwitchMode
  <1>3. PICK r \in [Numbers -> BOOLEAN] :
          \A n \in Numbers : r[n] = (call[n].run \/ m = "RUN")
    <2> DEFINE r == [n \in Numbers |-> call[n].run \/ m = "RUN"]
    <2>1. r \in [Numbers -> BOOLEAN] /\ \A n \in Numbers : r[n] = (call[n].run \/ m = "RUN")
      BY Zenon
    <2> QED BY <2>1, Zenon
  <1>4. \A n \in Numbers :
          call'[n] = IF Active(n) THEN [call[n] EXCEPT !.run = r[n]] ELSE call[n]
    <2> SUFFICES ASSUME NEW n \in Numbers
                 PROVE  call'[n] = IF Active(n) THEN [call[n] EXCEPT !.run = r[n]]
                                   ELSE call[n]
      OBVIOUS
    <2>1. call'[n] = IF Active(n) THEN [call[n] EXCEPT !.run = call[n].run \/ m = "RUN"]
                     ELSE call[n]
      BY <1>1, Zenon
    <2> QED BY <1>3, <2>1, Zenon
  <1>5. \A n \in Numbers :
          /\ call'[n] \in Calls
          /\ call'[n].step = call[n].step /\ call'[n].tool = call[n].tool
          /\ call'[n].item = call[n].item /\ call'[n].confirm = call[n].confirm
          /\ call'[n].flying = call[n].flying /\ call'[n].answer = call[n].answer
          /\ call'[n].served = call[n].served
          /\ call'[n].run = IF Active(n) THEN r[n] ELSE call[n].run
    <2> SUFFICES ASSUME NEW n \in Numbers
                 PROVE  /\ call'[n] \in Calls
                        /\ call'[n].step = call[n].step /\ call'[n].tool = call[n].tool
                        /\ call'[n].item = call[n].item
                        /\ call'[n].confirm = call[n].confirm
                        /\ call'[n].flying = call[n].flying
                        /\ call'[n].answer = call[n].answer
                        /\ call'[n].served = call[n].served
                        /\ call'[n].run = IF Active(n) THEN r[n] ELSE call[n].run
      OBVIOUS
    <2>1. CASE Active(n)
      <3>1. call'[n] = [call[n] EXCEPT !.run = r[n]] /\ r[n] \in BOOLEAN
        BY <1>3, <1>4, <2>1
      <3> QED BY <2>1, <3>1, OwnCall DEF Calls
    <2>2. CASE ~Active(n)
      BY <1>4, <2>2, OwnCall
    <2> QED BY <2>1, <2>2
  <1>6. \A n \in Numbers : call[n].run /\ Active(n) => r[n]
    BY <1>3, Zenon
  <1>7. \A n \in Numbers : m = "RUN" => r[n]
    BY <1>3, Zenon
  <1>8. TypeOK'
    <2>1. call' \in [Numbers -> Calls]
      BY <1>1, <1>5
    <2> QED BY <1>1, <1>2, <2>1 DEF IInv, TypeOK, Calls
  <1>9. CallsFit'
    <2> SUFFICES ASSUME NEW n \in Numbers
                 PROVE  CallFits(call[n])' /\ CallIsFresh(call[n])'
      BY DEF CallsFit
    <2>1. call[n].run => call'[n].run
      BY <1>5, <1>6
    <2>2. CallFits(call[n])'
      BY <1>5, <2>1, OwnCall DEF CallFits
    <2>3. CallIsFresh(call[n])'
      BY <1>1, <1>5, <1>7 DEF CallIsFresh, Active
    <2> QED BY <2>2, <2>3
  <1>10. RowsShowDecisions'
    BY <1>2, <1>5 DEF IInv, RowsShowDecisions, RowShows
  <1>11. RowsApprovedOnce'
    <2>1. \A n \in Numbers, i \in Item : Approves(call'[n], i) <=> Approves(call[n], i)
      BY <1>5 DEF Approves
    <2> QED BY <1>2, <2>1 DEF IInv, RowsApprovedOnce, ApprovedOnce
  <1>12. SentMeansSent'
    BY <1>2, <1>5 DEF IInv, SentMeansSent
  <1> QED BY <1>8, <1>9, <1>10, <1>11, <1>12 DEF IInv

\* Nobody decides a row that is decided.
LEMMA ReviewByHandKeeps ==
    ASSUME IInv, ReviewByHand PROVE IInv'
  <1>1. PICK r \in Item :
          /\ item[r] = "pending"
          /\ \/ /\ item' = [item EXCEPT ![r] = "approved"]
                /\ byHand' = [byHand EXCEPT ![r] = @ + 1]
             \/ item' = [item EXCEPT ![r] = "rejected"] /\ UNCHANGED byHand
    BY DEF ReviewByHand
  <1>2. UNCHANGED <<mode, call, outbound, told>>
    BY DEF ReviewByHand
  <1>3. /\ item \in [Item -> {"absent", "pending", "approved", "rejected"}]
        /\ byHand \in [Item -> {0, 1}]
    BY DEF IInv, TypeOK
  <1>4. byHand[r] = 0 /\ \A n \in Numbers : ~Approves(call[n], r)
    BY <1>1, <1>3
       DEF IInv, RowsApprovedOnce, ApprovedOnce, RowsShowDecisions, RowShows, Approves
  <1>5. /\ \A i \in Item \ {r} : item'[i] = item[i] /\ byHand'[i] = byHand[i]
        /\ \/ item'[r] = "approved" /\ byHand'[r] = 1
           \/ item'[r] = "rejected" /\ byHand'[r] = 0
    BY <1>1, <1>3, <1>4
  <1>6. TypeOK'
    <2>1. /\ item' \in [Item -> {"absent", "pending", "approved", "rejected"}]
          /\ byHand' \in [Item -> {0, 1}]
      BY <1>1, <1>3, <1>4
    <2> QED BY <1>2, <2>1 DEF IInv, TypeOK
  <1>7. CallsFit'
    BY <1>2 DEF IInv, CallsFit, CallIsFresh
  <1>8. RowsShowDecisions'
    <2> SUFFICES ASSUME NEW n \in Numbers PROVE RowShows(call[n])'
      BY DEF RowsShowDecisions
    <2>1. RowShows(call[n]) /\ CallFits(call[n])
      BY OwnCall DEF IInv, RowsShowDecisions
    <2>2. call[n].tool \in ApproveTools \union RejectTools => call[n].item \in Item
      BY <2>1, ToolFacts DEF CallFits
    <2> QED BY <1>1, <1>2, <1>5, <2>1, <2>2 DEF RowShows
  <1>9. RowsApprovedOnce'
    <2> SUFFICES ASSUME NEW i \in Item PROVE ApprovedOnce(i)'
      BY DEF RowsApprovedOnce
    <2>1. ApprovedOnce(i)
      BY DEF IInv, RowsApprovedOnce
    <2>2. CASE i = r
      BY <1>2, <1>4, <1>5, <2>2 DEF ApprovedOnce
    <2>3. CASE i # r
      BY <1>2, <1>5, <2>1, <2>3 DEF ApprovedOnce
    <2> QED BY <2>2, <2>3
  <1>10. SentMeansSent'
    BY <1>2 DEF IInv, SentMeansSent
  <1> QED BY <1>6, <1>7, <1>8, <1>9, <1>10 DEF IInv

\* The worker never takes up a message again that it has sent.
LEMMA WorkQueueKeeps ==
    ASSUME IInv, WorkQueue PROVE IInv'
  <1>1. PICK n \in Numbers :
          \/ /\ outbound[n] \in {"pending", "failed"}
             /\ outbound' = [outbound EXCEPT ![n] = "sending"]
          \/ /\ outbound[n] = "sending"
             /\ \E st \in {"sent", "failed", "dlq"} :
                  outbound' = [outbound EXCEPT ![n] = st]
    BY DEF WorkQueue
  <1>2. UNCHANGED <<mode, item, byHand, call, told>>
    BY DEF WorkQueue
  <1>3. outbound \in [Numbers -> Deliveries]
    BY DEF IInv, TypeOK
  <1>4. /\ outbound' \in [Numbers -> Deliveries]
        /\ outbound[n] # "none" /\ outbound[n] # "sent"
        /\ \A m \in Numbers \ {n} : outbound'[m] = outbound[m]
    BY <1>1, <1>3 DEF Deliveries
  <1>5. TypeOK' /\ CallsFit' /\ RowsShowDecisions' /\ RowsApprovedOnce'
    BY <1>2, <1>4 DEF IInv, TypeOK, CallsFit, CallIsFresh, RowsShowDecisions, RowShows,
                      RowsApprovedOnce, ApprovedOnce
  <1>6. SentMeansSent'
    BY <1>2, <1>4 DEF IInv, SentMeansSent
  <1> QED BY <1>5, <1>6 DEF IInv

\* A reply draft appears, decided by nobody.
LEMMA DraftWhatsappReplyKeeps ==
    ASSUME IInv, NEW r \in Item, DraftWhatsappReply(r) PROVE IInv'
  <1>1. /\ item[r] = "absent" /\ item' = [item EXCEPT ![r] = "pending"]
        /\ UNCHANGED <<mode, byHand, call, outbound, told>>
    BY DEF DraftWhatsappReply
  <1>2. item \in [Item -> {"absent", "pending", "approved", "rejected"}]
    BY DEF IInv, TypeOK
  <1>3. /\ item' \in [Item -> {"absent", "pending", "approved", "rejected"}]
        /\ item'[r] = "pending" /\ \A i \in Item \ {r} : item'[i] = item[i]
    BY <1>1, <1>2
  <1>4. TypeOK' /\ CallsFit' /\ SentMeansSent'
    BY <1>1, <1>3 DEF IInv, TypeOK, CallsFit, CallIsFresh, SentMeansSent
  <1>5. RowsShowDecisions'
    <2> SUFFICES ASSUME NEW n \in Numbers PROVE RowShows(call[n])'
      BY DEF RowsShowDecisions
    <2>1. RowShows(call[n]) /\ CallFits(call[n])
      BY OwnCall DEF IInv, RowsShowDecisions
    <2>2. call[n].tool \in ApproveTools \union RejectTools => call[n].item \in Item
      BY <2>1, ToolFacts DEF CallFits
    <2> QED BY <1>1, <1>3, <2>1, <2>2 DEF RowShows
  <1>6. RowsApprovedOnce'
    <2> SUFFICES ASSUME NEW i \in Item PROVE ApprovedOnce(i)'
      BY DEF RowsApprovedOnce
    <2>1. ApprovedOnce(i)
      BY DEF IInv, RowsApprovedOnce
    <2>2. item'[i] = "approved" <=> item[i] = "approved"
      BY <1>1, <1>3
    <2> QED BY <1>1, <2>1, <2>2 DEF ApprovedOnce
  <1> QED BY <1>4, <1>5, <1>6 DEF IInv

LEMMA CheckOutboundStatusKeeps ==
    ASSUME IInv, NEW n \in Numbers, CheckOutboundStatus(n) PROVE IInv'
  <1>1. /\ told' = [told EXCEPT ![n] = outbound[n]]
        /\ UNCHANGED <<mode, item, byHand, call, outbound>>
    BY DEF CheckOutboundStatus
  <1>2. /\ told \in [Numbers -> Deliveries \union {"queued"}]
        /\ outbound \in [Numbers -> Deliveries]
    BY DEF IInv, TypeOK
  <1>3. /\ told' \in [Numbers -> Deliveries \union {"queued"}]
        /\ told'[n] = outbound[n] /\ \A m \in Numbers \ {n} : told'[m] = told[m]
    BY <1>1, <1>2
  <1>4. TypeOK' /\ CallsFit' /\ RowsShowDecisions' /\ RowsApprovedOnce'
    BY <1>1, <1>3 DEF IInv, TypeOK, CallsFit, CallIsFresh, RowsShowDecisions, RowShows,
                      RowsApprovedOnce, ApprovedOnce
  <1>5. SentMeansSent'
    BY <1>1, <1>3 DEF IInv, SentMeansSent
  <1> QED BY <1>4, <1>5 DEF IInv

-----------------------------------------------------------------------------
LEMMA NextIInv == IInv /\ [Next]_vars => IInv'
  <1> SUFFICES ASSUME IInv, [Next]_vars PROVE IInv'
    OBVIOUS
  <1>1. CASE SwitchMode
    BY <1>1, SwitchModeKeeps
  <1>2. CASE ReviewByHand
    BY <1>2, ReviewByHandKeeps
  <1>3. CASE WorkQueue
    BY <1>3, WorkQueueKeeps
  <1>4. CASE \E i \in Item : DraftWhatsappReply(i)
    BY <1>4, DraftWhatsappReplyKeeps
  <1>5. ASSUME NEW n \in Numbers,
               \/ Begin(n) \/ PassGate(n) \/ PostServed(n) \/ PostRefused(n)
               \/ PostLate(n) \/ Crash(n) \/ ServeLate(n) \/ RefuseLate(n)
               \/ CheckOutboundStatus(n)
        PROVE  IInv'
    <2>1. CASE Begin(n)
      BY <2>1, BeginKeeps
    <2>2. CASE PassGate(n)
      BY <2>2, PassGateKeeps
    <2>3. CASE PostServed(n)
      BY <2>3, PostServedKeeps
    <2>4. CASE PostRefused(n)
      BY <2>4, PostRefusedKeeps
    <2>5. CASE PostLate(n)
      BY <2>5, PostLateKeeps
    <2>6. CASE Crash(n)
      BY <2>6, CrashKeeps
    <2>7. CASE ServeLate(n)
      BY <2>7, ServeLateKeeps
    <2>8. CASE RefuseLate(n)
      BY <2>8, RefuseLateKeeps
    <2>9. CASE CheckOutboundStatus(n)
      BY <2>9, CheckOutboundStatusKeeps
    <2> QED BY <1>5, <2>1, <2>2, <2>3, <2>4, <2>5, <2>6, <2>7, <2>8, <2>9
  <1>6. CASE UNCHANGED vars
    BY <1>6 DEF vars, IInv, TypeOK, CallsFit, CallIsFresh, RowsShowDecisions, RowShows,
                RowsApprovedOnce, ApprovedOnce, SentMeansSent
  <1> QED BY <1>1, <1>2, <1>3, <1>4, <1>5, <1>6 DEF Next

\* The inductive invariant holds of every reachable state.
THEOREM Invariance == Spec => []IInv
  <1> QED BY InitIInv, NextIInv, PTL DEF Spec

\* Calls, rows and queue never take a value they have no meaning for: of the calls'
\* requests and fazle-core's rows as the tools see them.
THEOREM TypeCorrect == Spec => []TypeOK
  <1>1. IInv => TypeOK
    BY DEF IInv
  <1> QED BY <1>1, Invariance, PTL

\* Nothing is changed for a call that was not confirmed or saw no RUN, however late
\* its request is served: what _gate of each tool module is for.
THEOREM ChangesAreAuthorised == Spec => []ChangeIsAuthorised
  <1>1. IInv => ChangeIsAuthorised
    BY DEF IInv, CallsFit, CallFits, ChangeIsAuthorised
  <1> QED BY <1>1, Invariance, PTL

\* A success tells of a change that was made and is kept, a denial of one that is
\* never made: what the tools return after _gate and _handle_response.
THEOREM AnswersAreTrue == Spec => []AnswerIsTrue
  <1>1. ASSUME IInv PROVE AnswerIsTrue
    <2> SUFFICES ASSUME NEW n \in Numbers
                 PROVE  /\ call[n].answer = "ok" =>
                             /\ call[n].served > 0
                             /\ call[n].tool \in ApproveTools =>
                                  item[call[n].item] = "approved"
                             /\ call[n].tool \in RejectTools =>
                                  item[call[n].item] = "rejected"
                        /\ call[n].answer = "denied" =>
                             call[n].served = 0 /\ ~call[n].flying
      BY DEF AnswerIsTrue
    <2>1. CallFits(call[n]) /\ RowShows(call[n])
      BY <1>1, OwnCall DEF IInv, RowsShowDecisions
    <2> QED BY <2>1 DEF CallFits, RowShows
  <1> QED BY <1>1, Invariance, PTL

\* One call makes one change at most: FazleClient sends no request twice.
THEOREM CallsChangeOnce == Spec => []OncePerCall
  <1>1. ASSUME IInv PROVE OncePerCall
    <2> SUFFICES ASSUME NEW n \in Numbers
                 PROVE  call[n].served + (IF call[n].flying THEN 1 ELSE 0) <= 1
      BY DEF OncePerCall
    <2>1. CallFits(call[n]) /\ call[n].served \in 0 .. 2
      BY <1>1, OwnCall DEF Calls
    <2>2. CASE call[n].flying
      BY <2>1, <2>2 DEF CallFits
    <2>3. CASE ~call[n].flying
      BY <2>1, <2>3 DEF CallFits
    <2> QED BY <2>2, <2>3
  <1> QED BY <1>1, Invariance, PTL

\* A row is approved at most once, by tools and people together, and only by one that
\* meant to: of the approving and rejecting tools, retried and raced as they may be.
THEOREM RowsAreApprovedOnce == Spec => []ApprovedAtMostOnce
  <1>1. ASSUME IInv, NEW i \in Item
        PROVE  Cardinality(Approvals(i)) + byHand[i]
                 = IF item[i] = "approved" THEN 1 ELSE 0
    <2>1. ApprovedOnce(i) /\ byHand[i] \in {0, 1}
      BY <1>1 DEF IInv, RowsApprovedOnce, TypeOK
    <2>2. Approvals(i) = {n \in Numbers : Approves(call[n], i)}
      BY DEF Approvals, Approves
    <2>3. \A n \in Numbers : Approves(call[n], i) => item[i] = "approved"
      BY <1>1 DEF IInv, RowsShowDecisions, RowShows, Approves
    <2>4. CASE \E n \in Numbers : Approves(call[n], i)
      <3>1. PICK n \in Numbers : Approves(call[n], i)
        BY <2>4
      <3>2. Approvals(i) = {n}
        BY <2>1, <2>2, <3>1 DEF ApprovedOnce
      <3>3. Cardinality(Approvals(i)) = 1
        BY <3>2, FS_Singleton
      <3> QED BY <2>1, <2>3, <3>1, <3>3 DEF ApprovedOnce
    <2>5. CASE \A n \in Numbers : ~Approves(call[n], i)
      <3>1. Cardinality(Approvals(i)) = 0
        BY <2>2, <2>5, FS_EmptySet
      <3> QED BY <2>1, <2>5, <3>1 DEF ApprovedOnce
    <2> QED BY <2>4, <2>5
  <1>2. IInv => ApprovedAtMostOnce
    BY <1>1 DEF ApprovedAtMostOnce
  <1> QED BY <1>2, Invariance, PTL

\* "sent" is told only of a message the bridge has sent: of the status the sending
\* tools return and the one check_outbound_status hands on.
THEOREM SentIsSent == Spec => []SentMeansSent
  <1>1. IInv => SentMeansSent
    BY DEF IInv
  <1> QED BY <1>1, Invariance, PTL

=============================================================================
