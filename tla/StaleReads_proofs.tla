-------------------------- MODULE StaleReads_proofs --------------------------
(***************************************************************************)
(* The two callers that act on what an earlier answer told them: one       *)
(* dispatches the employee it read, for any employees, decisions and       *)
(* number of requests; the other reads a file on from the line it was      *)
(* told, for any length and page size.                                     *)
(***************************************************************************)
EXTENDS DispatchAssign, AuditPages, TLAPS

(* The dispatch decisions. *)

Decision ==
    [made : BOOLEAN, tool : {"none", "assign", "unassign"}, read : Holders,
     wanted : Holders, waiting : BOOLEAN, flying : 0 .. MaxSends,
     sends : 0 .. MaxSends, served : 0 .. MaxSends]

\* A step that changes one decision to c.
LEMMA DecisionStep ==
    ASSUME DispatchTypeOK, NEW d \in Decisions, NEW CONSTANT c \in Decision,
           decision' = [decision EXCEPT ![d] = c],
           assigned' \in Holders, relieved' \subseteq Employee,
           c.flying + c.served <= c.sends
    PROVE  DispatchTypeOK'
  <1>1. decision \in [Decisions -> Decision]
    BY DEF DispatchTypeOK, Decision
  <1>2. decision' \in [Decisions -> Decision]
    BY <1>1
  <1>3. decision'[d] = c /\ \A e \in Decisions \ {d} : decision'[e] = decision[e]
    BY <1>1
  <1>4. \A e \in Decisions : decision'[e].flying + decision'[e].served <= decision'[e].sends
    BY <1>3 DEF DispatchTypeOK
  <1> QED BY <1>2, <1>4 DEF DispatchTypeOK, Decision

LEMMA DispatchInitOK == DispatchInit => DispatchTypeOK
  <1> SUFFICES ASSUME DispatchInit PROVE DispatchTypeOK
    OBVIOUS
  <1>1. Undecided \in Decision /\ Undecided.flying + Undecided.served <= Undecided.sends
    BY MaxSendsAssumption DEF Undecided, Decision, Holders
  <1> QED BY <1>1 DEF DispatchInit, DispatchTypeOK, Decision, Holders

LEMMA DispatchNextOK == DispatchTypeOK /\ [DispatchNext]_dispatchVars => DispatchTypeOK'
  <1> SUFFICES ASSUME DispatchTypeOK, [DispatchNext]_dispatchVars PROVE DispatchTypeOK'
    OBVIOUS
  <1>1. \A d \in Decisions : /\ decision[d] \in Decision
                             /\ decision[d].flying + decision[d].served <= decision[d].sends
    BY DEF DispatchTypeOK, Decision
  <1>2. CASE AssignedByHand
    <2>1. assigned' \in Holders /\ relieved' \subseteq Employee /\ decision' = decision
      BY <1>2 DEF AssignedByHand, DispatchTypeOK
    <2> QED BY <2>1 DEF DispatchTypeOK
  <1>3. ASSUME NEW d \in Decisions, Decide(d) PROVE DispatchTypeOK'
    <2>1. PICK tool \in {"assign", "unassign"}, wanted \in Holders \ {assigned} :
            decision' = [decision EXCEPT ![d] =
              [Undecided EXCEPT !.made = TRUE, !.tool = tool, !.read = assigned,
                                !.wanted = wanted]]
      BY <1>3 DEF Decide
    <2> DEFINE c == [Undecided EXCEPT !.made = TRUE, !.tool = tool, !.read = assigned,
                                      !.wanted = wanted]
    <2>2. assigned \in Holders /\ Undecided \in Decision
      BY MaxSendsAssumption DEF DispatchTypeOK, Undecided, Decision, Holders
    <2>3. c \in Decision
      BY <2>2 DEF Decision
    <2>4. c.flying = 0 /\ c.served = 0 /\ c.sends = 0
      BY DEF Undecided
    <2>5. assigned' \in Holders /\ relieved' \subseteq Employee
      BY <1>3 DEF Decide, DispatchTypeOK
    <2>6. decision' = [decision EXCEPT ![d] = c]
      BY <2>1
    <2> HIDE DEF c
    <2>7. c.flying + c.served <= c.sends
      BY <2>4
    <2> QED BY <2>3, <2>5, <2>6, <2>7, DecisionStep
  <1>4. ASSUME NEW d \in Decisions, Send(d) PROVE DispatchTypeOK'
    <2> DEFINE c == [decision[d] EXCEPT !.waiting = TRUE, !.sends = @ + 1, !.flying = @ + 1]
    <2>1. decision' = [decision EXCEPT ![d] = c] /\ decision[d].sends < MaxSends
          /\ assigned' \in Holders /\ relieved' \subseteq Employee
      BY <1>4 DEF Send, DispatchTypeOK
    <2>2. decision[d].sends + 1 \in 0 .. MaxSends /\ decision[d].flying + 1 \in 0 .. MaxSends
      BY <1>1, <2>1, MaxSendsAssumption DEF Decision
    <2>3. c \in Decision
      BY <1>1, <2>2 DEF Decision
    <2>4. c.flying = decision[d].flying + 1 /\ c.served = decision[d].served
          /\ c.sends = decision[d].sends + 1
      BY <1>1 DEF Decision
    <2> HIDE DEF c
    <2>5. c.flying + c.served <= c.sends
      BY <1>1, <2>4, MaxSendsAssumption DEF Decision
    <2> QED BY <2>1, <2>3, <2>5, DecisionStep
  <1>5. ASSUME NEW d \in Decisions, ServeDispatch(d) PROVE DispatchTypeOK'
    <2> DEFINE c == [decision[d] EXCEPT !.flying = @ - 1, !.served = @ + 1]
    <2>1. decision' = [decision EXCEPT ![d] = c] /\ decision[d].flying > 0
          /\ assigned' \in Holders /\ relieved' \subseteq Employee
      BY <1>1, <1>5 DEF ServeDispatch, Decision, DispatchTypeOK, Holders
    <2>2. decision[d].flying - 1 \in 0 .. MaxSends /\ decision[d].served + 1 \in 0 .. MaxSends
      BY <1>1, <2>1, MaxSendsAssumption DEF Decision
    <2>3. c \in Decision
      BY <1>1, <2>2 DEF Decision
    <2>4. c.flying = decision[d].flying - 1 /\ c.served = decision[d].served + 1
          /\ c.sends = decision[d].sends
      BY <1>1 DEF Decision
    <2> HIDE DEF c
    <2>5. c.flying + c.served <= c.sends
      BY <1>1, <2>4, MaxSendsAssumption DEF Decision
    <2> QED BY <2>1, <2>3, <2>5, DecisionStep
  <1>6. ASSUME NEW d \in Decisions, RefuseDispatch(d) PROVE DispatchTypeOK'
    <2> DEFINE c == [decision[d] EXCEPT !.flying = @ - 1]
    <2>1. decision' = [decision EXCEPT ![d] = c] /\ decision[d].flying > 0
          /\ assigned' \in Holders /\ relieved' \subseteq Employee
      BY <1>6 DEF RefuseDispatch, DispatchTypeOK
    <2>2. decision[d].flying - 1 \in 0 .. MaxSends
      BY <1>1, <2>1, MaxSendsAssumption DEF Decision
    <2>3. c \in Decision
      BY <1>1, <2>2 DEF Decision
    <2>4. c.flying = decision[d].flying - 1 /\ c.served = decision[d].served
          /\ c.sends = decision[d].sends
      BY <1>1 DEF Decision
    <2> HIDE DEF c
    <2>5. c.flying + c.served <= c.sends
      BY <1>1, <2>4, MaxSendsAssumption DEF Decision
    <2> QED BY <2>1, <2>3, <2>5, DecisionStep
  <1>7. ASSUME NEW d \in Decisions, DispatchReturns(d) PROVE DispatchTypeOK'
    <2> DEFINE c == [decision[d] EXCEPT !.waiting = FALSE]
    <2>1. decision' = [decision EXCEPT ![d] = c]
          /\ assigned' \in Holders /\ relieved' \subseteq Employee
      BY <1>7 DEF DispatchReturns, DispatchTypeOK
    <2>2. c \in Decision /\ c.flying + c.served <= c.sends
      BY <1>1 DEF Decision
    <2> QED BY <2>1, <2>2, DecisionStep
  <1>8. CASE UNCHANGED dispatchVars
    BY <1>8 DEF dispatchVars, DispatchTypeOK
  <1> QED BY <1>2, <1>3, <1>4, <1>5, <1>6, <1>7, <1>8 DEF DispatchNext

\* Requests and what became of them are counted rightly: dispatch_assign_program and
\* dispatch_unassign_program carry out no more than was sent.
THEOREM DispatchTypeCorrect == DispatchSpec => []DispatchTypeOK
  <1> QED BY DispatchInitOK, DispatchNextOK, PTL DEF DispatchSpec

\* The decision that a step carries out is the one it serves.
LEMMA CarriedOutIsServed ==
    ASSUME DispatchTypeOK, DispatchNext, NEW d \in Decisions,
           decision'[d].served > decision[d].served
    PROVE  ServeDispatch(d)
  <1>1. decision \in [Decisions -> Decision]
    BY DEF DispatchTypeOK, Decision
  <1>2. decision[d].served \in Nat
    BY <1>1 DEF Decision
  <1>3. ~ AssignedByHand
    BY <1>2 DEF AssignedByHand
  <1>4. PICK e \in Decisions :
          \/ Decide(e) \/ Send(e) \/ ServeDispatch(e) \/ RefuseDispatch(e)
          \/ DispatchReturns(e)
    BY <1>3 DEF DispatchNext
  <1>5. \A f \in Decisions \ {e} : decision'[f] = decision[f]
    BY <1>1, <1>4 DEF Decide, Send, ServeDispatch, RefuseDispatch, DispatchReturns
  <1>6. d = e
    BY <1>2, <1>5
  <1>7. ~ Decide(d)
    <2>1. Decide(d) => decision'[d].served = 0
      BY <1>1 DEF Decide, Undecided
    <2> QED BY <1>2, <2>1
  <1>8. ~ (Send(d) \/ RefuseDispatch(d) \/ DispatchReturns(d))
    <2>1. Send(d) \/ RefuseDispatch(d) \/ DispatchReturns(d) =>
            decision'[d].served = decision[d].served
      BY <1>1 DEF Send, RefuseDispatch, DispatchReturns, Decision
    <2> QED BY <1>2, <2>1
  <1> QED BY <1>4, <1>6, <1>7, <1>8

\* Nobody is assigned who was relieved and not assigned again.
DispatchInv == DispatchTypeOK /\ assigned \notin relieved

LEMMA DispatchInitInv == DispatchInit => DispatchInv
  BY DispatchInitOK DEF DispatchInit, DispatchInv

LEMMA DispatchNextInv == DispatchInv /\ [DispatchNext]_dispatchVars => DispatchInv'
  <1> SUFFICES ASSUME DispatchInv, [DispatchNext]_dispatchVars PROVE DispatchInv'
    OBVIOUS
  <1>1. DispatchTypeOK'
    BY DispatchNextOK DEF DispatchInv
  <1>2. CASE AssignedByHand
    BY <1>1, <1>2 DEF AssignedByHand, DispatchInv
  <1>3. ASSUME NEW d \in Decisions, ServeDispatch(d) PROVE DispatchInv'
    BY <1>1, <1>3 DEF ServeDispatch, DispatchInv
  <1>4. CASE UNCHANGED <<assigned, relieved>>
    BY <1>1, <1>4 DEF DispatchInv
  <1>5. ASSUME NEW d \in Decisions,
               Decide(d) \/ Send(d) \/ RefuseDispatch(d) \/ DispatchReturns(d)
        PROVE  UNCHANGED <<assigned, relieved>>
    BY <1>5 DEF Decide, Send, RefuseDispatch, DispatchReturns
  <1> QED BY <1>2, <1>3, <1>4, <1>5 DEF DispatchNext, dispatchVars

\* For any employees, decisions and numbers of requests: of the callers that read the
\* same employee with dispatch_check_availability one is carried out, and no other and no
\* repetition until that employee is assigned again.
THEOREM UpdatesAreNotLost == DispatchSpec => NoLostUpdate
  <1>1. DispatchInv /\ [DispatchNext]_dispatchVars =>
          [\A d \in Decisions :
             decision'[d].served > decision[d].served => decision[d].read \notin relieved
          ]_dispatchVars
    <2> SUFFICES ASSUME DispatchInv, DispatchNext, NEW d \in Decisions,
                        decision'[d].served > decision[d].served
                 PROVE  decision[d].read \notin relieved
      BY DEF dispatchVars
    <2>1. ServeDispatch(d)
      BY CarriedOutIsServed DEF DispatchInv
    <2>2. CASE decision[d].read = Nobody
      BY <2>2, NobodyAssumption DEF DispatchInv, DispatchTypeOK
    <2>3. CASE decision[d].read # Nobody
      <3>1. assigned = decision[d].read
        BY <2>1, <2>3 DEF ServeDispatch, Body
      <3> QED BY <3>1 DEF DispatchInv
    <2> QED BY <2>2, <2>3
  <1> QED BY <1>1, DispatchInitInv, DispatchNextInv, PTL DEF DispatchSpec, NoLostUpdate

-----------------------------------------------------------------------------
(* The pages of audit_read_file. *)

LEMMA MinOfTwo == \A a, b \in Int : Min({a, b}) = IF a <= b THEN a ELSE b
  <1> SUFFICES ASSUME NEW a \in Int, NEW b \in Int
               PROVE  Min({a, b}) = IF a <= b THEN a ELSE b
    OBVIOUS
  <1>1. \E x \in {a, b} : \A y \in {a, b} : x <= y
    OBVIOUS
  <1>2. Min({a, b}) \in {a, b} /\ \A y \in {a, b} : Min({a, b}) <= y
    BY <1>1 DEF Min
  <1> QED BY <1>2

LEMMA MaxOfTwo == \A a, b \in Int : Max({a, b}) = IF a >= b THEN a ELSE b
  <1> SUFFICES ASSUME NEW a \in Int, NEW b \in Int
               PROVE  Max({a, b}) = IF a >= b THEN a ELSE b
    OBVIOUS
  <1>1. \E x \in {a, b} : \A y \in {a, b} : x >= y
    OBVIOUS
  <1>2. Max({a, b}) \in {a, b} /\ \A y \in {a, b} : Max({a, b}) >= y
    BY <1>1 DEF Max
  <1> QED BY <1>2

\* A page has room for a line at least.
LEMMA LinesPositive == ASSUME NEW max \in Int PROVE Lines(max) \in Nat \ {0}
  <1> DEFINE n == IF max = 0 THEN DefaultLines ELSE max
             m == Max({n, 1})
  <1>1. n \in Int
    BY LinesAssumption
  <1> HIDE DEF n
  <1>2. m \in Int /\ m >= 1
    BY <1>1, MaxOfTwo
  <1>3. Lines(max) = Min({m, MostLines})
    BY DEF Lines, n
  <1> HIDE DEF m
  <1> QED BY <1>2, <1>3, LinesAssumption, MinOfTwo

\* The ends a reader may name: a line, or so many before the last.
Ends == {None} \union (-2 .. MaxLength + 1)
FromEnd(end_line) == Given(end_line) /\ end_line < 0

\* Where a page ends: nowhere past the end of the file, wherever it begins, and at a
\* negative end only if it was asked for.
LEMMA LastIndexBounds ==
    ASSUME NEW start \in Nat, NEW end_line \in Ends, NEW max \in Int, length \in Nat
    PROVE  /\ LastIndex(start, end_line, max) \in -2 .. length
           /\ ~FromEnd(end_line) => LastIndex(start, end_line, max) >= 0
  <1>1. CASE Given(end_line)
    <2>1. end_line \in Int /\ end_line >= -2
      BY <1>1, MaxLengthAssumption DEF Given, Ends
    <2>2. LastIndex(start, end_line, max) = Min({end_line, length})
      BY <1>1 DEF LastIndex
    <2>3. Min({end_line, length}) = IF end_line <= length THEN end_line ELSE length
      BY <2>1, MinOfTwo
    <2>4. ~FromEnd(end_line) => end_line >= 0
      BY <1>1, <2>1 DEF FromEnd
    <2> QED BY <2>1, <2>2, <2>3, <2>4
  <1>2. CASE ~Given(end_line)
    <2> DEFINE e == start + Lines(max)
    <2>1. e \in Nat
      BY LinesPositive
    <2>2. LastIndex(start, end_line, max) = Min({e, length})
      BY <1>2 DEF LastIndex
    <2> HIDE DEF e
    <2>3. Min({e, length}) = IF e <= length THEN e ELSE length
      BY <2>1, MinOfTwo
    <2> QED BY <2>1, <2>2, <2>3
  <1> QED BY <1>1, <1>2

\* The lines before that end, which are lines of the file.
LEMMA LinesToBounds ==
    ASSUME NEW start \in Nat, NEW end \in Int, end <= length, length \in Nat
    PROVE  /\ LinesTo(start, end) \subseteq 1 .. length
           /\ end >= 0 => LinesTo(start, end) = start + 1 .. end
  <1>1. CASE end < 0
    <2>1. LinesTo(start, end) = start + 1 .. length + end
      BY <1>1 DEF LinesTo
    <2> QED BY <1>1, <2>1
  <1>2. CASE ~(end < 0)
    <2>1. Min({end, length}) = end
      BY MinOfTwo
    <2>2. LinesTo(start, end) = start + 1 .. end
      BY <1>2, <2>1 DEF LinesTo
    <2> QED BY <1>2, <2>2
  <1> QED BY <1>1, <1>2

\* Where a page begins.
LEMMA PageStart ==
    ASSUME NEW start_line \in {None} \union (-1 .. MaxLength + 1)
    PROVE  (IF Given(start_line) THEN Max({start_line - 1, 0}) ELSE 0) \in 0 .. MaxLength
  <1>1. CASE Given(start_line)
    <2>1. start_line \in Int /\ start_line <= MaxLength + 1
      BY <1>1, MaxLengthAssumption DEF Given
    <2>2. start_line - 1 \in Int /\ 0 \in Int
      BY <2>1
    <2>3. Max({start_line - 1, 0}) = IF start_line - 1 >= 0 THEN start_line - 1 ELSE 0
      BY <2>2, MaxOfTwo
    <2> QED BY <1>1, <2>1, <2>3, MaxLengthAssumption
  <1>2. CASE ~Given(start_line)
    BY <1>2, MaxLengthAssumption
  <1> QED BY <1>1, <1>2

\* An answer holds lines of the file, those between the two it names if its end is no
\* negative number.
PageFits(p) ==
    /\ p.start \in 1 .. MaxLength + 1 /\ p.end \in -2 .. length
    /\ p.lines \subseteq 1 .. p.total
    /\ p.end >= 0 => p.lines = p.start .. p.end
    /\ p.error \in BOOLEAN /\ p.total \in 0 .. length /\ p.end <= p.total

LEMMA PageBounds ==
    ASSUME NEW start_line \in {None} \union (-1 .. MaxLength + 1),
           NEW end_line \in Ends, NEW max \in Int,
           length \in 0 .. MaxLength
    PROVE  /\ PageFits(Page(start_line, end_line, max))
           /\ ~FromEnd(end_line) => Page(start_line, end_line, max).end >= 0
  <1> DEFINE p == Page(start_line, end_line, max)
             start == IF Given(start_line) THEN Max({start_line - 1, 0}) ELSE 0
             end == LastIndex(start, end_line, max)
  <1>0. length \in Nat /\ length <= MaxLength
    BY MaxLengthAssumption
  <1>1. start \in 0 .. MaxLength
    BY PageStart
  <1> HIDE DEF start
  <1>2. end \in -2 .. length /\ (~FromEnd(end_line) => end >= 0)
    <2>1. start \in Nat
      BY <1>1, MaxLengthAssumption
    <2> QED BY <1>0, <2>1, LastIndexBounds
  <1> HIDE DEF end
  <1>3. /\ LinesTo(start, end) \subseteq 1 .. length
        /\ end >= 0 => LinesTo(start, end) = start + 1 .. end
    <2>1. start \in Nat /\ end \in Int /\ end <= length
      BY <1>0, <1>1, <1>2, MaxLengthAssumption
    <2> QED BY <1>0, <2>1, LinesToBounds
  <1>4. \/ p = [NoPage EXCEPT !.error = TRUE]
        \/ p = [start |-> start + 1, end |-> end, total |-> length,
                lines |-> LinesTo(start, end), error |-> FALSE]
    BY DEF Page, start, end
  <1> HIDE DEF p
  <1>5. PageFits(p) /\ (~FromEnd(end_line) => p.end >= 0)
    <2>1. CASE p = [NoPage EXCEPT !.error = TRUE]
      <3>1. p.start = 1 /\ p.end = 0 /\ p.total = 0 /\ p.lines = {} /\ p.error = TRUE
        BY <2>1 DEF NoPage
      <3>2. 1 .. 0 = {} /\ 1 \in 1 .. MaxLength + 1
            /\ 0 \in 0 .. length /\ 0 \in -2 .. length
        BY <1>0, MaxLengthAssumption
      <3>3. p.error \in BOOLEAN
        BY <3>1, Zenon
      <3> QED BY <3>1, <3>2, <3>3 DEF PageFits
    <2>2. CASE p = [start |-> start + 1, end |-> end, total |-> length,
                    lines |-> LinesTo(start, end), error |-> FALSE]
      <3>1. p.start = start + 1 /\ p.end = end /\ p.total = length
            /\ p.lines = LinesTo(start, end) /\ p.error = FALSE
        BY <2>2
      <3>2. p.error \in BOOLEAN
        BY <3>1, Zenon
      <3> QED BY <1>0, <1>1, <1>2, <1>3, <3>1, <3>2, MaxLengthAssumption DEF PageFits
    <2> QED BY <1>4, <2>1, <2>2
  <1> QED BY <1>5 DEF p

\* Where the reader goes on is in the file or one line after, until it is rewritten.
AuditInv ==
    /\ AuditTypeOK
    /\ ~rewritten /\ ~fromEnd => 1 <= from /\ from <= next /\ next <= length + 1
    /\ PagesCover

LEMMA AuditInitInv == AuditInit => AuditInv
  <1> SUFFICES ASSUME AuditInit PROVE AuditInv
    OBVIOUS
  <1>1. /\ length = 0 /\ from = 1 /\ next = 1 /\ covered = {} /\ rewritten = FALSE
        /\ page.start = 1 /\ page.end = 0 /\ page.total = 0 /\ page.lines = {}
    BY DEF AuditInit, NoPage
  <1>2. page.error \in BOOLEAN /\ fromEnd \in BOOLEAN /\ rewritten \in BOOLEAN
    BY Zenon DEF AuditInit, NoPage
  <1>3. 1 .. 0 = {} /\ 1 \in 1 .. MaxLength + 1 /\ 1 \in -1 .. MaxLength + 1
        /\ 0 \in 0 .. MaxLength /\ 0 \in 0 .. 0 /\ 0 \in -2 .. 0
    BY MaxLengthAssumption
  <1>4. AuditTypeOK
    BY <1>1, <1>2, <1>3 DEF AuditTypeOK
  <1>5. PagesCover
    BY <1>1, <1>3 DEF PagesCover
  <1> QED BY <1>1, <1>4, <1>5 DEF AuditInv

\* A page that was read is typed whatever the file was before.
LEMMA PageTyped ==
    ASSUME length \in 0 .. MaxLength, PageFits(page')
    PROVE  /\ page'.start \in 1 .. MaxLength + 1 /\ page'.end \in -2 .. page'.total
           /\ page'.lines \subseteq 1 .. page'.total /\ page'.total \in 0 .. MaxLength
           /\ page'.error \in BOOLEAN
           /\ page'.lines \subseteq 1 .. MaxLength
           /\ page'.end + 1 \in -1 .. MaxLength + 1
  BY MaxLengthAssumption DEF PageFits

LEMMA ReadFromKeeps == ASSUME AuditInv, ReadFrom PROVE AuditInv'
  <1>1. length \in 0 .. MaxLength
    BY DEF AuditInv, AuditTypeOK
  <1>2. PICK start_line \in {None} \union (-1 .. MaxLength + 1),
             end_line \in Ends, max \in {-1, 0, MostLines + 1} :
          page' = Page(start_line, end_line, max) /\ fromEnd' = FromEnd(end_line)
    BY DEF ReadFrom, Ends, FromEnd
  <1>3. PageFits(page') /\ (~fromEnd' => page'.end >= 0)
    <2>1. max \in Int
      BY LinesAssumption
    <2> QED BY <1>1, <1>2, <2>1, PageBounds
  <1>4. /\ from' = Min({page'.start, page'.end + 1}) /\ next' = page'.end + 1
        /\ covered' = page'.lines /\ rewritten' = FALSE /\ length' = length
    BY DEF ReadFrom
  <1>5. from' = IF page'.start <= page'.end + 1 THEN page'.start ELSE page'.end + 1
    <2>1. page'.start \in Int /\ page'.end + 1 \in Int
      BY <1>1, <1>3, MaxLengthAssumption DEF PageFits
    <2> QED BY <1>4, <2>1, MinOfTwo
  <1>6. /\ from' \in -1 .. MaxLength + 1 /\ from' <= next' /\ next' <= length' + 1
        /\ page'.end >= 0 => 1 <= from'
    <2>1. /\ page'.start \in Int /\ page'.end \in Int /\ length \in Int
          /\ page'.start >= 1 /\ page'.start <= MaxLength + 1
          /\ page'.end >= -2 /\ page'.end <= length /\ length <= MaxLength
      BY <1>1, <1>3, MaxLengthAssumption DEF PageFits
    <2> QED BY <1>4, <1>5, <2>1, MaxLengthAssumption
  <1>7. AuditTypeOK'
    <2>1. rewritten' \in BOOLEAN /\ fromEnd' \in BOOLEAN
      BY <1>2, <1>4, Zenon DEF FromEnd
    <2> QED BY <1>1, <1>3, <1>4, <1>6, <2>1, PageTyped DEF AuditTypeOK
  <1>8. PagesCover'
    <2> SUFFICES ASSUME ~fromEnd' PROVE covered' = from' .. next' - 1
      BY DEF PagesCover
    <2>1. page'.lines = page'.start .. page'.end /\ page'.start \in Int /\ page'.end \in Int
      BY <1>1, <1>3, MaxLengthAssumption DEF PageFits
    <2>2. covered' = from' .. next' - 1
      <3>1. next' - 1 = page'.end
        BY <1>4, <2>1
      <3>2. CASE page'.start <= page'.end + 1
        BY <1>4, <1>5, <2>1, <3>1, <3>2
      <3>3. CASE ~ (page'.start <= page'.end + 1)
        <4>1. covered' = {}
          BY <1>4, <2>1, <3>3
        <4>2. from' .. page'.end = {}
          BY <1>5, <2>1, <3>3
        <4> QED BY <3>1, <4>1, <4>2
      <3> QED BY <3>2, <3>3
    <2> QED BY <2>2
  <1> QED BY <1>3, <1>6, <1>7, <1>8 DEF AuditInv

\* The next page begins one line after the last.
LEMMA PageGoesOn ==
    ASSUME AuditInv, ReadOn
    PROVE  /\ PageFits(page')
           /\ page'.end >= 0
           /\ ~rewritten /\ ~fromEnd =>
                page'.lines = next .. page'.end /\ next <= page'.end + 1
  <1>1. length \in 0 .. MaxLength /\ next \in -1 .. MaxLength + 1
    BY DEF AuditInv, AuditTypeOK
  <1>2. PICK max \in {0, 1} : page' = Page(next, None, max)
    BY DEF ReadOn
  <1>3. PageFits(page') /\ page'.end >= 0
    <2>1. max \in Int /\ None \in Ends /\ ~FromEnd(None)
      BY DEF Ends, FromEnd, Given
    <2> QED BY <1>1, <1>2, <2>1, PageBounds
  <1>4. ASSUME ~rewritten, ~fromEnd
        PROVE  page'.lines = next .. page'.end /\ next <= page'.end + 1
    <2> DEFINE e == next - 1 + Lines(max)
    <2>1. next \in Int /\ next - 1 \in Nat /\ next <= length + 1 /\ next # 0 /\ next # None
          /\ length \in Nat
      <3>1. next \in Int /\ length \in Nat
        BY <1>1, MaxLengthAssumption
      <3>2. 1 <= from /\ from <= next /\ next <= length + 1 /\ from \in Int
        BY <1>4, MaxLengthAssumption DEF AuditInv, AuditTypeOK
      <3>3. next # None
        BY <3>1, NoneAssumption
      <3> QED BY <3>1, <3>2, <3>3
    <2>2. Max({next - 1, 0}) = next - 1
      BY <2>1, MaxOfTwo
    <2>3. e \in Nat /\ e >= next
      BY <2>1, LinesPositive
    <2>4. LastIndex(next - 1, None, max) = Min({e, length})
      BY DEF LastIndex, Given
    <2> HIDE DEF e
    <2>5. Min({e, length}) \in Int /\ next - 1 <= Min({e, length})
      BY <2>1, <2>3, MinOfTwo
    <2>6. page'.start = next /\ page'.end = Min({e, length})
      <3>1. Page(next, None, max).start = next - 1 + 1
            /\ Page(next, None, max).end = LastIndex(next - 1, None, max)
        BY <2>1, <2>2 DEF Page, Given
      <3> QED BY <1>2, <2>1, <2>4, <3>1
    <2> QED BY <1>3, <2>1, <2>5, <2>6 DEF PageFits
  <1> QED BY <1>3, <1>4

LEMMA ReadOnKeeps == ASSUME AuditInv, ReadOn PROVE AuditInv'
  <1>1. length \in 0 .. MaxLength /\ from \in -1 .. MaxLength + 1 /\ next \in -1 .. MaxLength + 1
        /\ covered \subseteq 1 .. MaxLength /\ fromEnd \in BOOLEAN /\ rewritten \in BOOLEAN
    BY DEF AuditInv, AuditTypeOK
  <1>2. PageFits(page')
    BY PageGoesOn
  <1>3. /\ next' = page'.end + 1 /\ covered' = covered \union page'.lines
        /\ length' = length /\ from' = from /\ fromEnd' = fromEnd /\ rewritten' = rewritten
    BY DEF ReadOn
  <1>4. AuditTypeOK'
    <2>1. rewritten' \in BOOLEAN /\ fromEnd' \in BOOLEAN
      BY <1>1, <1>3, Zenon
    <2> QED BY <1>1, <1>2, <1>3, <2>1, PageTyped DEF AuditTypeOK
  <1>5. ~rewritten' /\ ~fromEnd' => 1 <= from' /\ from' <= next' /\ next' <= length' + 1
    BY <1>1, <1>2, <1>3, PageGoesOn, MaxLengthAssumption DEF AuditInv, PageFits
  <1>6. PagesCover'
    <2> SUFFICES ASSUME ~rewritten, ~fromEnd PROVE covered' = from' .. next' - 1
      BY <1>3 DEF PagesCover
    <2>1. covered = from .. next - 1 /\ from <= next
      BY DEF AuditInv, PagesCover
    <2>2. page'.lines = next .. page'.end /\ next <= page'.end + 1 /\ page'.end \in Int
      BY <1>1, <1>2, PageGoesOn, MaxLengthAssumption DEF PageFits
    <2> QED BY <1>1, <1>3, <2>1, <2>2, MaxLengthAssumption
  <1> QED BY <1>4, <1>5, <1>6 DEF AuditInv

LEMMA AuditNextInv == AuditInv /\ [AuditNext]_auditVars => AuditInv'
  <1> SUFFICES ASSUME AuditInv, [AuditNext]_auditVars PROVE AuditInv'
    OBVIOUS
  <1>1. CASE FileGrows
    <2>1. length' \in 0 .. MaxLength /\ length' = length + 1
          /\ UNCHANGED <<page, from, next, covered, fromEnd, rewritten>>
      BY <1>1, MaxLengthAssumption DEF FileGrows, AuditInv, AuditTypeOK
    <2>2. length \in Int /\ next \in Int
      BY MaxLengthAssumption DEF AuditInv, AuditTypeOK
    <2> QED BY <2>1, <2>2 DEF AuditInv, AuditTypeOK, PagesCover
  <1>2. CASE FileIsRewritten
    <2>1. rewritten' \in BOOLEAN
      BY <1>2, Zenon DEF FileIsRewritten
    <2> QED BY <1>2, <2>1 DEF FileIsRewritten, AuditInv, AuditTypeOK, PagesCover
  <1>3. CASE ReadFrom
    BY <1>3, ReadFromKeeps
  <1>4. CASE ReadOn
    BY <1>4, ReadOnKeeps
  <1>5. CASE UNCHANGED auditVars
    BY <1>5 DEF auditVars, AuditInv, AuditTypeOK, PagesCover
  <1> QED BY <1>1, <1>2, <1>3, <1>4, <1>5 DEF AuditNext

\* Pages, and what the reader has been given, lie in the file as it may be: of
\* audit_read_file with its line arguments as they may be given.
THEOREM AuditTypeCorrect == AuditSpec => []AuditTypeOK
  <1>1. AuditInv => AuditTypeOK
    BY DEF AuditInv
  <1> QED BY <1>1, AuditInitInv, AuditNextInv, PTL DEF AuditSpec

\* A reader of audit_read_file that goes on where it was told has every line from its
\* first to there, for any length of the file and of a page, any start_line, max_lines and
\* non-negative end_line, unless the file is rewritten.
THEOREM PagesAreComplete == AuditSpec => []PagesCover
  <1>1. AuditInv => PagesCover
    BY DEF AuditInv
  <1> QED BY <1>1, AuditInitInv, AuditNextInv, PTL DEF AuditSpec

\* And audit_read_file gives it no line a second time.
THEOREM LinesComeOnce == AuditSpec => NoLineTwice
  <1>1. AuditInv /\ [AuditNext]_auditVars =>
          [ReadOn /\ ~rewritten /\ ~fromEnd => page'.lines \intersect covered = {}]_auditVars
    <2> SUFFICES ASSUME AuditInv, ReadOn, ~rewritten, ~fromEnd
                 PROVE  page'.lines \intersect covered = {}
      BY DEF auditVars
    <2>1. page'.lines = next .. page'.end
      BY PageGoesOn
    <2>2. covered = from .. next - 1
      BY DEF AuditInv, PagesCover
    <2>3. next \in Int /\ from \in Int /\ page'.end \in Int
      BY PageGoesOn, MaxLengthAssumption DEF AuditInv, AuditTypeOK, PageFits
    <2> QED BY <2>1, <2>2, <2>3
  <1> QED BY <1>1, AuditInitInv, AuditNextInv, PTL DEF AuditSpec, NoLineTwice

=============================================================================
