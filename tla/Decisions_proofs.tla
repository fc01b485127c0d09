-------------------------- MODULE Decisions_proofs --------------------------
(***************************************************************************)
(* Proofs about the two decisions that are made without asking anybody:    *)
(* what a shell command is held back by (ActionPolicy), and which client a *)
(* phone or a name means (ClientResolution).                               *)
(***************************************************************************)
EXTENDS ActionPolicy, ClientResolution, SequenceTheorems, FiniteSetTheorems, TLAPS

-----------------------------------------------------------------------------
(* classify_terminal_command. *)

\* The lists that hold a command back, and that come before those that do not.
GatedLists ==
    {"DESTRUCTIVE", "SERVICE_MUTATION", "DATABASE_MUTATION", "DEPLOYMENT", "REPOSITORY_MUTATION"}

LEMMA CheckOrderIs ==
    /\ DOMAIN CheckOrder = 1 .. 7
    /\ CheckOrder[1] = "DESTRUCTIVE" /\ CheckOrder[2] = "SERVICE_MUTATION"
    /\ CheckOrder[3] = "DATABASE_MUTATION" /\ CheckOrder[4] = "DEPLOYMENT"
    /\ CheckOrder[5] = "REPOSITORY_MUTATION" /\ CheckOrder[6] = "SAFE_EXECUTION"
    /\ CheckOrder[7] = "READ_ONLY"
  BY DEF CheckOrder

\* Seven lists, so that one is the first.
LEMMA FirstHit ==
    ASSUME NEW hits \in SUBSET (1 .. 7), hits # {}
    PROVE  Min(hits) \in hits /\ \A k \in hits : Min(hits) <= k
  <1>1. \E m \in hits : \A k \in hits : m <= k
    <2>1. CASE 1 \in hits
      BY <2>1
    <2>2. CASE 1 \notin hits /\ 2 \in hits
      BY <2>2
    <2>3. CASE 1 \notin hits /\ 2 \notin hits /\ 3 \in hits
      BY <2>3
    <2>4. CASE 1 \notin hits /\ 2 \notin hits /\ 3 \notin hits /\ 4 \in hits
      BY <2>4
    <2>5. CASE \A k \in 1 .. 4 : k \notin hits
      <3>1. \A k \in hits : k \in {5, 6, 7}
        BY <2>5
      <3>2. CASE 5 \in hits
        BY <3>1, <3>2
      <3>3. CASE 5 \notin hits /\ 6 \in hits
        BY <3>1, <3>3
      <3>4. CASE 5 \notin hits /\ 6 \notin hits
        <4>1. \A k \in hits : k = 7
          BY <3>1, <3>4
        <4>2. 7 \in hits
          BY <4>1
        <4> QED BY <4>1, <4>2
      <3> QED BY <3>2, <3>3, <3>4
    <2>6. 1 .. 4 = {1, 2, 3, 4}
      OBVIOUS
    <2> QED BY <2>1, <2>2, <2>3, <2>4, <2>5, <2>6
  <1> QED BY <1>1 DEF Min

\* How far a command is held back, by the lists that match it: DESTRUCTIVE, tried
\* first, settles it, the gated lists are tried before the others, and only a command
\* that no list knows needs a BUILD scope.
LEMMA HeldByLists ==
    ASSUME NEW cmd, cmd # <<>>
    PROVE  /\ Held(cmd) = 3 <=> Matches(cmd, "DESTRUCTIVE")
           /\ Held(cmd) >= 2 <=> \E category \in GatedLists : Matches(cmd, category)
           /\ Held(cmd) = 1 => ~Matches(cmd, "SAFE_EXECUTION") /\ ~Matches(cmd, "READ_ONLY")
           /\ Held(cmd) = 0 => Matches(cmd, "SAFE_EXECUTION") \/ Matches(cmd, "READ_ONLY")
           /\ Held(cmd) \in 0 .. 3
  <1> DEFINE hits == {k \in DOMAIN CheckOrder : Matches(cmd, CheckOrder[k])}
             category == ClassifyTerminalCommand(cmd)
  <1>1. hits \in SUBSET (1 .. 7)
    BY CheckOrderIs
  <1>2. \A k \in 1 .. 7 : k \in hits <=> Matches(cmd, CheckOrder[k])
    BY CheckOrderIs
  <1>3. category = IF hits = {} THEN "WORKSPACE_MUTATION" ELSE CheckOrder[Min(hits)]
    BY DEF ClassifyTerminalCommand
  <1>4. Held(cmd) = IF category = "DESTRUCTIVE" THEN 3
                    ELSE IF category \in GatedLists THEN 2
                    ELSE IF category = "WORKSPACE_MUTATION" THEN 1 ELSE 0
    BY DEF Held, RequiresGatedApproval, GatedLists
  <1> HIDE DEF hits, category
  <1>5. CASE hits = {}
    <2>1. Held(cmd) = 1
      BY <1>3, <1>4, <1>5 DEF GatedLists
    <2>2. \A c \in GatedLists \union {"SAFE_EXECUTION", "READ_ONLY"} : ~Matches(cmd, c)
      BY <1>2, <1>5, CheckOrderIs DEF GatedLists
    <2> QED BY <2>1, <2>2 DEF GatedLists
  <1>6. CASE hits # {}
    <2>1. PICK m : m = Min(hits)
      OBVIOUS
    <2>2. m \in hits /\ m \in 1 .. 7 /\ \A k \in hits : m <= k
      BY <1>1, <1>6, <2>1, FirstHit
    <2>3. category = CheckOrder[m]
      BY <1>3, <1>6, <2>1
    <2>4. category = "DESTRUCTIVE" <=> m = 1
      BY <2>2, <2>3, CheckOrderIs
    <2>5. category \in GatedLists <=> m <= 5
      BY <2>2, <2>3, CheckOrderIs DEF GatedLists
    <2>6. Matches(cmd, "DESTRUCTIVE") <=> m = 1
      BY <1>2, <2>2, CheckOrderIs
    <2>7. (\E c \in GatedLists : Matches(cmd, c)) <=> m <= 5
      <3>1. m <= 5 => Matches(cmd, CheckOrder[m]) /\ CheckOrder[m] \in GatedLists
        BY <1>2, <2>2, <2>3, <2>5
      <3>2. ASSUME NEW c \in GatedLists, Matches(cmd, c) PROVE m <= 5
        <4>1. PICK k \in 1 .. 5 : c = CheckOrder[k]
          BY <3>2, CheckOrderIs DEF GatedLists
        <4>2. k \in hits
          BY <1>2, <3>2, <4>1
        <4> QED BY <2>2, <4>1, <4>2
      <3> QED BY <3>1, <3>2
    <2>8. category # "WORKSPACE_MUTATION"
      BY <2>2, <2>3, CheckOrderIs
    <2>9. Held(cmd) = IF m = 1 THEN 3 ELSE IF m <= 5 THEN 2 ELSE 0
      BY <1>4, <2>4, <2>5, <2>8
    <2>10. m = 6 \/ m = 7 => Matches(cmd, "SAFE_EXECUTION") \/ Matches(cmd, "READ_ONLY")
      BY <1>2, <2>2, CheckOrderIs
    <2> QED BY <2>2, <2>6, <2>7, <2>9, <2>10
  <1> QED BY <1>5, <1>6

LEMMA NothingHolds == Held(<<>>) = 0
  BY DEF Held, ClassifyTerminalCommand, RequiresGatedApproval

\* What a phrase at the end leaves of a command.
LEMMA Appended ==
    ASSUME NEW cmd \in Seq(Phrases), NEW p \in Phrases, NEW longer, longer = Append(cmd, p)
    PROVE  /\ longer \in Seq(Phrases) /\ longer # <<>>
           /\ Len(cmd) \in Nat /\ Len(longer) = Len(cmd) + 1
           /\ DOMAIN cmd = 1 .. Len(cmd) /\ DOMAIN longer = 1 .. Len(cmd) + 1
           /\ \A k \in DOMAIN cmd : longer[k] = cmd[k]
           /\ longer[Len(cmd) + 1] = p
  <1>1. /\ longer \in Seq(Phrases) /\ longer # <<>> /\ Len(longer) = Len(cmd) + 1
        /\ \A k \in 1 .. Len(cmd) : longer[k] = cmd[k]
        /\ longer[Len(cmd) + 1] = p
    BY AppendProperties
  <1>2. Len(cmd) \in Nat /\ DOMAIN cmd = 1 .. Len(cmd) /\ DOMAIN longer = 1 .. Len(longer)
    BY <1>1, LenProperties
  <1> QED BY <1>1, <1>2

\* What a pattern sees in a command it sees in a longer one, but for a pattern that
\* asks for something not to follow, and then only if the new phrase is that.
LEMMA PatternsStay ==
    ASSUME NEW cmd \in Seq(Phrases), NEW p \in Phrases, NEW longer, longer = Append(cmd, p),
           NEW phrases, NEW phrase, NEW by
    PROVE  /\ Has(cmd, phrases) => Has(longer, phrases)
           /\ Followed(cmd, phrase, by) => Followed(longer, phrase, by)
           /\ NotFollowed(cmd, phrase, by) /\ p \notin by => NotFollowed(longer, phrase, by)
           /\ NotFollowed(cmd, phrase, by) /\ p \in by => Followed(longer, phrase, {p})
           /\ NotFollowed(cmd, phrase, by) => Has(cmd, {phrase})
  <1>1. /\ Len(cmd) \in Nat
        /\ DOMAIN cmd = 1 .. Len(cmd) /\ DOMAIN longer = 1 .. Len(cmd) + 1
        /\ \A k \in DOMAIN cmd : longer[k] = cmd[k]
        /\ longer[Len(cmd) + 1] = p
    BY Appended
  <1>2. \A k \in DOMAIN cmd : k \in DOMAIN longer /\ k < Len(cmd) + 1
    BY <1>1
  <1>3. Has(cmd, phrases) => Has(longer, phrases)
    BY <1>1, <1>2 DEF Has
  <1>4. Followed(cmd, phrase, by) => Followed(longer, phrase, by)
    BY <1>1, <1>2 DEF Followed
  <1>5. ASSUME NotFollowed(cmd, phrase, by), p \notin by PROVE NotFollowed(longer, phrase, by)
    <2>1. PICK k \in DOMAIN cmd :
            cmd[k] = phrase /\ \A m \in DOMAIN cmd : k < m => cmd[m] \notin by
      BY <1>5 DEF NotFollowed
    <2>2. ASSUME NEW m \in DOMAIN longer, k < m PROVE longer[m] \notin by
      <3>1. CASE m \in DOMAIN cmd
        BY <1>1, <2>1, <2>2, <3>1
      <3>2. CASE m = Len(cmd) + 1
        BY <1>1, <1>5, <3>2
      <3> QED BY <1>1, <3>1, <3>2
    <2>3. k \in DOMAIN longer /\ longer[k] = phrase
      BY <1>1, <1>2, <2>1
    <2> QED BY <2>2, <2>3 DEF NotFollowed
  <1>6. ASSUME NotFollowed(cmd, phrase, by) PROVE Followed(longer, phrase, {p}) /\ Has(cmd, {phrase})
    <2>1. PICK k \in DOMAIN cmd : cmd[k] = phrase
      BY <1>6 DEF NotFollowed
    <2>2. /\ k \in DOMAIN longer /\ Len(cmd) + 1 \in DOMAIN longer /\ k < Len(cmd) + 1
          /\ longer[k] = phrase /\ longer[Len(cmd) + 1] \in {p}
      BY <1>1, <1>2, <2>1
    <2> QED BY <2>1, <2>2 DEF Followed, Has
  <1> QED BY <1>3, <1>4, <1>5, <1>6

\* DESTRUCTIVE stays, but for a DELETE FROM that a WHERE is put after.
LEMMA DestructiveStays ==
    ASSUME NEW cmd \in Seq(Phrases), NEW p \in Phrases, NEW longer, longer = Append(cmd, p),
           Matches(cmd, "DESTRUCTIVE")
    PROVE  \/ Matches(longer, "DESTRUCTIVE")
           \/ p = "WHERE" /\ Has(cmd, {"DELETE_FROM"})
  <1>1. CASE Has(cmd, DestructivePhrases)
    BY <1>1, PatternsStay DEF Matches
  <1>2. CASE Followed(cmd, "git_push", {"--force", "-f"})
    BY <1>2, PatternsStay DEF Matches
  <1>3. CASE NotFollowed(cmd, "DELETE_FROM", {"WHERE"})
    <2>1. Has(cmd, {"DELETE_FROM"})
      BY <1>3, PatternsStay
    <2>2. p # "WHERE" => NotFollowed(longer, "DELETE_FROM", {"WHERE"})
      BY <1>3, PatternsStay
    <2> QED BY <2>1, <2>2 DEF Matches
  <1> QED BY <1>1, <1>2, <1>3 DEF Matches

\* A gated list goes on matching, or a --force put after a git push makes the command
\* one that is never run.
LEMMA GatedStays ==
    ASSUME NEW cmd \in Seq(Phrases), NEW p \in Phrases, NEW longer, longer = Append(cmd, p),
           NEW category \in GatedLists \ {"DESTRUCTIVE"}, Matches(cmd, category)
    PROVE  Matches(longer, category) \/ Matches(longer, "DESTRUCTIVE")
  <1>1. CASE category = "SERVICE_MUTATION"
    BY <1>1, PatternsStay DEF Matches
  <1>2. CASE category = "DATABASE_MUTATION"
    <2>1. CASE Has(cmd, DatabasePhrases)
      BY <1>2, <2>1, PatternsStay DEF Matches
    <2>2. CASE Followed(cmd, "psql", {"INSERT_INTO", "UPDATE_t_SET", "DELETE_FROM"})
      <3>1. PICK writes : writes = {"INSERT_INTO", "UPDATE_t_SET", "DELETE_FROM"}
        OBVIOUS
      <3>2. Followed(cmd, "psql", writes)
        BY <2>2, <3>1
      <3>3. Followed(longer, "psql", writes)
        BY <3>2, PatternsStay
      <3> QED BY <1>2, <3>1, <3>3 DEF Matches
    <2> QED BY <1>2, <2>1, <2>2 DEF Matches
  <1>3. CASE category = "DEPLOYMENT"
    <2>1. CASE Has(cmd, {"deploy.sh"})
      BY <1>3, <2>1, PatternsStay DEF Matches
    <2>2. CASE NotFollowed(cmd, "git_push", {"--force"}) /\ p # "--force"
      <3>1. NotFollowed(longer, "git_push", {"--force"})
        BY <2>2, PatternsStay
      <3> QED BY <1>3, <3>1 DEF Matches
    <2>3. CASE NotFollowed(cmd, "git_push", {"--force"}) /\ p = "--force"
      <3>1. Followed(longer, "git_push", {"--force"})
        BY <2>3, PatternsStay
      <3>2. Followed(longer, "git_push", {"--force", "-f"})
        BY <3>1 DEF Followed
      <3> QED BY <3>2 DEF Matches
    <2> QED BY <1>3, <2>1, <2>2, <2>3 DEF Matches
  <1>4. CASE category = "REPOSITORY_MUTATION"
    BY <1>4, PatternsStay DEF Matches
  <1> QED BY <1>1, <1>2, <1>3, <1>4 DEF GatedLists

LEMMA PolicyNextType == PolicyTypeOK /\ [PolicyNext]_command => PolicyTypeOK'
  <1> SUFFICES ASSUME PolicyTypeOK, [PolicyNext]_command PROVE PolicyTypeOK'
    OBVIOUS
  <1>1. CASE AppendPhrase
    <2>1. PICK p \in Phrases : command' = Append(command, p)
      BY <1>1 DEF AppendPhrase
    <2>2. command' \in Seq(Phrases) /\ Len(command) \in Nat /\ Len(command') = Len(command) + 1
      BY <2>1, Appended DEF PolicyTypeOK
    <2>3. Len(command) < MaxPhrases
      BY <1>1 DEF AppendPhrase
    <2> QED BY <2>2, <2>3, MaxPhrasesAssumption DEF PolicyTypeOK
  <1>2. CASE NewCommand
    <2>1. command' = <<>>
      BY <1>2 DEF NewCommand
    <2>2. <<>> \in Seq(Phrases) /\ Len(<<>>) = 0
      BY EmptySeq
    <2> QED BY <2>1, <2>2, MaxPhrasesAssumption DEF PolicyTypeOK
  <1>3. CASE UNCHANGED command
    BY <1>3 DEF PolicyTypeOK
  <1> QED BY <1>1, <1>2, <1>3 DEF PolicyNext

LEMMA PolicyInitType == PolicyInit => PolicyTypeOK
  <1>1. <<>> \in Seq(Phrases) /\ Len(<<>>) = 0
    BY EmptySeq
  <1> QED BY <1>1, MaxPhrasesAssumption DEF PolicyInit, PolicyTypeOK

\* A command is made of the phrases the patterns tell apart.
THEOREM PolicyTypeCorrect == PolicySpec => []PolicyTypeOK
  BY PolicyInitType, PolicyNextType, PTL DEF PolicySpec

\* What a list that frees a command sees in a longer one is in the command already, or
\* is the new phrase.
LEMMA FreedByThePhrase ==
    ASSUME NEW cmd \in Seq(Phrases), NEW p \in Phrases, NEW longer, longer = Append(cmd, p),
           cmd # <<>>,
           Matches(longer, "SAFE_EXECUTION") \/ Matches(longer, "READ_ONLY")
    PROVE  \/ Matches(cmd, "SAFE_EXECUTION") \/ Matches(cmd, "READ_ONLY")
           \/ p \in SafePhrases \union ReadAnywhere
  <1>1. /\ Len(cmd) \in Nat /\ Len(cmd) # 0
        /\ DOMAIN cmd = 1 .. Len(cmd) /\ DOMAIN longer = 1 .. Len(cmd) + 1
        /\ \A k \in DOMAIN cmd : longer[k] = cmd[k]
        /\ longer[Len(cmd) + 1] = p
    BY Appended, EmptySeq
  <1>2. \A phrases : Has(longer, phrases) => Has(cmd, phrases) \/ p \in phrases
    <2> SUFFICES ASSUME NEW phrases, NEW k \in DOMAIN longer, longer[k] \in phrases
                 PROVE  Has(cmd, phrases) \/ p \in phrases
      BY DEF Has
    <2>1. CASE k \in DOMAIN cmd
      BY <1>1, <2>1 DEF Has
    <2>2. CASE k = Len(cmd) + 1
      BY <1>1, <2>2
    <2> QED BY <1>1, <2>1, <2>2
  <1>3. Begins(longer, ReadFirst) => Begins(cmd, ReadFirst)
    <2>1. 1 \in DOMAIN cmd
      BY <1>1
    <2>2. Head(longer) = Head(cmd)
      BY <1>1, <2>1, HeadTailProperties, Appended
    <2> QED BY <2>2 DEF Begins
  <1> QED BY <1>2, <1>3 DEF Matches

\* One phrase more takes away what a command was held back by only as WHERE, or as one
\* that frees a command no list knew.
LEMMA AppendingKeepsApproval ==
    ASSUME NEW cmd \in Seq(Phrases), NEW p \in Phrases, NEW longer, longer = Append(cmd, p)
    PROVE  LET chained == longer[Len(longer)] IN
             /\ \/ Held(longer) >= Held(cmd)
                \/ chained = "WHERE" /\ Has(cmd, {"DELETE_FROM"})
                \/ chained \in SafePhrases \union ReadAnywhere /\ Held(cmd) = 1
             /\ Followed(longer, "psql", {"DELETE_FROM"}) => Held(longer) >= 2
  <1>1. longer # <<>> /\ Len(longer) = Len(cmd) + 1 /\ longer[Len(longer)] = p
    BY Appended
  <1>2. /\ Held(longer) = 3 <=> Matches(longer, "DESTRUCTIVE")
        /\ Held(longer) >= 2 <=> \E category \in GatedLists : Matches(longer, category)
        /\ Held(longer) = 0 => Matches(longer, "SAFE_EXECUTION") \/ Matches(longer, "READ_ONLY")
        /\ Held(longer) \in 0 .. 3
    BY <1>1, HeldByLists
  <1>3. Followed(longer, "psql", {"DELETE_FROM"}) => Held(longer) >= 2
    <2> SUFFICES ASSUME Followed(longer, "psql", {"DELETE_FROM"}) PROVE Held(longer) >= 2
      OBVIOUS
    <2>1. Followed(longer, "psql", {"INSERT_INTO", "UPDATE_t_SET", "DELETE_FROM"})
      BY DEF Followed
    <2>2. Matches(longer, "DATABASE_MUTATION")
      BY <2>1 DEF Matches
    <2>3. "DATABASE_MUTATION" \in GatedLists
      BY DEF GatedLists
    <2> QED BY <1>2, <2>2, <2>3
  <1>4. CASE cmd = <<>>
    BY <1>2, <1>3, <1>4, NothingHolds
  <1>5. CASE cmd # <<>>
    <2>1. /\ Held(cmd) = 3 <=> Matches(cmd, "DESTRUCTIVE")
          /\ Held(cmd) >= 2 <=> \E category \in GatedLists : Matches(cmd, category)
          /\ Held(cmd) = 1 => ~Matches(cmd, "SAFE_EXECUTION") /\ ~Matches(cmd, "READ_ONLY")
          /\ Held(cmd) \in 0 .. 3
      BY <1>5, HeldByLists
    <2>2. CASE Matches(cmd, "DESTRUCTIVE")
      <3>1. \/ Matches(longer, "DESTRUCTIVE")
            \/ p = "WHERE" /\ Has(cmd, {"DELETE_FROM"})
        BY <2>2, DestructiveStays
      <3> QED BY <1>1, <1>2, <1>3, <2>1, <3>1
    <2>3. CASE ~Matches(cmd, "DESTRUCTIVE") /\ Held(cmd) >= 2
      <3>1. PICK category \in GatedLists \ {"DESTRUCTIVE"} : Matches(cmd, category)
        BY <2>1, <2>3
      <3>2. Matches(longer, category) \/ Matches(longer, "DESTRUCTIVE")
        BY <3>1, GatedStays
      <3>3. Held(longer) >= 2
        BY <1>2, <3>1, <3>2 DEF GatedLists
      <3>4. Held(cmd) = 2
        BY <2>1, <2>3
      <3> QED BY <1>2, <1>3, <3>3, <3>4
    <2>4. CASE Held(cmd) = 1
      <3>1. Held(longer) = 0 => p \in SafePhrases \union ReadAnywhere
        BY <1>2, <1>5, <2>1, <2>4, FreedByThePhrase
      <3>2. Held(longer) >= 1 \/ p \in SafePhrases \union ReadAnywhere
        BY <1>2, <3>1
      <3> QED BY <1>1, <1>3, <2>4, <3>2
    <2>5. CASE Held(cmd) = 0
      BY <1>2, <1>3, <2>5
    <2> QED BY <2>1, <2>2, <2>3, <2>4, <2>5
  <1> QED BY <1>4, <1>5

\* What classify_terminal_command holds a command back by survives chaining, but for a
\* WHERE after a DELETE FROM and for the BUILD scope of a command that no list knows: of
\* commands of any length made of any phrases.
THEOREM ApprovalsSurviveChaining == PolicySpec => ApprovalSurvivesChaining
  <1>1. ASSUME PolicyTypeOK, AppendPhrase
        PROVE  LET chained == command'[Len(command')] IN
                 /\ \/ Held(command') >= Held(command)
                    \/ chained = "WHERE" /\ Has(command, {"DELETE_FROM"})
                    \/ chained \in SafePhrases \union ReadAnywhere /\ Held(command) = 1
                 /\ Followed(command', "psql", {"DELETE_FROM"}) => Held(command') >= 2
    <2>1. PICK p \in Phrases : command' = Append(command, p)
      BY <1>1 DEF AppendPhrase
    <2>2. command \in Seq(Phrases)
      BY <1>1 DEF PolicyTypeOK
    <2> QED BY <2>1, <2>2, AppendingKeepsApproval
  <1> QED BY <1>1, PolicyInitType, PolicyNextType, PTL DEF PolicySpec, ApprovalSurvivesChaining

\* No gated list sees an edit in place, a test or a look at the log.
LEMMA NoGateInSight ==
    ASSUME NEW cmd, \A k \in DOMAIN cmd : cmd[k] \in {"sed_-i", "pytest", "git_log"},
           NEW category \in GatedLists
    PROVE  ~Matches(cmd, category)
  <1>1. ASSUME NEW phrases, phrases \intersect {"sed_-i", "pytest", "git_log"} = {}
        PROVE  ~Has(cmd, phrases)
    BY <1>1 DEF Has
  <1>2. ASSUME NEW phrase, phrase \notin {"sed_-i", "pytest", "git_log"}
        PROVE  \A by : ~Followed(cmd, phrase, by) /\ ~NotFollowed(cmd, phrase, by)
    BY <1>2 DEF Followed, NotFollowed
  <1>3. ~Has(cmd, DestructivePhrases) /\ ~Has(cmd, ServicePhrases) /\ ~Has(cmd, DatabasePhrases)
    <2>1. /\ DestructivePhrases \intersect {"sed_-i", "pytest", "git_log"} = {}
          /\ ServicePhrases \intersect {"sed_-i", "pytest", "git_log"} = {}
          /\ DatabasePhrases \intersect {"sed_-i", "pytest", "git_log"} = {}
      BY DEF DestructivePhrases, ServicePhrases, DatabasePhrases
    <2> QED BY <1>1, <2>1
  <1>4. ~Has(cmd, {"deploy.sh"}) /\ ~Has(cmd, {"git_commit"})
    BY <1>1
  <1>5. \A by : /\ ~Followed(cmd, "git_push", by) /\ ~NotFollowed(cmd, "git_push", by)
                /\ ~Followed(cmd, "psql", by) /\ ~NotFollowed(cmd, "DELETE_FROM", by)
    BY <1>2
  <1> QED BY <1>3, <1>4, <1>5 DEF Matches, GatedLists

\* The second exception is real: an edit in place needs an authorized BUILD scope, and
\* with a test or a look at the log chained to it classify_terminal_command lets it go
\* freely.
THEOREM ChainingFreesAnEdit ==
    /\ Held(<<"sed_-i">>) = 1
    /\ Held(<<"sed_-i", "pytest">>) = 0
    /\ Held(<<"sed_-i", "git_log">>) = 0
  <1>1. Held(<<"sed_-i">>) = 1
    <2>1. PICK cmd : cmd = <<"sed_-i">>
      OBVIOUS
    <2>2. cmd # <<>> /\ DOMAIN cmd = {1} /\ cmd[1] = "sed_-i" /\ Head(cmd) = "sed_-i"
      BY <2>1
    <2>3. ~Matches(cmd, "SAFE_EXECUTION") /\ ~Matches(cmd, "READ_ONLY")
      BY <2>2 DEF Matches, Has, Begins, SafePhrases, ReadAnywhere, ReadFirst
    <2>4. \A category \in GatedLists : ~Matches(cmd, category)
      BY <2>2, NoGateInSight
    <2>5. Held(cmd) \in 0 .. 3 /\ Held(cmd) # 0 /\ ~(Held(cmd) >= 2)
      BY <2>2, <2>3, <2>4, HeldByLists
    <2> QED BY <2>1, <2>5
  <1>2. Held(<<"sed_-i", "pytest">>) = 0
    <2>1. PICK cmd : cmd = <<"sed_-i", "pytest">>
      OBVIOUS
    <2>2. cmd # <<>> /\ DOMAIN cmd = {1, 2} /\ cmd[1] = "sed_-i" /\ cmd[2] = "pytest"
      BY <2>1
    <2>3. Matches(cmd, "SAFE_EXECUTION")
      BY <2>2 DEF Matches, Has, SafePhrases
    <2>4. \A category \in GatedLists : ~Matches(cmd, category)
      BY <2>2, NoGateInSight
    <2>5. Held(cmd) \in 0 .. 3 /\ Held(cmd) # 1 /\ ~(Held(cmd) >= 2)
      BY <2>2, <2>3, <2>4, HeldByLists
    <2> QED BY <2>1, <2>5
  <1>3. Held(<<"sed_-i", "git_log">>) = 0
    <2>1. PICK cmd : cmd = <<"sed_-i", "git_log">>
      OBVIOUS
    <2>2. cmd # <<>> /\ DOMAIN cmd = {1, 2} /\ cmd[1] = "sed_-i" /\ cmd[2] = "git_log"
      BY <2>1
    <2>3. Matches(cmd, "READ_ONLY")
      BY <2>2 DEF Matches, Has, ReadAnywhere
    <2>4. \A category \in GatedLists : ~Matches(cmd, category)
      BY <2>2, NoGateInSight
    <2>5. Held(cmd) \in 0 .. 3 /\ Held(cmd) # 1 /\ ~(Held(cmd) >= 2)
      BY <2>2, <2>3, <2>4, HeldByLists
    <2> QED BY <2>1, <2>5
  <1> QED BY <1>1, <1>2, <1>3

-----------------------------------------------------------------------------
(* find_client_billing_profile. *)

\* The answer that is given is the one that Find gives on the profiles as they are, or
\* that the rows could not be had; an answer is dropped when a profile changes.
AnswerStands ==
    \/ resolution.how = "unasked" /\ resolution.who = {}
    \/ resolution.how = "error" /\ resolution.who = {}
    \/ /\ resolution.how = Find(resolution.phone, resolution.part).how
       /\ resolution.who = Find(resolution.phone, resolution.part).who

ResolutionInv == ResolutionTypeOK /\ AnswerStands

\* What Find may answer, and of whom.
LEMMA FindAnswers ==
    ASSUME NEW phone, NEW part
    PROVE  LET byPhone == IF phone # <<>> THEN ByPhone(phone) ELSE {}
               matches == IF byPhone = {} /\ part # NoPart THEN ByName(part) ELSE byPhone
               answer == Find(phone, part) IN
             /\ matches \subseteq ClientId
             /\ phone = <<>> /\ part = NoPart => answer.how = "error" /\ answer.who = {}
             /\ ~(phone = <<>> /\ part = NoPart) =>
                  \/ answer.how = "found" /\ answer.who = matches /\ Cardinality(matches) = 1
                  \/ answer.how = "not_found" /\ answer.who = {} /\ matches = {}
                  \/ /\ answer.how = "ambiguous" /\ answer.who = matches
                     /\ matches # {} /\ Cardinality(matches) # 1
  <1> DEFINE byPhone == IF phone # <<>> THEN ByPhone(phone) ELSE {}
             matches == IF byPhone = {} /\ part # NoPart THEN ByName(part) ELSE byPhone
             answer == Find(phone, part)
  <1>1. matches \subseteq ClientId
    BY DEF ByPhone, ByName, Rows
  <1>2. answer = IF phone = <<>> /\ part = NoPart THEN Answered("error", {})
                 ELSE CASE Cardinality(matches) = 1 -> Answered("found", matches)
                        [] matches = {} -> Answered("not_found", {})
                        [] OTHER -> Answered("ambiguous", matches)
    BY DEF Find
  <1>3. Cardinality({}) = 0
    BY FS_EmptySet
  <1> HIDE DEF byPhone, matches, answer
  <1>4. CASE phone = <<>> /\ part = NoPart
    <2>1. answer.how = "error" /\ answer.who = {}
      BY <1>2, <1>4 DEF Answered
    <2> QED BY <1>1, <1>4, <2>1 DEF byPhone, matches, answer
  <1>5. CASE ~(phone = <<>> /\ part = NoPart)
    <2>1. CASE Cardinality(matches) = 1
      <3>1. matches # {}
        BY <1>3, <2>1
      <3>2. answer = Answered("found", matches)
        BY <1>2, <1>5, <2>1, <3>1
      <3>3. answer.how = "found" /\ answer.who = matches
        BY <3>2 DEF Answered
      <3> QED BY <1>1, <1>5, <2>1, <3>3 DEF byPhone, matches, answer
    <2>2. CASE matches = {}
      <3>1. Cardinality(matches) # 1
        BY <1>3, <2>2
      <3>2. answer = Answered("not_found", {})
        BY <1>2, <1>5, <2>2, <3>1
      <3>3. answer.how = "not_found" /\ answer.who = {}
        BY <3>2 DEF Answered
      <3> QED BY <1>1, <1>5, <2>2, <3>3 DEF byPhone, matches, answer
    <2>3. CASE matches # {} /\ Cardinality(matches) # 1
      <3>1. answer = Answered("ambiguous", matches)
        BY <1>2, <1>5, <2>3
      <3>2. answer.how = "ambiguous" /\ answer.who = matches
        BY <3>1 DEF Answered
      <3> QED BY <1>1, <1>5, <2>3, <3>2 DEF byPhone, matches, answer
    <2> QED BY <2>1, <2>2, <2>3
  <1> QED BY <1>4, <1>5

\* A profile that is changed leaves nobody asked for.
LEMMA UnaskedIsAnswer ==
    ASSUME resolution = Unasked
    PROVE  /\ AnswerStands
           /\ resolution.phone \in Phones /\ resolution.part \in Parts
           /\ resolution.how = "unasked" /\ resolution.who = {}
  BY NoneGivenAssumption DEF AnswerStands, Unasked

LEMMA ResolutionInitInv == ResolutionInit => ResolutionInv
  <1> SUFFICES ASSUME ResolutionInit PROVE ResolutionInv
    OBVIOUS
  <1>1. resolution = Unasked
    BY DEF ResolutionInit
  <1>2. profile \in [ClientId -> [name : Names, mobile : Mobiles, active : BOOLEAN]
                                   \union {NoProfile}]
    BY DEF ResolutionInit
  <1> QED BY <1>1, <1>2, UnaskedIsAnswer DEF ResolutionInv, ResolutionTypeOK

LEMMA ResolutionNextInv ==
    ResolutionInv /\ [ResolutionNext]_resolutionVars => ResolutionInv'
  <1> SUFFICES ASSUME ResolutionInv, [ResolutionNext]_resolutionVars PROVE ResolutionInv'
    OBVIOUS
  <1> DEFINE Profiles == [name : Names, mobile : Mobiles, active : BOOLEAN] \union {NoProfile}
  <1>1. profile \in [ClientId -> Profiles]
    BY DEF ResolutionInv, ResolutionTypeOK
  <1>2. ASSUME profile' \in [ClientId -> Profiles], resolution' = Unasked PROVE ResolutionInv'
    <2>1. /\ resolution'.phone = <<>> /\ resolution'.part = NoPart
          /\ resolution'.how = "unasked" /\ resolution'.who = {}
      BY <1>2 DEF Unasked
    <2> QED BY <1>2, <2>1, NoneGivenAssumption DEF ResolutionInv, ResolutionTypeOK, AnswerStands, NoProfile
  <1>3. CASE SaveProfile
    <2>1. PICK c \in ClientId, name \in Names, mobile \in Mobiles, active \in BOOLEAN :
            profile' = [profile EXCEPT ![c] = [name |-> name, mobile |-> mobile, active |-> active]]
      BY <1>3 DEF SaveProfile
    <2>2. [name |-> name, mobile |-> mobile, active |-> active] \in Profiles
      OBVIOUS
    <2> HIDE DEF Profiles
    <2>3. profile' \in [ClientId -> Profiles]
      BY <1>1, <2>1, <2>2
    <2> QED BY <1>2, <1>3, <2>3 DEF SaveProfile
  <1>4. CASE DeleteProfile
    <2>1. NoProfile \in Profiles
      OBVIOUS
    <2> HIDE DEF Profiles
    <2>2. profile' \in [ClientId -> Profiles]
      BY <1>1, <1>4, <2>1 DEF DeleteProfile
    <2> QED BY <1>2, <1>4, <2>2 DEF DeleteProfile
  <1>5. CASE FindClientBillingProfile
    <2>1. PICK phone \in Phones, part \in Parts :
            \E answer \in {Find(phone, part), Answered("error", {})} :
              resolution' = [phone |-> phone, part |-> part, how |-> answer.how, who |-> answer.who]
      BY <1>5 DEF FindClientBillingProfile
    <2>2. PICK answer \in {Find(phone, part), Answered("error", {})} :
            resolution' = [phone |-> phone, part |-> part, how |-> answer.how, who |-> answer.who]
      BY <2>1
    <2>3. /\ resolution'.phone = phone /\ resolution'.part = part
          /\ resolution'.how = answer.how /\ resolution'.who = answer.who
      BY <2>2
    <2>4. profile' = profile
      BY <1>5 DEF FindClientBillingProfile
    <2>5. Find(phone, part)' = Find(phone, part)
      BY <2>4 DEF Find, ByPhone, ByName, Rows
    <2>6. AnswerStands'
      <3>1. CASE answer = Find(phone, part)
        BY <2>3, <2>5, <3>1 DEF AnswerStands
      <3>2. CASE answer = Answered("error", {})
        BY <2>3, <3>2 DEF AnswerStands, Answered
      <3> QED BY <2>2, <3>1, <3>2
    <2>7. /\ answer.how \in {"unasked", "found", "ambiguous", "not_found", "error"}
          /\ answer.who \subseteq ClientId
          /\ answer.how = "found" => Cardinality(answer.who) = 1
      <3>1. CASE answer = Find(phone, part)
        BY <3>1, FindAnswers
      <3>2. CASE answer = Answered("error", {})
        BY <3>2 DEF Answered
      <3> QED BY <2>2, <3>1, <3>2
    <2> QED BY <1>1, <2>3, <2>4, <2>6, <2>7 DEF ResolutionInv, ResolutionTypeOK
  <1>6. CASE UNCHANGED resolutionVars
    BY <1>6 DEF resolutionVars, ResolutionInv, ResolutionTypeOK, AnswerStands, Find, ByPhone,
                ByName, Rows
  <1> QED BY <1>3, <1>4, <1>5, <1>6 DEF ResolutionNext

\* Whatever the profiles are, an answer is of a known kind, of clients there are, and
\* "found" names exactly one of them.
THEOREM ResolutionTypeCorrect == ResolutionSpec => []ResolutionTypeOK
  <1>1. ResolutionInv => ResolutionTypeOK
    BY DEF ResolutionInv
  <1> QED BY <1>1, ResolutionInitInv, ResolutionNextInv, PTL DEF ResolutionSpec

\* Where the last digits tell telephones apart, the search by phone finds the active
\* clients with that telephone.
LEMMA PhoneFindsTelephone ==
    ASSUME ResolutionTypeOK, Last10TellsTelephones, NEW phone \in Phones
    PROVE  (IF phone # <<>> THEN ByPhone(phone) ELSE {})
             = {c \in Rows : profile[c].mobile # <<>> /\ SameTelephone(profile[c].mobile, phone)}
  <1>1. ASSUME NEW c \in Rows
        PROVE  (profile[c].mobile # <<>> /\ SameTelephone(profile[c].mobile, phone))
                 <=> (phone # <<>> /\ Last10(phone) # <<>> /\ Last10(profile[c].mobile) = Last10(phone))
    <2>1. c \in ClientId /\ profile[c].active
      BY DEF Rows
    <2>2. profile[c] \in [name : Names, mobile : Mobiles, active : BOOLEAN]
      <3>1. NoProfile.active = FALSE
        BY DEF NoProfile
      <3>2. profile[c] # NoProfile
        BY <2>1, <3>1
      <3> QED BY <2>1, <3>2 DEF ResolutionTypeOK
    <2>3. profile[c].mobile \in Mobiles
      BY <2>2
    <2> QED BY <2>3 DEF Last10TellsTelephones
  <1> QED BY <1>1 DEF ByPhone

\* For any number of clients, names and phones, as long as the last digits tell the
\* phones apart: whoever is found is the one active client that the question can mean,
\* by phone if anybody has it and by name only if nobody does.
THEOREM OnlyMatchIsFound ==
    ASSUME Last10TellsTelephones
    PROVE  ResolutionSpec => []FoundIsTheOnlyMatch
  <1>1. ResolutionInv => FoundIsTheOnlyMatch
    <2> SUFFICES ASSUME ResolutionInv PROVE FoundIsTheOnlyMatch
      OBVIOUS
    <2> DEFINE phone == resolution.phone
               part == resolution.part
               same == {c \in Rows : profile[c].mobile # <<>> /\ SameTelephone(profile[c].mobile, phone)}
               named == {c \in Rows : <<part, profile[c].name>> \in Within}
               meant == IF same # {} THEN same ELSE named
               byPhone == IF phone # <<>> THEN ByPhone(phone) ELSE {}
               matches == IF byPhone = {} /\ part # NoPart THEN ByName(part) ELSE byPhone
    <2>1. byPhone = same
      BY PhoneFindsTelephone DEF ResolutionInv, ResolutionTypeOK
    <2>2. part = NoPart => named = {}
      BY WithinAssumption
    <2>3. matches = meant
      BY <2>1, <2>2 DEF ByName
    <2>4. Cardinality({}) = 0
      BY FS_EmptySet
    <2>5. \/ resolution.how \in {"unasked", "error"}
          \/ resolution.how = "found" /\ resolution.who = matches /\ Cardinality(matches) = 1
          \/ resolution.how = "not_found" /\ matches = {}
          \/ resolution.how = "ambiguous" /\ resolution.who = matches /\ Cardinality(matches) # 1
      BY FindAnswers DEF ResolutionInv, AnswerStands
    <2>6. FoundIsTheOnlyMatch =
            (/\ resolution.how = "found" <=>
                  resolution.how \notin {"unasked", "error"} /\ Cardinality(meant) = 1
             /\ resolution.how \in {"found", "ambiguous"} => resolution.who = meant
             /\ resolution.how = "not_found" => meant = {})
      BY DEF FoundIsTheOnlyMatch, Rows
    <2> HIDE DEF matches, meant
    <2>7. resolution.how = "not_found" => Cardinality(meant) # 1
      BY <2>3, <2>4, <2>5
    <2> QED BY <2>3, <2>5, <2>6, <2>7
  <1> QED BY <1>1, ResolutionInitInv, ResolutionNextInv, PTL DEF ResolutionSpec

=============================================================================
