---------------------------- MODULE ActionPolicy ----------------------------
(***************************************************************************)
(* classify_terminal_command: which of the ways of being gated a shell     *)
(* command falls under.  A command is a sequence of the phrases the        *)
(* patterns tell apart; it is put together a phrase at a time, the way     *)
(* commands are chained.  A blank in a phrase is written as _.             *)
(***************************************************************************)
EXTENDS Integers, Sequences, FiniteSetsExt

CONSTANTS Phrases,    \* the phrases a command is made of
          MaxPhrases  \* bound: phrases in a command

\* A phrase for each pattern that looks at one place.
DestructivePhrases == {"rm_-rf", "git_reset_--hard", "DROP_TABLE", "TRUNCATE", "mkfs"}
ServicePhrases == {"systemctl_restart", "restart_gate.sh_--restart"}
DatabasePhrases == {"db/migrate.py", "INSERT_INTO", "UPDATE_t_SET"}
SafePhrases == {"pytest", "ruff", "npm_test", "node_--check"}
ReadAnywhere == {"git_log", "git_status", "journalctl", "SELECT"}
ReadFirst == {"cat", "grep", "ls", "find"}

ASSUME MaxPhrasesAssumption == MaxPhrases \in Nat

VARIABLE command

PolicyTypeOK == command \in Seq(Phrases) /\ Len(command) <= MaxPhrases

PolicyInit == command = <<>>

-----------------------------------------------------------------------------
(* The patterns. *)

Has(cmd, phrases) == \E k \in DOMAIN cmd : cmd[k] \in phrases
Begins(cmd, phrases) == cmd # <<>> /\ Head(cmd) \in phrases
Followed(cmd, phrase, by) ==
    \E k, m \in DOMAIN cmd : k < m /\ cmd[k] = phrase /\ cmd[m] \in by
NotFollowed(cmd, phrase, by) ==
    \E k \in DOMAIN cmd : cmd[k] = phrase /\ \A m \in DOMAIN cmd : k < m => cmd[m] \notin by

Matches(cmd, category) ==
    CASE category = "DESTRUCTIVE" ->
           \/ Has(cmd, DestructivePhrases)
           \/ Followed(cmd, "git_push", {"--force", "-f"})
           \/ NotFollowed(cmd, "DELETE_FROM", {"WHERE"})
      [] category = "SERVICE_MUTATION" -> Has(cmd, ServicePhrases)
      [] category = "DATABASE_MUTATION" ->
           \/ Followed(cmd, "psql", {"INSERT_INTO", "UPDATE_t_SET", "DELETE_FROM"})
           \/ Has(cmd, DatabasePhrases)
      [] category = "DEPLOYMENT" ->
           Has(cmd, {"deploy.sh"}) \/ NotFollowed(cmd, "git_push", {"--force"})
      [] category = "REPOSITORY_MUTATION" -> Has(cmd, {"git_commit"})
      [] category = "SAFE_EXECUTION" -> Has(cmd, SafePhrases)
      [] category = "READ_ONLY" -> Begins(cmd, ReadFirst) \/ Has(cmd, ReadAnywhere)

\* The lists in the order of CATEGORIES, mildest first.
CheckOrderMildest ==
    <<"READ_ONLY", "SAFE_EXECUTION", "REPOSITORY_MUTATION", "SERVICE_MUTATION",
      "DATABASE_MUTATION", "DEPLOYMENT", "DESTRUCTIVE">>

\* The lists in the order they are tried.
CheckOrder ==
    <<"DESTRUCTIVE", "SERVICE_MUTATION", "DATABASE_MUTATION", "DEPLOYMENT",
      "REPOSITORY_MUTATION", "SAFE_EXECUTION", "READ_ONLY">>

\* The first list with a match decides.
ClassifyTerminalCommand(cmd) ==
    LET hits == {k \in DOMAIN CheckOrder : Matches(cmd, CheckOrder[k])} IN
    IF cmd = <<>> THEN "READ_ONLY"
    ELSE IF hits = {} THEN "WORKSPACE_MUTATION" ELSE CheckOrder[Min(hits)]

\* requires_gated_approval; DESTRUCTIVE is not approvable at all.
RequiresGatedApproval(category) ==
    category \in {"REPOSITORY_MUTATION", "SERVICE_MUTATION", "DATABASE_MUTATION", "DEPLOYMENT"}

\* 3: never run, 2: on an approval of its own, 1: in an authorized BUILD scope, like a
\* file edit, 0: freely.
Held(cmd) ==
    LET category == ClassifyTerminalCommand(cmd) IN
    IF category = "DESTRUCTIVE" THEN 3
    ELSE IF RequiresGatedApproval(category) THEN 2
    ELSE IF category = "WORKSPACE_MUTATION" THEN 1 ELSE 0

AppendPhrase ==
    /\ Len(command) < MaxPhrases
    /\ \E p \in Phrases : command' = Append(command, p)

NewCommand == command # <<>> /\ command' = <<>>

PolicyNext == AppendPhrase \/ NewCommand
PolicySpec == PolicyInit /\ [][PolicyNext]_command

-----------------------------------------------------------------------------
(* Properties. *)

\* What a command is held back by survives what is chained to it, but for two things.
\* A WHERE after a DELETE FROM ends a DESTRUCTIVE (and even then a psql stays gated).
\* And an edit that no list knows loses its BUILD scope to a test or a look chained to
\* it: `sed -i x` is WORKSPACE_MUTATION, `sed -i x; pytest` SAFE_EXECUTION and
\* `sed -i x; git log` READ_ONLY, although "nothing dangerous falls through to a weaker
\* bucket".  Whatever needs an approval of its own keeps needing one.
ApprovalSurvivesChaining ==
    [][AppendPhrase =>
         LET chained == command'[Len(command')] IN
         /\ \/ Held(command') >= Held(command)
            \/ chained = "WHERE" /\ Has(command, {"DELETE_FROM"})
            \/ chained \in SafePhrases \union ReadAnywhere /\ Held(command) = 1
         /\ Followed(command', "psql", {"DELETE_FROM"}) => Held(command') >= 2]_command

=============================================================================
